----------------------------- MODULE Ownership -----------------------------
(***************************************************************************)
(* Who may do what with one conversation group: the membership rows, the   *)
(* pending ownership transfer and the archived flag, as the membership and *)
(* transfer routes change them through plugin/store/postgres/postgres.go.  *)
(*                                                                         *)
(* Every handler authorizes with one statement and writes with a later     *)
(* one; nothing locks the rows it authorized from.  Between two statements *)
(* of one request the statements of the others may run (READ COMMITTED).   *)
(* "writer" stands for every level below manager: nothing here tells them  *)
(* apart.                                                                  *)
(***************************************************************************)
EXTENDS FiniteSets

CONSTANTS Users, Creator,  \* user ids; the one who created the conversation
          Requests,        \* request goroutines
          TransferIds,     \* transfer ids (fresh uuids: an id is used once)
          None

VARIABLES
    member,     \* access_level of each user's membership row, or "none"
    ownerUser,  \* owner_user_id of the conversation rows
    archived,   \* archived_at of the conversation rows is set
    transfers,  \* pending rows of conversation_ownership_transfers
    usedIds,    \* transfer ids handed out
    req,        \* request goroutines
    everOwner   \* history: the users that have had the owner level

vars == <<member, ownerUser, archived, transfers, usedIds, req, everOwner>>

Assignable == {"writer", "manager"}
Levels == Assignable \cup {"none", "owner"}
Transfer == [id : TransferIds, from : Users, to : Users]
Pcs == {"idle", "share", "update", "remove", "removing", "create", "creating",
        "accept", "accepting", "cancel", "archive", "unarchive"}

(* by: the caller; of: the user the request is about; t: the transfer it    *)
(* read; seen: the membership rows AcceptTransfer found in its transaction. *)
Request == [pc : Pcs, by : Users \cup {None}, of : Users \cup {None},
            t : Transfer \cup {None}, seen : SUBSET Users]

(* Every variable has its shape and every id of a transfer was handed out. *)
TypeOK ==
    /\ member \in [Users -> Levels]
    /\ ownerUser \in Users
    /\ archived \in BOOLEAN
    /\ transfers \subseteq Transfer
    /\ usedIds \subseteq TransferIds
    /\ \A t \in transfers : t.id \in usedIds
    /\ req \in [Requests -> Request]
    /\ everOwner \subseteq Users

Idle == [pc |-> "idle", by |-> None, of |-> None, t |-> None, seen |-> {}]

(* A new conversation: its creator's membership row is the only one. *)
Init ==
    /\ member = [u \in Users |-> IF u = Creator THEN "owner" ELSE "none"]
    /\ ownerUser = Creator
    /\ archived = FALSE
    /\ transfers = {}
    /\ usedIds = {}
    /\ req = [r \in Requests |-> Idle]
    /\ everOwner = {Creator}

-----------------------------------------------------------------------------
(* getGroupID and requireAccess: a statement of their own. *)
IsManager(u) == member[u] \in {"manager", "owner"}
IsOwner(u) == member[u] = "owner"

Goto(r, pc, u, v) == req' = [req EXCEPT ![r] = [Idle EXCEPT !.pc = pc, !.by = u, !.of = v]]
Done(r) == req' = [req EXCEPT ![r] = Idle]

(* AcceptTransfer's first UPDATE holds the row lock of the old owner. *)
RowLocked(u) ==
    \E r \in Requests : req[r].pc = "accepting" /\ u = req[r].t.from /\ u \in req[r].seen

-----------------------------------------------------------------------------
(* Memberships. *)

ManagerCheck(r, u, v) ==
    /\ req[r].pc = "idle"
    /\ ~archived /\ IsManager(u)
    /\ \E pc \in {"share", "update", "remove"} : Goto(r, pc, u, v)
    /\ UNCHANGED <<member, ownerUser, archived, transfers, usedIds, everOwner>>

(* INSERT; a row that is already there is a conflict. *)
ShareConversation(r) ==
    /\ req[r].pc = "share"
    /\ \E l \in Assignable :
         member' = IF member[req[r].of] = "none"
                     THEN [member EXCEPT ![req[r].of] = l] ELSE member
    /\ Done(r)
    /\ UNCHANGED <<ownerUser, archived, transfers, usedIds, everOwner>>

(* UPDATE whatever level the row has; no row is NotFound. *)
UpdateMembership(r) ==
    /\ req[r].pc = "update"
    /\ ~RowLocked(req[r].of)
    /\ \E l \in Assignable :
         member' = IF member[req[r].of] # "none"
                     THEN [member EXCEPT ![req[r].of] = l] ELSE member
    /\ Done(r)
    /\ UNCHANGED <<ownerUser, archived, transfers, usedIds, everOwner>>

(* The owner cannot be removed, as far as this read can tell. *)
RemoveRead(r) ==
    /\ req[r].pc = "remove"
    /\ req' = [req EXCEPT ![r] = IF member[@.of] \in {"none", "owner"}
                                   THEN Idle ELSE [@ EXCEPT !.pc = "removing"]]
    /\ UNCHANGED <<member, ownerUser, archived, transfers, usedIds, everOwner>>

(* Removing the recipient of the pending transfer cancels it. *)
DeleteMembership(r) ==
    /\ req[r].pc = "removing"
    /\ ~RowLocked(req[r].of)
    /\ transfers' = {t \in transfers : t.to # req[r].of}
    /\ member' = [member EXCEPT ![req[r].of] = "none"]
    /\ Done(r)
    /\ UNCHANGED <<ownerUser, archived, usedIds, everOwner>>

-----------------------------------------------------------------------------
(* Ownership transfers.  These run on the connection pool, not in the       *)
(* transaction of the request: every statement commits by itself.           *)

TransferCheck(r, u, v) ==
    /\ req[r].pc = "idle"
    /\ ~archived /\ IsOwner(u)
    /\ u # v
    /\ Goto(r, "create", u, v)
    /\ UNCHANGED <<member, ownerUser, archived, transfers, usedIds, everOwner>>

RecipientCheck(r) ==
    /\ req[r].pc = "create"
    /\ req' = [req EXCEPT ![r] = IF member[@.of] = "none"
                                   THEN Idle ELSE [@ EXCEPT !.pc = "creating"]]
    /\ UNCHANGED <<member, ownerUser, archived, transfers, usedIds, everOwner>>

(* unique_transfer_per_conversation: one pending transfer at most. *)
CreateOwnershipTransfer(r) ==
    /\ req[r].pc = "creating"
    /\ \/ /\ transfers = {}
          /\ \E i \in TransferIds \ usedIds :
               /\ transfers' = {[id |-> i, from |-> req[r].by, to |-> req[r].of]}
               /\ usedIds' = usedIds \cup {i}
       \/ /\ transfers # {}
          /\ UNCHANGED <<transfers, usedIds>>
    /\ Done(r)
    /\ UNCHANGED <<member, ownerUser, archived, everOwner>>

(* The recipient reads the transfer before the transaction begins ... *)
AcceptRead(r, t) ==
    /\ req[r].pc = "idle"
    /\ t \in transfers
    /\ req' = [req EXCEPT ![r] = [Idle EXCEPT !.pc = "accept", !.by = t.to, !.t = t]]
    /\ UNCHANGED <<member, ownerUser, archived, transfers, usedIds, everOwner>>

(* ... which demotes the old owner, if there is such a row, and looks for   *)
(* the recipient's ...                                                      *)
AcceptDemote(r) ==
    /\ req[r].pc = "accept"
    /\ ~RowLocked(req[r].t.from)
    /\ req' = [req EXCEPT ![r] =
         [@ EXCEPT !.pc = "accepting",
                   !.seen = {u \in {req[r].t.from, req[r].t.to} : member[u] # "none"}]]
    /\ UNCHANGED <<member, ownerUser, archived, transfers, usedIds, everOwner>>

(* ... promotes the row it found (none is left if it was removed since) or  *)
(* inserts one, and commits.  An insert that meets a row aborts everything: *)
(* the errors of the statements are ignored, but the COMMIT is refused.     *)
AcceptTransfer(r) ==
    LET t == req[r].t
        seen == req[r].seen
        aborted == t.to \notin seen /\ member[t.to] # "none"
    IN
    /\ req[r].pc = "accepting"
    /\ ~RowLocked(t.to)
    /\ IF aborted THEN UNCHANGED <<member, ownerUser, transfers>>
       ELSE /\ member' = [member EXCEPT
                            ![t.from] = IF t.from \in seen THEN "manager" ELSE @,
                            ![t.to] = IF t.to \in seen /\ @ = "none" THEN @ ELSE "owner"]
            /\ ownerUser' = IF archived THEN ownerUser ELSE t.to
            /\ transfers' = {x \in transfers : x.id # t.id}
    /\ everOwner' = everOwner \cup {u \in Users : member'[u] = "owner"}
    /\ Done(r)
    /\ UNCHANGED <<archived, usedIds>>

(* Either party may cancel: read, then delete by id. *)
CancelRead(r, t) ==
    /\ req[r].pc = "idle"
    /\ t \in transfers
    /\ \E u \in {t.from, t.to} :
         req' = [req EXCEPT ![r] = [Idle EXCEPT !.pc = "cancel", !.by = u, !.t = t]]
    /\ UNCHANGED <<member, ownerUser, archived, transfers, usedIds, everOwner>>

DeleteTransfer(r) ==
    /\ req[r].pc = "cancel"
    /\ transfers' = {x \in transfers : x.id # req[r].t.id}
    /\ Done(r)
    /\ UNCHANGED <<member, ownerUser, archived, usedIds, everOwner>>

-----------------------------------------------------------------------------
(* Archiving: the owner through the API, or an administrator. *)

ArchiveCheck(r, u) ==
    /\ req[r].pc = "idle"
    /\ IsOwner(u)
    /\ Goto(r, IF archived THEN "unarchive" ELSE "archive", u, None)
    /\ UNCHANGED <<member, ownerUser, archived, transfers, usedIds, everOwner>>

ArchiveConversation(r) ==
    /\ req[r].pc \in {"archive", "unarchive"}
    /\ archived' = (req[r].pc = "archive")
    /\ Done(r)
    /\ UNCHANGED <<member, ownerUser, transfers, usedIds, everOwner>>

AdminSetConversationArchived ==
    /\ archived' = ~archived
    /\ UNCHANGED <<member, ownerUser, transfers, usedIds, req, everOwner>>

(* A statement fails, a deadlock is broken or the process dies: what the    *)
(* open transaction wrote is gone, the request is over.                     *)
RequestFails(r) ==
    /\ req[r].pc # "idle"
    /\ Done(r)
    /\ UNCHANGED <<member, ownerUser, archived, transfers, usedIds, everOwner>>

-----------------------------------------------------------------------------
Step(r) ==
    \/ \E u, v \in Users : ManagerCheck(r, u, v) \/ TransferCheck(r, u, v)
    \/ ShareConversation(r) \/ UpdateMembership(r) \/ RemoveRead(r) \/ DeleteMembership(r)
    \/ RecipientCheck(r) \/ CreateOwnershipTransfer(r)
    \/ \E t \in transfers : AcceptRead(r, t) \/ CancelRead(r, t)
    \/ AcceptDemote(r) \/ AcceptTransfer(r) \/ DeleteTransfer(r)
    \/ \E u \in Users : ArchiveCheck(r, u)
    \/ ArchiveConversation(r) \/ RequestFails(r)

Next == (\E r \in Requests : Step(r)) \/ AdminSetConversationArchived

Spec == Init /\ [][Next]_vars

-----------------------------------------------------------------------------
(* Properties. *)

Owners == {u \in Users : IsOwner(u)}

(* "Only one owner per conversation" (sharing.mdx:47), whatever requests    *)
(* overlap.  The code does not keep this: AcceptTransfer demotes the sender *)
(* it read and promotes the recipient, and neither it nor                   *)
(* CreateOwnershipTransfer looks again at who the owner is by then.         *)
AtMostOneOwner == \A u, v \in Owners : u = v

(* What does hold, however the checks of CreateOwnershipTransfer are        *)
(* overtaken by other requests: ownership is never offered by someone who   *)
(* did not have it.  Every pending transfer, and every one being accepted,  *)
(* names as its sender a user who has been the owner.                       *)
TransferFromOwner ==
    /\ \A t \in transfers : t.from \in everOwner
    /\ \A r \in Requests : req[r].t # None => req[r].t.from \in everOwner

(* The inductive invariant behind TransferFromOwner. *)

(* A request past its first statement holds what that statement read. *)
RequestShape ==
    \A r \in Requests :
      /\ req[r].pc \in {"share", "update", "remove", "removing", "create", "creating"}
           => req[r].by \in Users /\ req[r].of \in Users
      /\ req[r].pc \in {"accept", "accepting", "cancel"} => req[r].t \in Transfer

(* Whoever passed TransferCheck, or still has the owner level, was an owner. *)
OwnerHistory ==
    /\ Owners \subseteq everOwner
    /\ \A r \in Requests : req[r].pc \in {"create", "creating"} => req[r].by \in everOwner

OwnInv == TypeOK /\ RequestShape /\ OwnerHistory /\ TransferFromOwner
=============================================================================
