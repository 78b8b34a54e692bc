-------------------------- MODULE Ownership_proofs --------------------------
(***************************************************************************)
(* Ownership for every set of users, requests and transfer ids, with any   *)
(* number of requests at work at once: the types and the origin of every   *)
(* transfer.                                                               *)
(***************************************************************************)
EXTENDS Ownership, TLAPS

(* Shapes and abbreviations every leaf may expand. *)
USE DEF Idle, Goto, Done, Levels, Assignable, Transfer, Pcs, Request

(* The creator is the only member, the owner, and the only one in the history. *)
LEMMA InitOwn == ASSUME Creator \in Users, Init PROVE OwnInv
<1>. USE DEF Init
<1>1. Idle \in Request  OBVIOUS
<1>2. TypeOK
  <2>1. req \in [Requests -> Request]
    <3>. HIDE DEF Idle, Request
    <3>. QED  BY <1>1
  <2>2. member \in [Users -> Levels] /\ ownerUser \in Users /\ everOwner \subseteq Users
    OBVIOUS
  <2>. QED  BY <2>1, <2>2 DEF TypeOK
<1>3. RequestShape /\ TransferFromOwner  BY DEF RequestShape, TransferFromOwner
<1>4. OwnerHistory  BY DEF OwnerHistory, Owners, IsOwner
<1>. QED  BY <1>2, <1>3, <1>4 DEF OwnInv

(* A manager or owner passes getGroupID. *)
LEMMA ManagerCheckOwn ==
  ASSUME OwnInv, NEW r \in Requests, NEW u \in Users, NEW v \in Users,
         ManagerCheck(r, u, v)
  PROVE  OwnInv'
<1>. USE DEF OwnInv, ManagerCheck, IsManager
<1>1. TypeOK'
  <2>. PICK pc \in {"share", "update", "remove"} :
         req' = [req EXCEPT ![r] = [Idle EXCEPT !.pc = pc, !.by = u, !.of = v]]
    OBVIOUS
  <2>1. [Idle EXCEPT !.pc = pc, !.by = u, !.of = v] \in Request  OBVIOUS
  <2>. HIDE DEF Request, Idle
  <2>2. req' \in [Requests -> Request]  BY <2>1 DEF TypeOK
  <2>. QED  BY <2>2 DEF TypeOK
<1>2. RequestShape'  BY DEF TypeOK, RequestShape
<1>3. OwnerHistory'  BY DEF TypeOK, RequestShape, OwnerHistory, Owners, IsOwner
<1>4. TransferFromOwner'  BY DEF TypeOK, RequestShape, OwnerHistory, TransferFromOwner
<1>. QED  BY <1>1, <1>2, <1>3, <1>4

(* Only an owner gets to create a transfer. *)
LEMMA TransferCheckOwn ==
  ASSUME OwnInv, NEW r \in Requests, NEW u \in Users, NEW v \in Users,
         TransferCheck(r, u, v)
  PROVE  OwnInv'
<1>. USE DEF OwnInv, TransferCheck, IsOwner
<1>1. TypeOK'  BY DEF TypeOK, RequestShape
<1>2. RequestShape'  BY DEF TypeOK, RequestShape
<1>3. OwnerHistory'  BY DEF TypeOK, RequestShape, OwnerHistory, Owners, IsOwner
<1>4. TransferFromOwner'  BY DEF TypeOK, RequestShape, OwnerHistory, TransferFromOwner
<1>. QED  BY <1>1, <1>2, <1>3, <1>4

(* A new row below owner. *)
LEMMA ShareConversationOwn ==
  ASSUME OwnInv, NEW r \in Requests, ShareConversation(r)
  PROVE  OwnInv'
<1>. USE DEF OwnInv, ShareConversation
<1>1. TypeOK'  BY DEF TypeOK, RequestShape
<1>2. RequestShape'  BY DEF TypeOK, RequestShape
<1>3. OwnerHistory'  BY DEF TypeOK, RequestShape, OwnerHistory, Owners, IsOwner
<1>4. TransferFromOwner'  BY DEF TypeOK, RequestShape, OwnerHistory, TransferFromOwner
<1>. QED  BY <1>1, <1>2, <1>3, <1>4

(* A row changes to a level below owner. *)
LEMMA UpdateMembershipOwn ==
  ASSUME OwnInv, NEW r \in Requests, UpdateMembership(r)
  PROVE  OwnInv'
<1>. USE DEF OwnInv, UpdateMembership
<1>1. TypeOK'  BY DEF TypeOK, RequestShape
<1>2. RequestShape'  BY DEF TypeOK, RequestShape
<1>3. OwnerHistory'  BY DEF TypeOK, RequestShape, OwnerHistory, Owners, IsOwner
<1>4. TransferFromOwner'  BY DEF TypeOK, RequestShape, OwnerHistory, TransferFromOwner
<1>. QED  BY <1>1, <1>2, <1>3, <1>4

(* The read that looks for the owner level. *)
LEMMA RemoveReadOwn ==
  ASSUME OwnInv, NEW r \in Requests, RemoveRead(r)
  PROVE  OwnInv'
<1>. USE DEF OwnInv, RemoveRead
<1>1. TypeOK'  BY DEF TypeOK, RequestShape
<1>2. RequestShape'  BY DEF TypeOK, RequestShape
<1>3. OwnerHistory'  BY DEF TypeOK, RequestShape, OwnerHistory, Owners, IsOwner
<1>4. TransferFromOwner'  BY DEF TypeOK, RequestShape, OwnerHistory, TransferFromOwner
<1>. QED  BY <1>1, <1>2, <1>3, <1>4

(* A row and the transfers to it go. *)
LEMMA DeleteMembershipOwn ==
  ASSUME OwnInv, NEW r \in Requests, DeleteMembership(r)
  PROVE  OwnInv'
<1>. USE DEF OwnInv, DeleteMembership
<1>1. TypeOK'  BY DEF TypeOK, RequestShape
<1>2. RequestShape'  BY DEF TypeOK, RequestShape
<1>3. OwnerHistory'  BY DEF TypeOK, RequestShape, OwnerHistory, Owners, IsOwner
<1>4. TransferFromOwner'  BY DEF TypeOK, RequestShape, OwnerHistory, TransferFromOwner
<1>. QED  BY <1>1, <1>2, <1>3, <1>4

(* The recipient has a row. *)
LEMMA RecipientCheckOwn ==
  ASSUME OwnInv, NEW r \in Requests, RecipientCheck(r)
  PROVE  OwnInv'
<1>. USE DEF OwnInv, RecipientCheck
<1>1. TypeOK'  BY DEF TypeOK, RequestShape
<1>2. RequestShape'  BY DEF TypeOK, RequestShape
<1>3. OwnerHistory'  BY DEF TypeOK, RequestShape, OwnerHistory, Owners, IsOwner
<1>4. TransferFromOwner'  BY DEF TypeOK, RequestShape, OwnerHistory, TransferFromOwner
<1>. QED  BY <1>1, <1>2, <1>3, <1>4

(* The sender was an owner when it was checked. *)
LEMMA CreateOwnershipTransferOwn ==
  ASSUME OwnInv, NEW r \in Requests, CreateOwnershipTransfer(r)
  PROVE  OwnInv'
<1>. USE DEF OwnInv, CreateOwnershipTransfer
<1>1. TypeOK'  BY DEF TypeOK, RequestShape
<1>2. RequestShape'  BY DEF TypeOK, RequestShape
<1>3. OwnerHistory'  BY DEF TypeOK, RequestShape, OwnerHistory, Owners, IsOwner
<1>4. TransferFromOwner'  BY DEF TypeOK, RequestShape, OwnerHistory, TransferFromOwner
<1>. QED  BY <1>1, <1>2, <1>3, <1>4

(* The transfer is read as it is. *)
LEMMA AcceptReadOwn ==
  ASSUME OwnInv, NEW r \in Requests, NEW t \in transfers, AcceptRead(r, t)
  PROVE  OwnInv'
<1>. USE DEF OwnInv, AcceptRead
<1>1. TypeOK'  BY DEF TypeOK, RequestShape
<1>2. RequestShape'  BY DEF TypeOK, RequestShape
<1>3. OwnerHistory'  BY DEF TypeOK, RequestShape, OwnerHistory, Owners, IsOwner
<1>4. TransferFromOwner'  BY DEF TypeOK, RequestShape, OwnerHistory, TransferFromOwner
<1>. QED  BY <1>1, <1>2, <1>3, <1>4

(* The transfer is read as it is. *)
LEMMA CancelReadOwn ==
  ASSUME OwnInv, NEW r \in Requests, NEW t \in transfers, CancelRead(r, t)
  PROVE  OwnInv'
<1>. USE DEF OwnInv, CancelRead
<1>1. TypeOK'
  <2>. PICK u \in {t.from, t.to} :
         req' = [req EXCEPT ![r] = [Idle EXCEPT !.pc = "cancel", !.by = u, !.t = t]]
    OBVIOUS
  <2>1. [Idle EXCEPT !.pc = "cancel", !.by = u, !.t = t] \in Request  BY DEF TypeOK
  <2>. HIDE DEF Request, Idle
  <2>2. req' \in [Requests -> Request]  BY <2>1 DEF TypeOK
  <2>. QED  BY <2>2 DEF TypeOK
<1>2. RequestShape'  BY DEF TypeOK, RequestShape
<1>3. OwnerHistory'  BY DEF TypeOK, RequestShape, OwnerHistory, Owners, IsOwner
<1>4. TransferFromOwner'  BY DEF TypeOK, RequestShape, OwnerHistory, TransferFromOwner
<1>. QED  BY <1>1, <1>2, <1>3, <1>4

(* The accepting transaction begins. *)
LEMMA AcceptDemoteOwn ==
  ASSUME OwnInv, NEW r \in Requests, AcceptDemote(r)
  PROVE  OwnInv'
<1>. USE DEF OwnInv, AcceptDemote
<1>1. TypeOK'
  <2>. DEFINE found == {u \in {req[r].t.from, req[r].t.to} : member[u] # "none"}
  <2>1. req[r] \in Request /\ found \in SUBSET Users  BY DEF TypeOK, RequestShape
  <2>2. [req[r] EXCEPT !.pc = "accepting", !.seen = found] \in Request
    <3>. HIDE DEF found
    <3>. QED  BY <2>1
  <2>. HIDE DEF Request, found
  <2>3. req' = [req EXCEPT ![r] = [req[r] EXCEPT !.pc = "accepting", !.seen = found]]
    BY DEF found
  <2>4. req' \in [Requests -> Request]  BY <2>2, <2>3 DEF TypeOK
  <2>. QED  BY <2>4 DEF TypeOK
<1>2. RequestShape'  BY DEF TypeOK, RequestShape
<1>3. OwnerHistory'  BY DEF TypeOK, RequestShape, OwnerHistory, Owners, IsOwner
<1>4. TransferFromOwner'  BY DEF TypeOK, RequestShape, OwnerHistory, TransferFromOwner
<1>. QED  BY <1>1, <1>2, <1>3, <1>4

(* The only step that creates an owner records it in the history. *)
LEMMA AcceptTransferOwn ==
  ASSUME OwnInv, NEW r \in Requests, AcceptTransfer(r)
  PROVE  OwnInv'
<1>. USE DEF OwnInv, AcceptTransfer
<1>1. TypeOK'  BY DEF TypeOK, RequestShape
<1>2. RequestShape'  BY DEF TypeOK, RequestShape
<1>3. OwnerHistory'  BY DEF TypeOK, RequestShape, OwnerHistory, Owners, IsOwner
<1>4. TransferFromOwner'  BY DEF TypeOK, RequestShape, OwnerHistory, TransferFromOwner
<1>. QED  BY <1>1, <1>2, <1>3, <1>4

(* A transfer goes. *)
LEMMA DeleteTransferOwn ==
  ASSUME OwnInv, NEW r \in Requests, DeleteTransfer(r)
  PROVE  OwnInv'
<1>. USE DEF OwnInv, DeleteTransfer
<1>1. TypeOK'  BY DEF TypeOK, RequestShape
<1>2. RequestShape'  BY DEF TypeOK, RequestShape
<1>3. OwnerHistory'  BY DEF TypeOK, RequestShape, OwnerHistory, Owners, IsOwner
<1>4. TransferFromOwner'  BY DEF TypeOK, RequestShape, OwnerHistory, TransferFromOwner
<1>. QED  BY <1>1, <1>2, <1>3, <1>4

(* Only the archived flag changes. *)
LEMMA ArchiveConversationOwn ==
  ASSUME OwnInv, NEW r \in Requests, ArchiveConversation(r)
  PROVE  OwnInv'
<1>. USE DEF OwnInv, ArchiveConversation
<1>1. TypeOK'  BY DEF TypeOK, RequestShape
<1>2. RequestShape'  BY DEF TypeOK, RequestShape
<1>3. OwnerHistory'  BY DEF TypeOK, RequestShape, OwnerHistory, Owners, IsOwner
<1>4. TransferFromOwner'  BY DEF TypeOK, RequestShape, OwnerHistory, TransferFromOwner
<1>. QED  BY <1>1, <1>2, <1>3, <1>4

(* The request is over. *)
LEMMA RequestFailsOwn ==
  ASSUME OwnInv, NEW r \in Requests, RequestFails(r)
  PROVE  OwnInv'
<1>. USE DEF OwnInv, RequestFails
<1>1. TypeOK'  BY DEF TypeOK, RequestShape
<1>2. RequestShape'  BY DEF TypeOK, RequestShape
<1>3. OwnerHistory'  BY DEF TypeOK, RequestShape, OwnerHistory, Owners, IsOwner
<1>4. TransferFromOwner'  BY DEF TypeOK, RequestShape, OwnerHistory, TransferFromOwner
<1>. QED  BY <1>1, <1>2, <1>3, <1>4

(* Only an owner archives. *)
LEMMA ArchiveCheckOwn ==
  ASSUME OwnInv, NEW r \in Requests, NEW u \in Users, ArchiveCheck(r, u)
  PROVE  OwnInv'
<1>. USE DEF OwnInv, ArchiveCheck, IsOwner
<1>1. TypeOK'  BY DEF TypeOK, RequestShape
<1>2. RequestShape'  BY DEF TypeOK, RequestShape
<1>3. OwnerHistory'  BY DEF TypeOK, RequestShape, OwnerHistory, Owners, IsOwner
<1>4. TransferFromOwner'  BY DEF TypeOK, RequestShape, OwnerHistory, TransferFromOwner
<1>. QED  BY <1>1, <1>2, <1>3, <1>4

(* Only the archived flag changes. *)
LEMMA AdminSetConversationArchivedOwn ==
  ASSUME OwnInv, AdminSetConversationArchived
  PROVE  OwnInv'
<1>. USE DEF OwnInv, AdminSetConversationArchived
<1>1. TypeOK'  BY DEF TypeOK, RequestShape
<1>2. RequestShape'  BY DEF TypeOK, RequestShape
<1>3. OwnerHistory'  BY DEF TypeOK, RequestShape, OwnerHistory, Owners, IsOwner
<1>4. TransferFromOwner'  BY DEF TypeOK, RequestShape, OwnerHistory, TransferFromOwner
<1>. QED  BY <1>1, <1>2, <1>3, <1>4

(* Every step of every request preserves the invariant. *)
LEMMA NextOwn == OwnInv /\ [Next]_vars => OwnInv'
<1>. SUFFICES ASSUME OwnInv, [Next]_vars PROVE OwnInv'
  OBVIOUS
<1>1. CASE \E r \in Requests : Step(r)
  <2>. PICK r \in Requests : Step(r)
    BY <1>1
  <2>. QED
    BY ManagerCheckOwn, TransferCheckOwn, ShareConversationOwn,
       UpdateMembershipOwn, RemoveReadOwn, DeleteMembershipOwn, RecipientCheckOwn,
       CreateOwnershipTransferOwn, AcceptReadOwn, CancelReadOwn, AcceptDemoteOwn,
       AcceptTransferOwn, DeleteTransferOwn, ArchiveConversationOwn,
       RequestFailsOwn, ArchiveCheckOwn
    DEF Step
<1>2. CASE AdminSetConversationArchived
  BY <1>2, AdminSetConversationArchivedOwn
<1>3. CASE UNCHANGED vars
  BY <1>3 DEF vars, OwnInv, TypeOK, RequestShape, OwnerHistory, TransferFromOwner,
              Owners, IsOwner
<1>. QED  BY <1>1, <1>2, <1>3 DEF Next

(* The whole invariant holds in every reachable state. *)
LEMMA OwnInvariance == ASSUME Creator \in Users PROVE Spec => []OwnInv
<1>1. Init => OwnInv  BY InitOwn
<1>. QED  BY <1>1, NextOwn, PTL DEF Spec

(* Every row, transfer and request keeps its shape, and a pending transfer  *)
(* has an id that was handed out (the membership and transfer handlers).    *)
THEOREM OwnershipTypes == ASSUME Creator \in Users PROVE Spec => []TypeOK
<1>1. OwnInv => TypeOK  BY DEF OwnInv
<1>. QED  BY <1>1, OwnInvariance, PTL

(* Whatever overlaps, ownership is only ever offered by a user who had it   *)
(* (CreateOwnershipTransfer, AcceptTransfer).                               *)
THEOREM TransfersComeFromOwners == ASSUME Creator \in Users PROVE Spec => []TransferFromOwner
<1>1. OwnInv => TransferFromOwner  BY DEF OwnInv
<1>. QED  BY <1>1, OwnInvariance, PTL
=============================================================================
