--------------------------- MODULE Conversations ---------------------------
(***************************************************************************)
(* Conversations, forks and appended entries in the PostgreSQL store:      *)
(* createConversationWithID, appendEntries, the recovery of a retried      *)
(* append (FindSequencedAppendMatch) and the entry SyncAgentEntry inserts, *)
(* with the ancestry rows that decide which entries a fork shows.          *)
(*                                                                         *)
(* A request is a transaction at READ COMMITTED.  Its statements are       *)
(* separate actions where another request can get in between; what it      *)
(* wrote is seen by others when it commits.  One user, who may do          *)
(* everything (see Ownership), and one client id.                          *)
(***************************************************************************)
EXTENDS Naturals, Sequences, FiniteSets, FiniteSetsExt

CONSTANTS Convs,        \* conversation ids, chosen by clients
          Groups,       \* conversation group ids (fresh uuids)
          Handlers,     \* request goroutines
          Ops, Request, \* append and sync requests a client may send, and send again:
                        \* Request[o].kind, .conv, and .items, each with a seq or None
          MaxAttempts,  \* bound: how often each of them is sent
          Clock,        \* readings of the instances' wall clocks
          None

VARIABLES
    convs,     \* conversation rows with their ancestry rows, or None
    groups,    \* rows of conversation_groups
    archived,  \* conversations and groups whose archived_at is set
    log,       \* rows of entries
    sent,      \* how often each append request has been sent
    handler,   \* request goroutines
    replies,   \* append requests acknowledged, with the entries returned
    creates    \* create requests acknowledged, with the lineage asked for

vars == <<convs, groups, archived, log, sent, handler, replies, creates>>

Items(o) == Request[o].items
IsSync(o) == Request[o].kind = "sync"
Sequenced(o) == \E i \in DOMAIN Items(o) : Items(o)[i].seq # None

(* A row of entries: item is what was asked for, with its seq; batch is the *)
(* definition of its request, kept on the anchor of a batch.                *)
AllItems == UNION {{Items(o)[i] : i \in DOMAIN Items(o)} : o \in Ops}
Entry == [op : Ops, att : Nat, pos : Nat, conv : Convs, group : Groups, item : AllItems,
          time : Nat, batch : {Items(o) : o \in Ops} \cup {<< >>}]
Segment == [conv : Convs, before : Entry \cup {None}, forkedAt : Entry \cup {None}]
ConvRow == [group : Groups, path : Seq(Segment)]
Pcs == {"idle", "create", "insertConv", "commit", "lock", "insert", "recover"}
Handler == [pc : Pcs, conv : Convs \cup {None}, op : Ops \cup {None}, att : Nat,
            src : Convs \cup {None}, anchor : Entry \cup {None}, group : Groups \cup {None},
            row : ConvRow \cup {None}, newGroup : Groups \cup {None}, now : Nat]

ASSUME NoneAssumption == None \notin Convs \cup Ops /\ None \notin ConvRow
ASSUME RequestAssumption ==
    \A o \in Ops : Request[o].conv \in Convs /\ Items(o) \in Seq(AllItems)
ASSUME ClockAssumption == Clock \subseteq Nat

(* Every variable has its shape, and an entry belongs to a conversation of  *)
(* its group.                                                               *)
TypeOK ==
    /\ convs \in [Convs -> ConvRow \cup {None}]
    /\ groups \subseteq Groups
    /\ archived \subseteq Convs \cup Groups
    /\ log \subseteq Entry
    /\ \A e \in log : convs[e.conv] # None /\ convs[e.conv].group = e.group
    /\ sent \in [Ops -> Nat]
    /\ handler \in [Handlers -> Handler]
    /\ \A r \in replies : r.op \in Ops /\ r.entries \subseteq Entry
    /\ \A r \in creates : r.conv \in Convs

Idle == [pc |-> "idle", conv |-> None, op |-> None, att |-> 0, src |-> None,
         anchor |-> None, group |-> None, row |-> None, newGroup |-> None, now |-> 0]

Init ==
    /\ convs = [c \in Convs |-> None]
    /\ groups = {}
    /\ archived = {}
    /\ log = {}
    /\ sent = [o \in Ops |-> 0]
    /\ handler = [h \in Handlers |-> Idle]
    /\ replies = {}
    /\ creates = {}

-----------------------------------------------------------------------------
(* What a conversation shows.  path[k] is its ancestry row of depth k - 1:  *)
(* path[1] is the conversation itself, path[2] the one it was forked from.  *)
(* Entries are ordered by created_at; ties, which seq and id would break,   *)
(* do not happen within a group (see InheritedIsStable).                    *)

Own(c) == {e \in log : e.conv = c /\ e.group = convs[c].group}

InSegment(e, path, k) ==
    /\ e.conv = path[k].conv
    /\ k = 1 \/ (path[k].before # None /\ e.time < path[k].before.time)

Visible(c) ==
    {e \in log : /\ e.group = convs[c].group
                 /\ \E k \in DOMAIN convs[c].path : InSegment(e, convs[c].path, k)}

Inherited(c) == Visible(c) \ Own(c)

(* BuildConversationAncestrySegments: the parent's rows one deeper, with    *)
(* the boundary on the row that owns the anchor and none nearer than that.  *)
Segments_NearerKept(c, parent, anchor, owner) ==
    [k \in 1..(Len(parent) + 1) |->
       IF k = 1 THEN [conv |-> c, before |-> None, forkedAt |-> None]
       ELSE [conv |-> parent[k - 1].conv,
             before |-> IF anchor # None /\ k - 1 = owner THEN anchor ELSE parent[k - 1].before,
             forkedAt |-> IF k = 2 THEN anchor ELSE None]]

Segments(c, parent, anchor, owner) ==
    [k \in 1..(Len(parent) + 1) |->
       IF k = 1 THEN [conv |-> c, before |-> None, forkedAt |-> None]
       ELSE [conv |-> parent[k - 1].conv,
             before |-> IF anchor = None \/ k - 1 > owner THEN parent[k - 1].before
                        ELSE IF k - 1 = owner THEN anchor ELSE None,
             forkedAt |-> IF k = 2 THEN anchor ELSE None]]

(* The lineage hydrateConversationFork reads back from the depth-1 row. *)
ForkedFrom(c) == IF Len(convs[c].path) = 1 THEN None ELSE convs[c].path[2].conv
ForkedAt(c) == IF Len(convs[c].path) = 1 THEN None ELSE convs[c].path[2].forkedAt

-----------------------------------------------------------------------------
(* The advisory lock on the conversation id is taken by appends only. *)
ConvLocked(c) ==
    \E h \in Handlers : /\ handler[h].op # None /\ handler[h].conv = c
                        /\ ~IsSync(handler[h].op)
                        /\ handler[h].pc \in {"create", "insertConv", "lock", "insert"}

(* The advisory lock on the group, from the choice of created_at on. *)
GroupLocked(g) == \E h \in Handlers : handler[h].pc = "insert" /\ handler[h].group = g

(* An uncommitted row with the same primary key makes an insert wait. *)
InsertPending(c) == \E h \in Handlers : handler[h].conv = c /\ handler[h].row # None

FreshGroups == Groups \ (groups \cup {handler[x].newGroup : x \in Handlers})

Set(h, s) == handler' = [handler EXCEPT ![h] = s]
Done(h) == Set(h, Idle)

(* A sequenced append that failed looks for the entries of an earlier       *)
(* attempt: after a duplicate sequence always, after NotFound for batches.  *)
Recovering(o) == [Idle EXCEPT !.pc = "recover", !.op = o, !.conv = Request[o].conv]
NotFound(h, o) ==
    Set(h, IF o # None /\ Sequenced(o) /\ Len(Items(o)) > 1 THEN Recovering(o) ELSE Idle)

-----------------------------------------------------------------------------
(* A request arrives.  A retry may overlap the attempt its client gave up.  *)

AppendEntries(h, o, src, anchor) ==
    LET c == Request[o].conv
        new == [Idle EXCEPT !.conv = c, !.op = o, !.att = sent[o] + 1,
                            !.src = src, !.anchor = anchor]
    IN
    /\ handler[h].pc = "idle"
    /\ sent[o] < MaxAttempts[o] /\ ~IsSync(o)
    /\ ~ConvLocked(c)
    /\ sent' = [sent EXCEPT ![o] = @ + 1]
    /\ \/ convs[c] = None /\ Set(h, [new EXCEPT !.pc = "create"])
       \/ convs[c] # None /\ c \in archived /\ NotFound(h, o)
       \/ /\ convs[c] # None /\ c \notin archived
          /\ Set(h, [new EXCEPT !.pc = "lock", !.group = convs[c].group])
    /\ UNCHANGED <<convs, groups, archived, log, replies, creates>>

(* SyncAgentEntry reads what is stored before it takes a lock; what it      *)
(* finds may leave nothing to insert.  A missing conversation is inserted   *)
(* without ON CONFLICT (autoCreateConversation).                            *)
SyncAgentEntry(h, o) ==
    LET c == Request[o].conv
        new == [Idle EXCEPT !.conv = c, !.op = o, !.att = sent[o] + 1]
    IN
    /\ handler[h].pc = "idle"
    /\ sent[o] < MaxAttempts[o] /\ IsSync(o)
    /\ sent' = [sent EXCEPT ![o] = @ + 1]
    /\ \/ Done(h)
       \/ /\ convs[c] = None
          /\ \E g \in FreshGroups :
               Set(h, [new EXCEPT !.pc = "insertConv", !.group = g, !.newGroup = g])
       \/ /\ convs[c] # None /\ c \notin archived
          /\ Set(h, [new EXCEPT !.pc = "lock", !.group = convs[c].group])
    /\ UNCHANGED <<convs, groups, archived, log, replies, creates>>

CreateConversation(h, c, src, anchor) ==
    /\ handler[h].pc = "idle"
    /\ Set(h, [Idle EXCEPT !.pc = "create", !.conv = c, !.src = src, !.anchor = anchor])
    /\ UNCHANGED <<convs, groups, archived, log, sent, replies, creates>>

(* The id is taken: the group made for it is removed.  An append goes on    *)
(* with the conversation there is; a create is an exact retry if the        *)
(* lineage is the same, else a conflict.                                    *)
Existing_KeepGroup(h) ==
    LET q == handler[h] IN
    IF q.conv \in archived THEN NotFound(h, q.op) /\ UNCHANGED creates
    ELSE /\ q.op # None
         /\ Set(h, [q EXCEPT !.pc = "lock", !.group = convs[q.conv].group])
         /\ UNCHANGED creates

Existing_AnyLineage(h) ==
    /\ Done(h)
    /\ creates' = creates \cup {[conv |-> handler[h].conv, src |-> handler[h].src,
                                 anchor |-> handler[h].anchor]}

Existing(h) ==
    LET q == handler[h]
        exact == ForkedFrom(q.conv) = q.src /\ ForkedAt(q.conv) = q.anchor
    IN
    \/ q.conv \in archived /\ NotFound(h, q.op) /\ UNCHANGED creates
    \/ /\ q.conv \notin archived /\ q.op # None
       /\ Set(h, [q EXCEPT !.pc = "lock", !.group = convs[q.conv].group, !.newGroup = None])
       /\ UNCHANGED creates
    \/ /\ q.conv \notin archived /\ q.op = None
       /\ Done(h)
       /\ creates' = IF exact
                       THEN creates \cup {[conv |-> q.conv, src |-> q.src, anchor |-> q.anchor]}
                       ELSE creates

(* createConversationWithID up to the inserts: the source must be active    *)
(* and show the anchor.                                                     *)
CreateCheck(h) ==
    LET q == handler[h]
        srcFound == q.src # None => convs[q.src] # None /\ q.src \notin archived
        anchorFound == q.anchor # None => q.anchor.group = convs[q.src].group
        anchorShown == q.anchor # None => q.anchor \in Visible(q.src)
    IN
    /\ q.pc = "create"
    /\ \/ ~(srcFound /\ anchorFound) /\ NotFound(h, q.op) /\ UNCHANGED creates
       \/ srcFound /\ anchorFound /\ ~anchorShown /\ Done(h) /\ UNCHANGED creates
       \/ srcFound /\ anchorShown /\ convs[q.conv] # None /\ Existing(h)
       \/ /\ srcFound /\ anchorShown /\ convs[q.conv] = None
          /\ IF q.src = None
               THEN \E g \in FreshGroups :
                      Set(h, [q EXCEPT !.pc = "insertConv", !.group = g, !.newGroup = g])
               ELSE Set(h, [q EXCEPT !.pc = "insertConv", !.group = convs[q.src].group])
          /\ UNCHANGED creates
    /\ UNCHANGED <<convs, groups, archived, log, sent, replies>>

NewRow(q) ==
    LET parent == IF q.src = None THEN << >> ELSE convs[q.src].path
        owner == IF q.anchor = None THEN 0
                 ELSE CHOOSE k \in DOMAIN parent : parent[k].conv = q.anchor.conv
    IN [group |-> q.group, path |-> Segments(q.conv, parent, q.anchor, owner)]

(* Wait for a pending insert of the same id.  ON CONFLICT DO NOTHING lets a *)
(* create or an append go on; a sync's violation aborts its transaction.    *)
InsertConversation(h) ==
    LET q == handler[h] IN
    /\ q.pc = "insertConv"
    /\ ~InsertPending(q.conv)
    /\ \/ /\ convs[q.conv] = None
          /\ Set(h, [q EXCEPT !.pc = IF q.op = None THEN "commit" ELSE "lock",
                              !.row = NewRow(q)])
          /\ UNCHANGED creates
       \/ /\ convs[q.conv] # None
          /\ IF q.op # None /\ IsSync(q.op) THEN Done(h) /\ UNCHANGED creates ELSE Existing(h)
    /\ UNCHANGED <<convs, groups, archived, log, sent, replies>>

-----------------------------------------------------------------------------
(* Appending. *)

Times(g, lg) == {0} \cup {e.time : e \in {x \in lg : x.group = g}}
Latest(g) == Max(Times(g, log))

NextAppendTime(now, latest) == IF now > latest THEN now ELSE latest + 1

(* Serialize the choice of created_at within the group, forks included. *)
LockGroup_NoLock(h) ==
    /\ handler[h].pc = "lock"
    /\ \E now \in Clock :
         Set(h, [handler[h] EXCEPT !.pc = "insert",
                                   !.now = NextAppendTime(now, Latest(handler[h].group))])
    /\ UNCHANGED <<convs, groups, archived, log, sent, replies, creates>>

LockGroup(h) ==
    /\ handler[h].pc = "lock"
    /\ ~GroupLocked(handler[h].group)
    /\ \E now \in Clock :
         Set(h, [handler[h] EXCEPT !.pc = "insert",
                                   !.now = NextAppendTime(now, Latest(handler[h].group))])
    /\ UNCHANGED <<convs, groups, archived, log, sent, replies, creates>>

(* The first sequenced item; a batch is defined in full on its entry. *)
Anchor(items) == Min({i \in DOMAIN items : items[i].seq # None})

NewEntries(q) ==
    LET items == Items(q.op) IN
    {[op |-> q.op, att |-> q.att, pos |-> i, conv |-> q.conv, group |-> q.group,
      item |-> items[i], time |-> q.now + i - 1,
      batch |-> IF Len(items) > 1 /\ Sequenced(q.op) /\ i = Anchor(items) THEN items ELSE << >>]
     : i \in DOMAIN items}

(* The unique index on (group, conversation, seq). *)
Duplicate_OtherRequest(q) ==
    \E e \in log, f \in NewEntries(q) :
      e.conv = f.conv /\ e.item.seq # None /\ e.item.seq = f.item.seq /\ e.item # f.item

Duplicate(q) ==
    \E f \in NewEntries(q) : \E e \in (log \cup NewEntries(q)) \ {f} :
      /\ e.group = f.group /\ e.conv = f.conv
      /\ e.item.seq # None /\ e.item.seq = f.item.seq

(* What the transaction wrote besides entries. *)
Commit(q) ==
    /\ convs' = IF q.row = None THEN convs ELSE [convs EXCEPT ![q.conv] = q.row]
    /\ groups' = groups \cup ({q.newGroup} \ {None})

InsertDuplicate(h) ==
    /\ handler[h].pc = "insert"
    /\ Duplicate(handler[h])
    /\ Set(h, IF IsSync(handler[h].op) THEN Idle ELSE Recovering(handler[h].op))
    /\ UNCHANGED <<convs, groups, archived, log, sent, replies, creates>>

(* The reply is sent after the commit, and may be lost. *)
InsertEntries_NoConversation(h) ==
    LET q == handler[h] IN
    /\ q.pc = "insert"
    /\ ~Duplicate(q)
    /\ log' = log \cup NewEntries(q)
    /\ replies' = replies \cup {[op |-> q.op, entries |-> NewEntries(q)]}
    /\ Done(h)
    /\ UNCHANGED <<convs, groups, archived, sent, creates>>

InsertEntries(h) ==
    LET q == handler[h] IN
    /\ q.pc = "insert"
    /\ ~Duplicate(q)
    /\ log' = log \cup NewEntries(q)
    /\ Commit(q)
    /\ replies' \in {replies, replies \cup {[op |-> q.op, entries |-> NewEntries(q)]}}
    /\ Done(h)
    /\ UNCHANGED <<archived, sent, creates>>

CommitCreate(h) ==
    LET q == handler[h] IN
    /\ q.pc = "commit"
    /\ Commit(q)
    /\ creates' = creates \cup {[conv |-> q.conv, src |-> q.src, anchor |-> q.anchor]}
    /\ Done(h)
    /\ UNCHANGED <<archived, log, sent, replies>>

(* FindSequencedAppendMatch: look up the anchor's sequence; a batch must be *)
(* the one defined there, a single entry must be equal.                     *)
Match_AnchorOnly(o) ==
    {e \in log : /\ e.conv = Request[o].conv
                 /\ \E i \in DOMAIN Items(o) : e.item.seq # None /\ e.item = Items(o)[i]}

Match(o) ==
    LET c == Request[o].conv
        a == Items(o)[Anchor(Items(o))]
        stored == {e \in log : e.conv = c /\ e.group = convs[c].group /\ e.item.seq = a.seq}
    IN UNION {IF e.batch # << >>
                THEN IF e.batch = Items(o)
                       THEN {f \in log : f.op = e.op /\ f.att = e.att} ELSE {}
                ELSE IF Len(Items(o)) = 1 /\ e.item = a THEN {e} ELSE {}
              : e \in stored}

RecoverAppend(h) ==
    LET o == handler[h].op
        found == IF convs[Request[o].conv] = None THEN {} ELSE Match(o)
    IN
    /\ handler[h].pc = "recover"
    /\ replies' = IF found = {} THEN replies
                  ELSE replies \cup {[op |-> o, entries |-> found]}
    /\ Done(h)
    /\ UNCHANGED <<convs, groups, archived, log, sent, creates>>

-----------------------------------------------------------------------------
(* ArchiveConversationIfNeeded, UnarchiveConversationIfNeeded: the group    *)
(* decides whether there is anything to do, its conversations follow.       *)

InGroup(g) == {c \in Convs : convs[c] # None /\ convs[c].group = g}

SetArchived(g) ==
    /\ g \in groups
    /\ archived' = IF g \in archived THEN archived \ (InGroup(g) \cup {g})
                                     ELSE archived \cup InGroup(g) \cup {g}
    /\ UNCHANGED <<convs, groups, log, sent, handler, replies, creates>>

(* A statement fails, the client goes away or the process dies. *)
RequestFails(h) ==
    /\ handler[h].pc # "idle"
    /\ Done(h)
    /\ UNCHANGED <<convs, groups, archived, log, sent, replies, creates>>

-----------------------------------------------------------------------------
(* A request names no source, or one with an entry it has seen or none;     *)
(* what a sync stores (context) cannot be forked at.                        *)
Lineages == {<<None, None>>} \cup 
            {<<s, a>> : s \in Convs, a \in {e \in log : ~IsSync(e.op)} \cup {None}}

Step(h) ==
    \/ \E l \in Lineages :
         \/ \E o \in Ops : l[1] # Request[o].conv /\ AppendEntries(h, o, l[1], l[2])
         \/ \E c \in Convs : l[1] # c /\ CreateConversation(h, c, l[1], l[2])
    \/ \E o \in Ops : SyncAgentEntry(h, o)
    \/ CreateCheck(h) \/ InsertConversation(h) \/ CommitCreate(h)
    \/ LockGroup(h) \/ InsertDuplicate(h) \/ InsertEntries(h) \/ RecoverAppend(h)
    \/ RequestFails(h)

Next == (\E h \in Handlers : Step(h)) \/ (\E g \in Groups : SetArchived(g))

Spec == Init /\ [][Next]_vars

-----------------------------------------------------------------------------
(* Properties. *)

Exists(c) == convs[c] # None

(* A retried append is appended once, however attempts overlap, fail after  *)
(* their commit or meet other requests with the same sequence: "The retry   *)
(* does not create entries" (entries.md).                                   *)
AppendedOnce ==
    \A e, f \in log : e.op = f.op /\ Sequenced(e.op) => e.att = f.att

(* The entries are the items, one for one and in order. *)
InOrder(entries, items) ==
    \E at \in [DOMAIN items -> entries] :
      /\ entries = {at[i] : i \in DOMAIN items}
      /\ \A i \in DOMAIN items : at[i].item = items[i]
      /\ \A i, j \in DOMAIN items : i < j => at[i].time < at[j].time

(* An acknowledgement names stored entries of the request's conversation    *)
(* that are the request's items, one for one and in order; every            *)
(* acknowledgement of a sequenced request names the same ones ("returns the *)
(* stored entry with its original id and createdAt", entries.md).           *)
AcknowledgedAppends ==
    /\ \A r \in replies : /\ r.entries \subseteq log
                          /\ \A e \in r.entries : e.conv = Request[r.op].conv
                          /\ InOrder(r.entries, Items(r.op))
    /\ \A r, s \in replies : r.op = s.op /\ Sequenced(r.op) => r.entries = s.entries

(* Losing the race for a conversation id leaves no group without one. *)
GroupsAreUsed == \A g \in groups : InGroup(g) # {}

(* Whoever was told that its create succeeded, as the first or as a retry,  *)
(* has a conversation with the lineage it asked for.                        *)
CreatedAsRequested ==
    \A r \in creates : /\ Exists(r.conv)
                       /\ ForkedFrom(r.conv) = r.src /\ ForkedAt(r.conv) = r.anchor

(* "The forked conversation inherits entries from the original up to (but   *)
(* not including) the specified entry" (forking.md): the rows copied at     *)
(* creation give what the parent shows now, cut at the anchor, through any  *)
(* number of forks and wherever the anchor was inherited from.              *)
ForkShowsPrefix ==
    \A c \in Convs : Exists(c) /\ ForkedFrom(c) # None /\ ForkedAt(c) # None =>
      Inherited(c) = {e \in Visible(ForkedFrom(c)) : e.time < ForkedAt(c).time}

(* What a fork inherits never changes, whatever is appended to the          *)
(* conversations it was forked from, by instances whose clocks differ.      *)
InheritedIsStable == [][\A c \in Convs : Exists(c) => Inherited(c)' = Inherited(c)]_vars

-----------------------------------------------------------------------------
(* The inductive invariant behind all of these; what AcknowledgedAppends    *)
(* and ForkShowsPrefix need besides is in Conversations_proofs.             *)

(* A row begins with the conversation itself, and its boundaries are        *)
(* committed entries of the group.                                          *)
RowOK(row, c, lg) ==
    /\ row \in ConvRow
    /\ Len(row.path) > 0 /\ row.path[1].conv = c
    /\ \A k \in 1..Len(row.path) :
         row.path[k].before # None => row.path[k].before \in lg /\ row.path[k].before.group = row.group

(* The depth-1 row is the lineage asked for. *)
Lineage(row, src, anchor) ==
    IF Len(row.path) = 1 THEN src = None /\ anchor = None
                         ELSE row.path[2].conv = src /\ row.path[2].forkedAt = anchor

(* What a request that will insert a conversation has read is still so. *)
SourceRead(q, cv, lg) ==
    \/ q.src = None /\ q.anchor = None
    \/ /\ q.src \in Convs /\ cv[q.src] # None /\ q.group = cv[q.src].group
       /\ q.anchor # None => q.anchor \in lg /\ q.anchor.group = q.group

(* An append or sync works on its conversation's group; a request that      *)
(* inserted a conversation is the only one that may, until it ends.         *)
HandlerOK(q, cv, lg) ==
    /\ q.op # None => q.conv = Request[q.op].conv
    /\ q.pc \in {"create", "insertConv", "lock", "insert", "commit"} => q.conv \in Convs
    /\ q.pc \in {"insertConv", "lock", "insert", "commit"} => q.group \in Groups
    /\ q.pc \in {"lock", "insert", "recover"} => q.op \in Ops
    /\ q.pc = "create" => q.row = None /\ q.newGroup = None /\ (q.src = None => q.anchor = None)
    /\ q.pc = "insertConv" => q.row = None /\ q.newGroup \in {None, q.group} /\ SourceRead(q, cv, lg)
    /\ q.pc \in {"lock", "insert"} /\ q.row = None =>
         cv[q.conv] # None /\ cv[q.conv].group = q.group /\ q.newGroup = None
    /\ q.row # None =>
         /\ q.pc \in {"lock", "insert", "commit"}
         /\ cv[q.conv] = None /\ RowOK(q.row, q.conv, lg)
         /\ q.row.group = q.group /\ q.newGroup \in {None, q.group}
    /\ q.pc = "commit" => q.row # None /\ Lineage(q.row, q.src, q.anchor)
    /\ q.pc = "insert" => \A e \in lg : e.group = q.group => e.time < q.now

(* Two requests never both insert a conversation with one id, nor entries   *)
(* into one group.                                                          *)
Exclusive(q, r) ==
    /\ q.conv = r.conv => q.row = None \/ r.row = None
    /\ q.group = r.group => q.pc # "insert" \/ r.pc # "insert"

(* A committed attempt is there with all of its items. *)
Complete(e, lg) ==
    \A i \in DOMAIN Items(e.op) :
      \E f \in lg : /\ f.op = e.op /\ f.att = e.att /\ f.item = Items(e.op)[i]
                    /\ f.conv = Request[e.op].conv

(* There is a latest entry. *)
HasLatest(g, lg) == \E m \in Times(g, lg) : \A n \in Times(g, lg) : n <= m

ConvInv ==
    /\ TypeOK
    /\ \A c \in Convs : Exists(c) => RowOK(convs[c], c, log)
    /\ \A h \in Handlers : HandlerOK(handler[h], convs, log)
    /\ \A h, x \in Handlers : h # x => Exclusive(handler[h], handler[x])
    /\ \A e \in log : Complete(e, log)
    /\ \A g \in Groups : HasLatest(g, log)
    /\ AppendedOnce /\ GroupsAreUsed
    /\ \A r \in creates : Exists(r.conv) /\ Lineage(convs[r.conv], r.src, r.anchor)
=============================================================================
