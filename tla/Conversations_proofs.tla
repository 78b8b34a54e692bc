------------------------ MODULE Conversations_proofs ------------------------
(***************************************************************************)
(* Conversations for every set of ids, requests and clock readings: types, *)
(* appended once, used groups, lineages as requested, inheritance that     *)
(* never changes, acknowledgements that name what was asked for, and forks *)
(* that show a prefix of their source.                                     *)
(***************************************************************************)
EXTENDS Conversations, WellFoundedInduction, TLAPS

-----------------------------------------------------------------------------
(* What a larger log and more conversations leave as it was. *)

LEMMA RowGrows ==
  ASSUME NEW row, NEW c, NEW lg, NEW lg2, RowOK(row, c, lg), lg \subseteq lg2
  PROVE  RowOK(row, c, lg2)
BY DEF RowOK

LEMMA HandlerGrows ==
  ASSUME NEW q, NEW cv, NEW lg, NEW cv2, NEW lg2,
         HandlerOK(q, cv, lg), lg \subseteq lg2,
         \A c \in Convs : cv[c] # None => cv2[c] = cv[c],
         q.row # None => cv2[q.conv] = None,
         q.pc = "insert" => \A e \in lg2 \ lg : e.group # q.group
  PROVE  HandlerOK(q, cv2, lg2)
<1>1. SourceRead(q, cv, lg) => SourceRead(q, cv2, lg2)  BY DEF SourceRead
<1>2. RowOK(q.row, q.conv, lg) => RowOK(q.row, q.conv, lg2)  BY RowGrows
<1>. QED  BY <1>1, <1>2 DEF HandlerOK

LEMMA IdleOK ==
  /\ Idle \in Handler /\ Idle.row = None /\ Idle.pc = "idle"
  /\ \A cv, lg : HandlerOK(Idle, cv, lg)
<1>1. Idle \in Handler  BY DEF Idle, Handler, Pcs
<1>. QED  BY <1>1 DEF Idle, HandlerOK

LEMMA QuietExclusive ==
  ASSUME NEW s, NEW r, s.row = None, s.pc # "insert"
  PROVE  Exclusive(s, r) /\ Exclusive(r, s)
BY DEF Exclusive

-----------------------------------------------------------------------------
(* A step of h alone that writes no conversation, group or entry. *)
LEMMA LocalStep ==
  ASSUME ConvInv, NEW h \in Handlers, NEW s \in Handler,
         Set(h, s), UNCHANGED <<convs, groups, log>>,
         archived' \subseteq Convs \cup Groups, sent' \in [Ops -> Nat],
         \A r \in replies' : r.op \in Ops /\ r.entries \subseteq Entry,
         \A r \in creates' : /\ r.conv \in Convs /\ convs[r.conv] # None
                             /\ Lineage(convs[r.conv], r.src, r.anchor),
         HandlerOK(s, convs, log),
         \A x \in Handlers \ {h} : Exclusive(s, handler[x]) /\ Exclusive(handler[x], s)
  PROVE  ConvInv'
<1>1. handler \in [Handlers -> Handler]  BY DEF ConvInv, TypeOK
<1>2. /\ handler' \in [Handlers -> Handler] /\ handler'[h] = s
      /\ \A x \in Handlers \ {h} : handler'[x] = handler[x]
  BY <1>1 DEF Set
<1>3. TypeOK'  BY <1>2 DEF ConvInv, TypeOK
<1>4. \A x \in Handlers : HandlerOK(handler'[x], convs, log)
  BY <1>2 DEF ConvInv
<1>5. \A x, y \in Handlers : x # y => Exclusive(handler'[x], handler'[y])
  BY <1>2 DEF ConvInv
<1>6. (\A x \in Handlers : HandlerOK(handler[x], convs, log))'
  BY <1>4 DEF HandlerOK, SourceRead, RowOK
<1>7. (\A x, y \in Handlers : x # y => Exclusive(handler[x], handler[y]))'
  BY <1>5 DEF Exclusive
<1>8. /\ (\A c \in Convs : Exists(c) => RowOK(convs[c], c, log))'
      /\ (\A e \in log : Complete(e, log))' /\ (\A g \in Groups : HasLatest(g, log))'
      /\ AppendedOnce' /\ GroupsAreUsed'
  BY DEF ConvInv, Exists, RowOK, Complete, HasLatest, Times, AppendedOnce, GroupsAreUsed, InGroup
<1>9. (\A r \in creates : Exists(r.conv) /\ Lineage(convs[r.conv], r.src, r.anchor))'
  BY DEF Exists, Lineage
<1>. QED  BY <1>3, <1>6, <1>7, <1>8, <1>9 DEF ConvInv

(* The same when the request ends. *)
LEMMA DoneStep ==
  ASSUME ConvInv, NEW h \in Handlers, Done(h),
         UNCHANGED <<convs, groups, log, archived, sent>>,
         \A r \in replies' : r.op \in Ops /\ r.entries \subseteq Entry,
         \A r \in creates' : /\ r.conv \in Convs /\ convs[r.conv] # None
                             /\ Lineage(convs[r.conv], r.src, r.anchor)
  PROVE  ConvInv'
<1>1. \A x \in Handlers \ {h} : Exclusive(Idle, handler[x]) /\ Exclusive(handler[x], Idle)
  BY QuietExclusive, IdleOK
<1>2. archived' \subseteq Convs \cup Groups /\ sent' \in [Ops -> Nat]
  BY DEF ConvInv, TypeOK
<1>. QED  BY LocalStep, IdleOK, <1>1, <1>2 DEF Done

(* The same when it only moves on, without a row and not to the insert. *)
LEMMA QuietStep ==
  ASSUME ConvInv, NEW h \in Handlers, NEW s \in Handler, Set(h, s),
         UNCHANGED <<convs, groups, log, archived, replies>>, sent' \in [Ops -> Nat],
         creates' = creates,
         s.row = None, s.pc # "insert", HandlerOK(s, convs, log)
  PROVE  ConvInv'
<1>1. \A x \in Handlers \ {h} : Exclusive(s, handler[x]) /\ Exclusive(handler[x], s)
  BY QuietExclusive
<1>2. archived' \subseteq Convs \cup Groups
  BY DEF ConvInv, TypeOK
<1>3. /\ \A r \in replies' : r.op \in Ops /\ r.entries \subseteq Entry
      /\ \A r \in creates' : /\ r.conv \in Convs /\ convs[r.conv] # None
                             /\ Lineage(convs[r.conv], r.src, r.anchor)
  BY DEF ConvInv, TypeOK, Exists
<1>. QED  BY LocalStep, <1>1, <1>2, <1>3

LEMMA RecoverOK ==
  ASSUME NEW o \in Ops
  PROVE  /\ Recovering(o) \in Handler
         /\ Recovering(o).row = None /\ Recovering(o).pc = "recover"
         /\ \A cv, lg : HandlerOK(Recovering(o), cv, lg)
<1>1. Recovering(o) \in Handler  BY RequestAssumption DEF Recovering, Idle, Handler, Pcs
<1>. QED  BY <1>1 DEF Recovering, Idle, HandlerOK

LEMMA NotFoundStep ==
  ASSUME ConvInv, NEW h \in Handlers, NEW o \in Ops \cup {None}, NotFound(h, o),
         UNCHANGED <<convs, groups, archived, log, replies>>, sent' \in [Ops -> Nat],
         creates' = creates
  PROVE  ConvInv'
<1>1. CASE Set(h, Idle)  BY <1>1, IdleOK, QuietStep
<1>2. CASE Set(h, Recovering(o)) /\ o \in Ops
  <2>1. /\ Recovering(o) \in Handler /\ Recovering(o).row = None
        /\ Recovering(o).pc # "insert" /\ HandlerOK(Recovering(o), convs, log)
    BY <1>2, RecoverOK
  <2>. QED  BY <1>2, <2>1, QuietStep
<1>. QED  BY <1>1, <1>2 DEF NotFound

-----------------------------------------------------------------------------
(* Requests arrive. *)

LEMMA AppendEntriesInv ==
  ASSUME ConvInv, NEW h \in Handlers, NEW o \in Ops, NEW src \in Convs \cup {None},
         NEW anchor \in Entry \cup {None}, src = None => anchor = None,
         AppendEntries(h, o, src, anchor)
  PROVE  ConvInv'
<1>. DEFINE c == Request[o].conv
            new == [Idle EXCEPT !.conv = c, !.op = o, !.att = sent[o] + 1,
                                !.src = src, !.anchor = anchor]
            s1 == [new EXCEPT !.pc = "create"]
            s3 == [new EXCEPT !.pc = "lock", !.group = convs[c].group]
<1>1. /\ sent \in [Ops -> Nat] /\ sent' \in [Ops -> Nat] /\ c \in Convs
      /\ convs \in [Convs -> ConvRow \cup {None}]
      /\ UNCHANGED <<convs, groups, archived, log, replies, creates>>
  BY RequestAssumption DEF ConvInv, TypeOK, AppendEntries
<1>2. /\ new \in Handler /\ new.row = None /\ new.newGroup = None
      /\ new.op = o /\ new.conv = c /\ new.src = src /\ new.anchor = anchor
  <2>1. sent[o] + 1 \in Nat  BY <1>1
  <2>. QED  BY <1>1, <2>1 DEF Handler, Pcs, Idle
<1>3. \/ convs[c] = None /\ Set(h, s1)
      \/ NotFound(h, o)
      \/ convs[c] # None /\ Set(h, s3)
  BY DEF AppendEntries
<1>. HIDE DEF new
<1>4. CASE convs[c] = None /\ Set(h, s1)
  <2>1. s1 \in Handler /\ s1.row = None /\ s1.pc # "insert"
    BY <1>2 DEF Handler, Pcs
  <2>2. HandlerOK(s1, convs, log)  BY <1>1, <1>2 DEF HandlerOK, Handler
  <2>. QED  BY <1>1, <1>4, <2>1, <2>2, QuietStep
<1>5. CASE NotFound(h, o)  BY <1>1, <1>5, NotFoundStep
<1>6. CASE convs[c] # None /\ Set(h, s3)
  <2>1. convs[c].group \in Groups  BY <1>1, <1>6 DEF ConvRow
  <2>2. s3 \in Handler /\ s3.row = None /\ s3.pc # "insert"
    BY <1>2, <2>1 DEF Handler, Pcs
  <2>3. HandlerOK(s3, convs, log)  BY <1>1, <1>2, <1>6, <2>1 DEF HandlerOK, Handler
  <2>. QED  BY <1>1, <1>6, <2>2, <2>3, QuietStep
<1>. QED  BY <1>3, <1>4, <1>5, <1>6

LEMMA SyncAgentEntryInv ==
  ASSUME ConvInv, NEW h \in Handlers, NEW o \in Ops, SyncAgentEntry(h, o)
  PROVE  ConvInv'
<1>. DEFINE c == Request[o].conv
            new == [Idle EXCEPT !.conv = c, !.op = o, !.att = sent[o] + 1]
            s1(g) == [new EXCEPT !.pc = "insertConv", !.group = g, !.newGroup = g]
            s2 == [new EXCEPT !.pc = "lock", !.group = convs[c].group]
<1>1. /\ sent \in [Ops -> Nat] /\ c \in Convs
      /\ convs \in [Convs -> ConvRow \cup {None}]
      /\ UNCHANGED <<convs, groups, archived, log, replies, creates>>
  BY RequestAssumption DEF ConvInv, TypeOK, SyncAgentEntry
<1>2. sent' \in [Ops -> Nat]
  <2>1. sent' = [sent EXCEPT ![o] = @ + 1]  BY DEF SyncAgentEntry
  <2>. QED  BY <1>1, <2>1
<1>3. /\ new \in Handler /\ new.row = None /\ new.newGroup = None
      /\ new.op = o /\ new.conv = c /\ new.src = None /\ new.anchor = None
  <2>1. sent[o] + 1 \in Nat  BY <1>1
  <2>. QED  BY <1>1, <2>1 DEF Handler, Pcs, Idle
<1>4. \/ Done(h)
      \/ \E g \in FreshGroups : Set(h, s1(g))
      \/ convs[c] # None /\ Set(h, s2)
  BY DEF SyncAgentEntry
<1>. HIDE DEF new
<1>5. CASE Done(h)  BY <1>1, <1>2, <1>5, QuietStep, IdleOK DEF Done
<1>6. ASSUME NEW g \in FreshGroups, Set(h, s1(g))  PROVE ConvInv'
  <2>1. g \in Groups  BY DEF FreshGroups
  <2>2. s1(g) \in Handler /\ s1(g).row = None /\ s1(g).pc # "insert"
    BY <1>3, <2>1 DEF Handler, Pcs
  <2>3. HandlerOK(s1(g), convs, log)
    BY <1>1, <1>3, <2>1 DEF HandlerOK, SourceRead, Handler
  <2>. QED  BY <1>1, <1>2, <1>6, <2>2, <2>3, QuietStep
<1>7. CASE convs[c] # None /\ Set(h, s2)
  <2>1. convs[c].group \in Groups  BY <1>1, <1>7 DEF ConvRow
  <2>2. s2 \in Handler /\ s2.row = None /\ s2.pc # "insert"
    BY <1>3, <2>1 DEF Handler, Pcs
  <2>3. HandlerOK(s2, convs, log)  BY <1>1, <1>3, <1>7, <2>1 DEF HandlerOK, Handler
  <2>. QED  BY <1>1, <1>2, <1>7, <2>2, <2>3, QuietStep
<1>. QED  BY <1>4, <1>5, <1>6, <1>7

LEMMA CreateConversationInv ==
  ASSUME ConvInv, NEW h \in Handlers, NEW c \in Convs, NEW src \in Convs \cup {None},
         NEW anchor \in Entry \cup {None}, src = None => anchor = None,
         CreateConversation(h, c, src, anchor)
  PROVE  ConvInv'
<1>. DEFINE s == [Idle EXCEPT !.pc = "create", !.conv = c, !.src = src, !.anchor = anchor]
<1>1. s \in Handler /\ s.row = None /\ s.pc # "insert"  BY DEF Handler, Pcs, Idle
<1>2. HandlerOK(s, convs, log)  BY DEF HandlerOK, Idle
<1>3. sent' \in [Ops -> Nat]  BY DEF ConvInv, TypeOK, CreateConversation
<1>. QED  BY <1>1, <1>2, <1>3, QuietStep DEF CreateConversation

-----------------------------------------------------------------------------
(* Creating a conversation. *)

LEMMA ExistingInv ==
  ASSUME ConvInv, NEW h \in Handlers, handler[h].pc \in {"create", "insertConv"},
         convs[handler[h].conv] # None, Existing(h),
         UNCHANGED <<convs, groups, archived, log, sent, replies>>
  PROVE  ConvInv'
<1>. DEFINE q == handler[h]
            s == [q EXCEPT !.pc = "lock", !.group = convs[q.conv].group, !.newGroup = None]
<1>1. /\ q \in Handler /\ HandlerOK(q, convs, log) /\ sent' \in [Ops -> Nat]
      /\ convs \in [Convs -> ConvRow \cup {None}]
      /\ \A r \in replies' : r.op \in Ops /\ r.entries \subseteq Entry
  BY DEF ConvInv, TypeOK
<1>2. q.conv \in Convs /\ q.row = None /\ q.op \in Ops \cup {None}
  BY <1>1 DEF HandlerOK, Handler
<1>3. CASE NotFound(h, q.op) /\ UNCHANGED creates  BY <1>1, <1>2, <1>3, NotFoundStep
<1>4. CASE q.op # None /\ Set(h, s) /\ UNCHANGED creates
  <2>1. convs[q.conv].group \in Groups  BY <1>1, <1>2 DEF ConvRow
  <2>2. s \in Handler /\ s.row = None /\ s.pc # "insert"
    BY <1>1, <1>2, <2>1 DEF Handler, Pcs
  <2>3. HandlerOK(s, convs, log)  BY <1>1, <1>2, <1>4, <2>1 DEF HandlerOK, Handler
  <2>. QED  BY <1>1, <1>4, <2>2, <2>3, QuietStep
<1>5. ASSUME Done(h),
             creates' = IF ForkedFrom(q.conv) = q.src /\ ForkedAt(q.conv) = q.anchor
                          THEN creates \cup {[conv |-> q.conv, src |-> q.src, anchor |-> q.anchor]}
                          ELSE creates
      PROVE  ConvInv'
  <2>1. ForkedFrom(q.conv) = q.src /\ ForkedAt(q.conv) = q.anchor
          => Lineage(convs[q.conv], q.src, q.anchor)
    BY DEF ForkedFrom, ForkedAt, Lineage
  <2>2. \A r \in creates : /\ r.conv \in Convs /\ convs[r.conv] # None
                            /\ Lineage(convs[r.conv], r.src, r.anchor)
    BY DEF ConvInv, TypeOK, Exists
  <2>3. \A r \in creates' : /\ r.conv \in Convs /\ convs[r.conv] # None
                             /\ Lineage(convs[r.conv], r.src, r.anchor)
    BY <1>2, <1>5, <2>1, <2>2
  <2>. QED  BY <1>1, <1>5, <2>3, DoneStep
<1>. QED  BY <1>3, <1>4, <1>5 DEF Existing

LEMMA CreateCheckInv ==
  ASSUME ConvInv, NEW h \in Handlers, CreateCheck(h)
  PROVE  ConvInv'
<1>. DEFINE q == handler[h]
            s1(g) == [q EXCEPT !.pc = "insertConv", !.group = g, !.newGroup = g]
            s2 == [q EXCEPT !.pc = "insertConv", !.group = convs[q.src].group]
<1>1. /\ q \in Handler /\ HandlerOK(q, convs, log) /\ sent' \in [Ops -> Nat]
      /\ convs \in [Convs -> ConvRow \cup {None}] /\ q.pc = "create"
      /\ UNCHANGED <<convs, groups, archived, log, sent, replies>>
  BY DEF ConvInv, TypeOK, CreateCheck
<1>2. /\ q.conv \in Convs /\ q.row = None /\ q.newGroup = None /\ q.op \in Ops \cup {None}
      /\ q.src \in Convs \cup {None} /\ (q.src = None => q.anchor = None)
  BY <1>1 DEF HandlerOK, Handler
<1>3. CASE NotFound(h, q.op) /\ UNCHANGED creates  BY <1>1, <1>2, <1>3, NotFoundStep
<1>4. CASE Done(h) /\ UNCHANGED creates  BY <1>1, <1>4, QuietStep, IdleOK DEF Done
<1>5. CASE convs[q.conv] # None /\ Existing(h)  BY <1>1, <1>5, ExistingInv
<1>6. ASSUME q.src = None, NEW g \in FreshGroups, Set(h, s1(g)), UNCHANGED creates
      PROVE  ConvInv'
  <2>1. g \in Groups  BY DEF FreshGroups
  <2>2. s1(g) \in Handler /\ s1(g).row = None /\ s1(g).pc # "insert"
    BY <1>1, <1>2, <2>1 DEF Handler, Pcs
  <2>3. HandlerOK(s1(g), convs, log)
    BY <1>1, <1>2, <1>6, <2>1 DEF HandlerOK, SourceRead, Handler
  <2>. QED  BY <1>1, <1>6, <2>2, <2>3, QuietStep
<1>7. CASE /\ q.src # None /\ convs[q.src] # None /\ Set(h, s2) /\ UNCHANGED creates
           /\ q.anchor # None => q.anchor \in Visible(q.src)
  <2>1. q.src \in Convs /\ convs[q.src].group \in Groups  BY <1>1, <1>2, <1>7 DEF ConvRow
  <2>2. s2 \in Handler /\ s2.row = None /\ s2.pc # "insert"
    BY <1>1, <1>2, <2>1 DEF Handler, Pcs
  <2>3. q.anchor # None => q.anchor \in log /\ q.anchor.group = convs[q.src].group
    BY <1>7 DEF Visible
  <2>4. SourceRead(s2, convs, log)
    BY <1>1, <1>7, <2>1, <2>3 DEF SourceRead, Handler
  <2>5. HandlerOK(s2, convs, log)
    BY <1>1, <1>2, <1>7, <2>1, <2>4 DEF HandlerOK, Handler
  <2>. QED  BY <1>1, <1>7, <2>2, <2>5, QuietStep
<1>. QED  BY <1>3, <1>4, <1>5, <1>6, <1>7 DEF CreateCheck

LEMMA FunctionIsSeq ==
  ASSUME NEW S, NEW n \in Nat, NEW f \in [1..n -> S]
  PROVE  f \in Seq(S) /\ Len(f) = n
OBVIOUS

(* createConversationAncestry keeps boundaries inside the group. *)
LEMMA NewRowOK ==
  ASSUME ConvInv, NEW h \in Handlers, handler[h].pc = "insertConv"
  PROVE  /\ RowOK(NewRow(handler[h]), handler[h].conv, log)
         /\ NewRow(handler[h]).group = handler[h].group
         /\ Lineage(NewRow(handler[h]), handler[h].src, handler[h].anchor)
<1>. DEFINE q == handler[h]
            parent == IF q.src = None THEN << >> ELSE convs[q.src].path
            owner == IF q.anchor = None THEN 0
                     ELSE CHOOSE k \in DOMAIN parent : parent[k].conv = q.anchor.conv
            n == Len(parent) + 1
            path == Segments(q.conv, parent, q.anchor, owner)
<1>1. /\ q \in Handler /\ HandlerOK(q, convs, log)
      /\ convs \in [Convs -> ConvRow \cup {None}]
      /\ \A c \in Convs : convs[c] # None => RowOK(convs[c], c, log)
  BY DEF ConvInv, TypeOK, Exists
<1>2. /\ q.conv \in Convs /\ q.group \in Groups /\ q.anchor \in Entry \cup {None}
      /\ SourceRead(q, convs, log)
  BY <1>1 DEF HandlerOK, Handler
<1>3. /\ parent \in Seq(Segment)
      /\ q.src = None => Len(parent) = 0 /\ q.anchor = None
      /\ q.src # None => Len(parent) > 0 /\ parent[1].conv = q.src
      /\ \A k \in 1..Len(parent) : parent[k].before # None =>
           parent[k].before \in log /\ parent[k].before.group = q.group
      /\ q.anchor # None => q.anchor \in log /\ q.anchor.group = q.group
  <2>1. CASE q.src = None  BY <1>2, <2>1, NoneAssumption DEF SourceRead
  <2>2. CASE q.src # None
    <3>1. /\ q.src \in Convs /\ RowOK(convs[q.src], q.src, log)
          /\ q.group = convs[q.src].group
          /\ q.anchor # None => q.anchor \in log /\ q.anchor.group = q.group
      BY <1>1, <1>2, <2>2 DEF SourceRead
    <3>2. parent = convs[q.src].path  BY <2>2
    <3>. QED  BY <2>2, <3>1, <3>2 DEF RowOK, ConvRow
  <2>. QED  BY <2>1, <2>2
<1>. HIDE DEF q, parent, owner
<1>4. \A k \in 1..Len(parent) : parent[k] \in Segment  BY <1>3
<1>5. path \in [1..n -> Segment]
  BY <1>2, <1>3, <1>4 DEF Segments, Segment
<1>6. n \in Nat /\ path \in Seq(Segment) /\ Len(path) = n
  <2>1. n \in Nat  BY <1>3
  <2>. HIDE DEF path, n
  <2>. QED  BY <1>5, <2>1, FunctionIsSeq
<1>7. path[1].conv = q.conv  BY <1>3 DEF Segments
<1>8. \A k \in 1..n : path[k].before # None => path[k].before \in log /\ path[k].before.group = q.group
  BY <1>3, <1>4 DEF Segments
<1>9. IF n = 1 THEN q.src = None /\ q.anchor = None
               ELSE path[2].conv = q.src /\ path[2].forkedAt = q.anchor
  BY <1>3 DEF Segments
<1>10. NewRow(q) = [group |-> q.group, path |-> path]  BY DEF NewRow, parent, owner
<1>11. NewRow(q) \in ConvRow /\ NewRow(q).group = q.group /\ NewRow(q).path = path
  BY <1>2, <1>6, <1>10 DEF ConvRow
<1>. HIDE DEF path, n
<1>12. RowOK(NewRow(q), q.conv, log)  BY <1>6, <1>7, <1>8, <1>11, <1>3 DEF RowOK, n
<1>13. Lineage(NewRow(q), q.src, q.anchor)  BY <1>6, <1>9, <1>11 DEF Lineage
<1>. QED  BY <1>11, <1>12, <1>13 DEF q

LEMMA InsertConversationInv ==
  ASSUME ConvInv, NEW h \in Handlers, InsertConversation(h)
  PROVE  ConvInv'
<1>. DEFINE q == handler[h]
            pc == IF q.op = None THEN "commit" ELSE "lock"
            s == [q EXCEPT !.pc = pc, !.row = NewRow(q)]
<1>1. /\ q \in Handler /\ HandlerOK(q, convs, log)
      /\ sent' \in [Ops -> Nat] /\ archived' \subseteq Convs \cup Groups
      /\ q.pc = "insertConv" /\ UNCHANGED <<convs, groups, archived, log, sent, replies>>
  BY DEF ConvInv, TypeOK, InsertConversation
<1>2. /\ \A r \in replies' : r.op \in Ops /\ r.entries \subseteq Entry
      /\ \A r \in creates : /\ r.conv \in Convs /\ convs[r.conv] # None
                            /\ Lineage(convs[r.conv], r.src, r.anchor)
  BY <1>1 DEF ConvInv, TypeOK, Exists
<1>3. CASE convs[q.conv] = None /\ Set(h, s) /\ UNCHANGED creates
  <2>1. /\ RowOK(NewRow(q), q.conv, log) /\ NewRow(q).group = q.group
        /\ Lineage(NewRow(q), q.src, q.anchor)
    BY <1>1, NewRowOK
  <2>2. NewRow(q) \in ConvRow /\ NewRow(q) # None  BY <2>1, NoneAssumption DEF RowOK
  <2>. DEFINE row == NewRow(q)
  <2>. HIDE DEF row
  <2>3. /\ s \in Handler /\ s.row = row /\ s.pc = pc /\ s.conv = q.conv
        /\ s.op = q.op /\ s.group = q.group /\ s.newGroup = q.newGroup
        /\ s.src = q.src /\ s.anchor = q.anchor
    BY <1>1, <2>2 DEF Handler, Pcs, row
  <2>4. HandlerOK(s, convs, log)
    <3>. HIDE DEF s
    <3>. QED  BY <1>1, <1>3, <2>1, <2>2, <2>3 DEF HandlerOK, Handler, row
  <2>5. \A x \in Handlers \ {h} : Exclusive(s, handler[x]) /\ Exclusive(handler[x], s)
    <3>1. \A x \in Handlers : handler[x].conv = q.conv => handler[x].row = None
      BY DEF InsertConversation, InsertPending
    <3>. HIDE DEF s
    <3>. QED  BY <2>3, <3>1 DEF Exclusive
  <2>. HIDE DEF s
  <2>. QED  BY <1>1, <1>2, <1>3, <2>3, <2>4, <2>5, LocalStep
<1>4. CASE Done(h) /\ UNCHANGED creates  BY <1>1, <1>2, <1>4, DoneStep
<1>5. CASE convs[q.conv] # None /\ Existing(h)  BY <1>1, <1>5, ExistingInv
<1>. QED  BY <1>3, <1>4, <1>5 DEF InsertConversation

-----------------------------------------------------------------------------
(* Entries. *)

(* The latest time exists, so Latest is it. *)
LEMMA LatestIsLatest ==
  ASSUME ConvInv, NEW g \in Groups
  PROVE  Latest(g) \in Nat /\ \A e \in log : e.group = g => e.time <= Latest(g)
<1>1. log \subseteq Entry /\ HasLatest(g, log)  BY DEF ConvInv, TypeOK
<1>2. Times(g, log) \subseteq Nat  BY <1>1 DEF Times, Entry
<1>3. \E m \in Times(g, log) : \A n \in Times(g, log) : m >= n
  BY <1>1, <1>2 DEF HasLatest
<1>4. Latest(g) \in Times(g, log) /\ \A n \in Times(g, log) : Latest(g) >= n
  BY <1>3 DEF Latest, Max
<1>. QED  BY <1>1, <1>2, <1>4 DEF Times, Entry

LEMMA LockGroupInv ==
  ASSUME ConvInv, NEW h \in Handlers, LockGroup(h)
  PROVE  ConvInv'
<1>. DEFINE q == handler[h]
<1>1. PICK now \in Clock :
        Set(h, [q EXCEPT !.pc = "insert", !.now = NextAppendTime(now, Latest(q.group))])
  BY DEF LockGroup
<1>. DEFINE t == NextAppendTime(now, Latest(q.group))
            s == [q EXCEPT !.pc = "insert", !.now = t]
<1>2. /\ q \in Handler /\ HandlerOK(q, convs, log)
      /\ sent' \in [Ops -> Nat] /\ archived' \subseteq Convs \cup Groups
      /\ q.pc = "lock" /\ UNCHANGED <<convs, groups, archived, log, sent, replies, creates>>
      /\ \A e \in log : e.time \in Nat
  BY DEF ConvInv, TypeOK, LockGroup, Entry
<1>3. /\ \A r \in replies' : r.op \in Ops /\ r.entries \subseteq Entry
      /\ \A r \in creates' : /\ r.conv \in Convs /\ convs[r.conv] # None
                             /\ Lineage(convs[r.conv], r.src, r.anchor)
  BY <1>2 DEF ConvInv, TypeOK, Exists
<1>4. q.group \in Groups  BY <1>2 DEF HandlerOK
<1>5. t \in Nat /\ \A e \in log : e.group = q.group => e.time < t
  BY <1>2, <1>4, LatestIsLatest, ClockAssumption DEF NextAppendTime
<1>. HIDE DEF t
<1>6. /\ s \in Handler /\ s.row = q.row /\ s.pc = "insert" /\ s.conv = q.conv /\ s.now = t
      /\ s.op = q.op /\ s.group = q.group /\ s.newGroup = q.newGroup
      /\ s.src = q.src /\ s.anchor = q.anchor
  BY <1>2, <1>5 DEF Handler, Pcs
<1>7. Set(h, s)  BY <1>1 DEF t
<1>. HIDE DEF s
<1>8. HandlerOK(s, convs, log)  BY <1>2, <1>5, <1>6 DEF HandlerOK
<1>9. \A x \in Handlers \ {h} : Exclusive(s, handler[x]) /\ Exclusive(handler[x], s)
  <2>1. \A x \in Handlers : handler[x].group = q.group => handler[x].pc # "insert"
    BY DEF LockGroup, GroupLocked
  <2>2. \A x \in Handlers \ {h} : Exclusive(q, handler[x]) /\ Exclusive(handler[x], q)
    BY DEF ConvInv
  <2>. QED  BY <1>6, <2>1, <2>2 DEF Exclusive
<1>. QED  BY <1>2, <1>3, <1>6, <1>7, <1>8, <1>9, LocalStep

LEMMA InsertDuplicateInv ==
  ASSUME ConvInv, NEW h \in Handlers, InsertDuplicate(h)
  PROVE  ConvInv'
<1>1. /\ handler[h] \in Handler /\ HandlerOK(handler[h], convs, log) /\ handler[h].pc = "insert"
      /\ sent' \in [Ops -> Nat] /\ UNCHANGED <<convs, groups, archived, log, replies, creates>>
  BY DEF ConvInv, TypeOK, InsertDuplicate
<1>2. handler[h].op \in Ops  BY <1>1 DEF HandlerOK
<1>3. CASE Set(h, Idle)  BY <1>1, <1>3, IdleOK, QuietStep
<1>4. CASE Set(h, Recovering(handler[h].op))  BY <1>1, <1>2, <1>4, RecoverOK, QuietStep
<1>. QED  BY <1>3, <1>4 DEF InsertDuplicate

LEMMA RecoverAppendInv ==
  ASSUME ConvInv, NEW h \in Handlers, RecoverAppend(h)
  PROVE  ConvInv'
<1>. DEFINE o == handler[h].op
<1>1. /\ HandlerOK(handler[h], convs, log) /\ handler[h].pc = "recover" /\ Done(h)
      /\ log \subseteq Entry /\ UNCHANGED <<convs, groups, archived, log, sent, creates>>
      /\ \A r \in replies : r.op \in Ops /\ r.entries \subseteq Entry
  BY DEF ConvInv, TypeOK, RecoverAppend
<1>2. o \in Ops  BY <1>1 DEF HandlerOK
<1>3. Match(o) \subseteq log  BY DEF Match
<1>4. \A r \in replies' : r.op \in Ops /\ r.entries \subseteq Entry
  <2>. DEFINE found == IF convs[Request[o].conv] = None THEN {} ELSE Match(o)
  <2>1. replies' = IF found = {} THEN replies ELSE replies \cup {[op |-> o, entries |-> found]}
    BY DEF RecoverAppend
  <2>2. found \subseteq Entry  BY <1>1, <1>3
  <2>. HIDE DEF found
  <2>. QED  BY <1>1, <1>2, <2>1, <2>2
<1>5. \A r \in creates' : /\ r.conv \in Convs /\ convs[r.conv] # None
                          /\ Lineage(convs[r.conv], r.src, r.anchor)
  BY <1>1 DEF ConvInv, TypeOK, Exists
<1>. QED  BY <1>1, <1>4, <1>5, DoneStep

LEMMA RequestFailsInv ==
  ASSUME ConvInv, NEW h \in Handlers, RequestFails(h)
  PROVE  ConvInv'
<1>1. sent' \in [Ops -> Nat]  BY DEF ConvInv, TypeOK, RequestFails
<1>. QED  BY <1>1, IdleOK, QuietStep DEF RequestFails, Done

-----------------------------------------------------------------------------
(* Commits.  N is what a commit adds to the log. *)

LEMMA CommitStep ==
  ASSUME ConvInv, NEW h \in Handlers, NEW N \in SUBSET Entry,
         handler[h].pc \in {"commit", "insert"}, Commit(handler[h]), Done(h),
         log' = log \cup N, UNCHANGED <<archived, sent>>,
         \A e \in N : e.conv = handler[h].conv /\ e.group = handler[h].group,
         N # {} => handler[h].pc = "insert",
         \A e \in log' : Complete(e, log'), \A g \in Groups : HasLatest(g, log'),
         AppendedOnce',
         \A r \in replies' : r.op \in Ops /\ r.entries \subseteq Entry,
         \A r \in creates' : /\ r.conv \in Convs /\ convs'[r.conv] # None
                             /\ Lineage(convs'[r.conv], r.src, r.anchor)
  PROVE  ConvInv'
<1>. DEFINE q == handler[h]
<1>1. /\ handler \in [Handlers -> Handler] /\ convs \in [Convs -> ConvRow \cup {None}]
      /\ q \in Handler /\ HandlerOK(q, convs, log)
      /\ \A c \in Convs : convs[c] # None => RowOK(convs[c], c, log)
      /\ groups \subseteq Groups /\ log \subseteq Entry
      /\ \A e \in log : convs[e.conv] # None /\ convs[e.conv].group = e.group
  BY DEF ConvInv, TypeOK, Exists
<1>2. /\ handler' \in [Handlers -> Handler] /\ handler'[h] = Idle
      /\ \A x \in Handlers \ {h} : handler'[x] = handler[x]
  BY <1>1, IdleOK DEF Done, Set
<1>3. q.conv \in Convs /\ q.group \in Groups  BY <1>1 DEF HandlerOK
<1>4. /\ q.row # None => /\ convs[q.conv] = None /\ RowOK(q.row, q.conv, log)
                          /\ q.row.group = q.group /\ q.newGroup \in {None, q.group}
                          /\ q.row \in ConvRow
      /\ q.row = None => /\ convs[q.conv] # None /\ convs[q.conv].group = q.group
                         /\ q.newGroup = None
  BY <1>1 DEF HandlerOK, RowOK
<1>5. /\ convs' = IF q.row = None THEN convs ELSE [convs EXCEPT ![q.conv] = q.row]
      /\ groups' = groups \cup ({q.newGroup} \ {None})
  BY DEF Commit
<1>6. /\ convs' \in [Convs -> ConvRow \cup {None}]
      /\ \A c \in Convs : convs[c] # None => convs'[c] = convs[c]
      /\ convs'[q.conv] # None /\ convs'[q.conv].group = q.group
      /\ \A c \in Convs : c # q.conv \/ q.row = None => convs'[c] = convs[c]
      /\ q.row # None => convs'[q.conv] = q.row
  BY <1>1, <1>3, <1>4, <1>5
<1>7. TypeOK'
  <2>1. groups' \subseteq Groups  BY <1>1, <1>3, <1>4, <1>5
  <2>2. \A e \in log' : convs'[e.conv] # None /\ convs'[e.conv].group = e.group
    BY <1>1, <1>3, <1>6 DEF Entry
  <2>3. log' \subseteq Entry  BY <1>1
  <2>. QED  BY <1>2, <1>6, <2>1, <2>2, <2>3 DEF ConvInv, TypeOK
<1>8. \A c \in Convs : convs'[c] # None => RowOK(convs'[c], c, log')
  <2>. SUFFICES ASSUME NEW c \in Convs, convs'[c] # None  PROVE RowOK(convs'[c], c, log')
    OBVIOUS
  <2>1. CASE c = q.conv /\ q.row # None  BY <1>4, <1>6, <2>1, RowGrows
  <2>2. CASE c # q.conv \/ q.row = None
    <3>1. RowOK(convs[c], c, log) /\ convs'[c] = convs[c]  BY <1>1, <1>6, <2>2
    <3>. QED  BY <3>1, RowGrows
  <2>. QED  BY <2>1, <2>2
<1>9. \A x \in Handlers : HandlerOK(handler'[x], convs', log')
  <2>1. HandlerOK(handler'[h], convs', log')  BY <1>2, IdleOK
  <2>2. ASSUME NEW x \in Handlers \ {h}  PROVE HandlerOK(handler[x], convs', log')
    <3>1. HandlerOK(handler[x], convs, log) /\ Exclusive(handler[x], q)  BY DEF ConvInv
    <3>2. handler[x].row # None => convs'[handler[x].conv] = None
      <4>1. handler[x].row # None => handler[x].conv \in Convs /\ convs[handler[x].conv] = None
        BY <3>1 DEF HandlerOK
      <4>. QED  BY <1>6, <3>1, <4>1 DEF Exclusive
    <3>3. handler[x].pc = "insert" => \A e \in log' \ log : e.group # handler[x].group
      BY <3>1 DEF Exclusive
    <3>. QED  BY <1>6, <3>1, <3>2, <3>3, HandlerGrows
  <2>. QED  BY <1>2, <2>1, <2>2
<1>10. \A x, y \in Handlers : x # y => Exclusive(handler'[x], handler'[y])
  <2>1. \A x, y \in Handlers : x # y => Exclusive(handler[x], handler[y])  BY DEF ConvInv
  <2>. QED  BY <1>2, <2>1, IdleOK, QuietExclusive
<1>11. GroupsAreUsed'
  <2>. SUFFICES ASSUME NEW g \in groups'
               PROVE \E c \in Convs : convs'[c] # None /\ convs'[c].group = g
    BY DEF GroupsAreUsed, InGroup
  <2>1. CASE g \in groups
    <3>1. \E c \in Convs : convs[c] # None /\ convs[c].group = g
      BY <2>1 DEF ConvInv, GroupsAreUsed, InGroup
    <3>. QED  BY <1>6, <3>1
  <2>2. CASE g \notin groups
    <3>1. g = q.group  BY <1>4, <1>5, <2>2
    <3>. QED  BY <1>3, <1>6, <3>1
  <2>. QED  BY <2>1, <2>2
<1>12. /\ (\A c \in Convs : Exists(c) => RowOK(convs[c], c, log))'
       /\ (\A x \in Handlers : HandlerOK(handler[x], convs, log))'
       /\ (\A x, y \in Handlers : x # y => Exclusive(handler[x], handler[y]))'
  BY <1>8, <1>9, <1>10 DEF Exists
<1>13. /\ (\A e \in log : Complete(e, log))' /\ (\A g \in Groups : HasLatest(g, log))'
       /\ (\A r \in creates : Exists(r.conv) /\ Lineage(convs[r.conv], r.src, r.anchor))'
  BY DEF Exists
<1>. QED  BY <1>7, <1>11, <1>12, <1>13 DEF ConvInv

LEMMA CommitCreateInv ==
  ASSUME ConvInv, NEW h \in Handlers, CommitCreate(h)
  PROVE  ConvInv'
<1>. DEFINE q == handler[h]
<1>1. /\ q.pc = "commit" /\ Commit(q) /\ Done(h) /\ UNCHANGED <<archived, log, sent, replies>>
      /\ creates' = creates \cup {[conv |-> q.conv, src |-> q.src, anchor |-> q.anchor]}
  BY DEF CommitCreate
<1>2. /\ HandlerOK(q, convs, log) /\ convs \in [Convs -> ConvRow \cup {None}]
      /\ \A r \in replies : r.op \in Ops /\ r.entries \subseteq Entry
      /\ \A r \in creates : /\ r.conv \in Convs /\ convs[r.conv] # None
                             /\ Lineage(convs[r.conv], r.src, r.anchor)
      /\ \A e \in log : Complete(e, log)
      /\ \A g \in Groups : HasLatest(g, log)
      /\ AppendedOnce
  BY DEF ConvInv, TypeOK, Exists
<1>3. /\ q.conv \in Convs /\ q.row # None /\ convs[q.conv] = None
      /\ Lineage(q.row, q.src, q.anchor)
  BY <1>1, <1>2 DEF HandlerOK
<1>4. convs' = [convs EXCEPT ![q.conv] = q.row]  BY <1>1, <1>3 DEF Commit
<1>5. \A r \in creates' : /\ r.conv \in Convs /\ convs'[r.conv] # None
                          /\ Lineage(convs'[r.conv], r.src, r.anchor)
  BY <1>1, <1>2, <1>3, <1>4
<1>6. /\ log' = log \cup {} /\ AppendedOnce'
      /\ \A e \in log' : Complete(e, log')
      /\ \A g \in Groups : HasLatest(g, log')
  BY <1>1, <1>2 DEF AppendedOnce
<1>7. \A N : N = {} => /\ N \in SUBSET Entry
                       /\ \A e \in N : e.conv = q.conv /\ e.group = q.group
                       /\ N # {} => q.pc = "insert"
  OBVIOUS
<1>8. PICK N : N = {}  OBVIOUS
<1>. HIDE DEF q
<1>. QED  BY <1>1, <1>2, <1>5, <1>6, <1>7, <1>8, CommitStep DEF q

(* What an insert adds: every item, at times from now on. *)
LEMMA NewEntriesShape ==
  ASSUME ConvInv, NEW h \in Handlers, handler[h].pc = "insert"
  PROVE  LET q == handler[h] IN
         /\ NewEntries(q) \subseteq Entry
         /\ \A e \in NewEntries(q) :
              /\ e.op = q.op /\ e.att = q.att /\ e.conv = q.conv /\ e.group = q.group
              /\ e.time >= q.now
              /\ e.time <= q.now + Len(Items(q.op)) - 1
         /\ \A i \in DOMAIN Items(q.op) :
              \E e \in NewEntries(q) : e.item = Items(q.op)[i] /\ e.time = q.now + i - 1
<1>. DEFINE q == handler[h]
            items == Items(q.op)
            batch(i) == IF Len(items) > 1 /\ Sequenced(q.op) /\ i = Anchor(items) THEN items ELSE << >>
            entry(i) == [op |-> q.op, att |-> q.att, pos |-> i, conv |-> q.conv, group |-> q.group,
                         item |-> items[i], time |-> q.now + i - 1, batch |-> batch(i)]
<1>1. q \in Handler /\ HandlerOK(q, convs, log)  BY DEF ConvInv, TypeOK
<1>2. /\ q.op \in Ops /\ q.conv \in Convs /\ q.group \in Groups
      /\ q.att \in Nat /\ q.now \in Nat
  BY <1>1 DEF HandlerOK, Handler
<1>3. items \in Seq(AllItems)  BY <1>2, RequestAssumption
<1>4. \A i \in DOMAIN items : /\ i \in Nat /\ i >= 1 /\ i <= Len(items)
                              /\ items[i] \in AllItems
  BY <1>3
<1>5. NewEntries(q) = {entry(i) : i \in DOMAIN items}  BY DEF NewEntries
<1>6. \A i : batch(i) \in {Items(o) : o \in Ops} \cup {<< >>}  BY <1>2
<1>. HIDE DEF q, items, batch
<1>7. \A i \in DOMAIN items : entry(i) \in Entry
  <2>. SUFFICES ASSUME NEW i \in DOMAIN items  PROVE entry(i) \in Entry
    OBVIOUS
  <2>1. q.now + i - 1 \in Nat  BY <1>2, <1>4
  <2>. QED  BY <1>2, <1>4, <1>6, <2>1 DEF Entry
<1>8. /\ NewEntries(q) \subseteq Entry
      /\ \A e \in NewEntries(q) :
           /\ e.op = q.op /\ e.att = q.att /\ e.conv = q.conv /\ e.group = q.group
           /\ e.time >= q.now /\ e.time <= q.now + Len(items) - 1
  BY <1>2, <1>3, <1>4, <1>5, <1>7
<1>9. \A i \in DOMAIN items : \E e \in NewEntries(q) : e.item = items[i] /\ e.time = q.now + i - 1
  <2>. SUFFICES ASSUME NEW i \in DOMAIN items
               PROVE \E e \in NewEntries(q) : e.item = items[i] /\ e.time = q.now + i - 1
    OBVIOUS
  <2>1. entry(i).item = items[i] /\ entry(i).time = q.now + i - 1  OBVIOUS
  <2>2. entry(i) \in NewEntries(q)  BY <1>5
  <2>. HIDE DEF entry
  <2>. QED  BY <2>1, <2>2
<1>. QED  BY <1>8, <1>9 DEF q, items

LEMMA InsertEntriesInv ==
  ASSUME ConvInv, NEW h \in Handlers, InsertEntries(h)
  PROVE  ConvInv'
<1>. DEFINE q == handler[h]
            N == NewEntries(q)
            items == Items(q.op)
<1>1. /\ q.pc = "insert" /\ ~Duplicate(q) /\ log' = log \cup N /\ Commit(q) /\ Done(h)
      /\ replies' \in {replies, replies \cup {[op |-> q.op, entries |-> N]}}
      /\ UNCHANGED <<archived, sent, creates>>
  BY DEF InsertEntries
<1>2. /\ HandlerOK(q, convs, log) /\ q \in Handler
      /\ convs \in [Convs -> ConvRow \cup {None}] /\ log \subseteq Entry
      /\ \A e \in log : convs[e.conv] # None /\ convs[e.conv].group = e.group
      /\ \A r \in replies : r.op \in Ops /\ r.entries \subseteq Entry
      /\ \A r \in creates : /\ r.conv \in Convs /\ convs[r.conv] # None
                             /\ Lineage(convs[r.conv], r.src, r.anchor)
      /\ \A e \in log : Complete(e, log)
      /\ \A g \in Groups : HasLatest(g, log)
      /\ AppendedOnce
  BY DEF ConvInv, TypeOK, Exists
<1>3. /\ q.op \in Ops /\ q.conv = Request[q.op].conv /\ q.conv \in Convs
      /\ q.group \in Groups /\ q.now \in Nat
      /\ \A e \in log : e.group = q.group => e.time < q.now
      /\ q.row # None => convs[q.conv] = None
      /\ q.row = None => convs[q.conv].group = q.group
  BY <1>1, <1>2, NoneAssumption DEF HandlerOK, Handler
<1>4. /\ N \subseteq Entry
      /\ \A e \in N : /\ e.op = q.op /\ e.att = q.att /\ e.conv = q.conv /\ e.group = q.group
                      /\ e.time >= q.now /\ e.time <= q.now + Len(items) - 1
      /\ \A i \in DOMAIN items : \E e \in N : e.item = items[i] /\ e.time = q.now + i - 1
  BY <1>1, NewEntriesShape
<1>5. items \in Seq(AllItems)  BY <1>3, RequestAssumption
<1>. HIDE DEF N
<1>6. \A e \in log' : Complete(e, log')
  <2>1. \A e \in log : Complete(e, log')
    BY <1>1, <1>2 DEF Complete
  <2>2. \A e \in N : Complete(e, log')
    BY <1>1, <1>3, <1>4 DEF Complete
  <2>. QED  BY <1>1, <2>1, <2>2
<1>7. \A g \in Groups : HasLatest(g, log')
  <2>. SUFFICES ASSUME NEW g \in Groups  PROVE HasLatest(g, log')
    OBVIOUS
  <2>1. CASE g # q.group \/ N = {}
    <3>1. Times(g, log') = Times(g, log)  BY <1>1, <1>4, <2>1 DEF Times
    <3>. QED  BY <1>2, <3>1 DEF HasLatest
  <2>2. CASE g = q.group /\ N # {}
    <3>1. Len(items) \in Nat /\ Len(items) > 0  BY <1>3, <1>4, <1>5, <2>2 DEF Entry
    <3>2. PICK f \in N : f.time = q.now + Len(items) - 1  BY <1>4, <1>5, <3>1
    <3>3. f.time \in Times(g, log')  BY <1>1, <1>4, <2>2, <3>2 DEF Times
    <3>4. \A n \in Times(g, log') : n <= f.time
      BY <1>1, <1>2, <1>3, <1>4, <2>2, <3>1, <3>2 DEF Times, Entry
    <3>. QED  BY <3>3, <3>4 DEF HasLatest
  <2>. QED  BY <2>1, <2>2
<1>8. Sequenced(q.op) => \A e \in log : e.op # q.op
  <2>. SUFFICES ASSUME Sequenced(q.op), NEW e \in log, e.op = q.op  PROVE FALSE
    OBVIOUS
  <2>1. PICK i \in DOMAIN items : items[i].seq # None  BY DEF Sequenced
  <2>2. PICK f \in log : f.item = items[i] /\ f.conv = q.conv
    BY <1>2, <1>3 DEF Complete
  <2>3. PICK n \in N : n.item = items[i]  BY <1>4
  <2>4. f.group = q.group  BY <1>2, <1>3, <2>2
  <2>5. f # n  BY <1>2, <1>3, <1>4, <2>2, <2>3, <2>4 DEF Entry
  <2>. QED  BY <1>1, <1>4, <2>1, <2>2, <2>3, <2>4, <2>5 DEF Duplicate, N
<1>9. AppendedOnce'
  BY <1>1, <1>2, <1>4, <1>8 DEF AppendedOnce
<1>10. \A r \in replies' : r.op \in Ops /\ r.entries \subseteq Entry
  BY <1>1, <1>2, <1>3, <1>4
<1>11. \A r \in creates' : /\ r.conv \in Convs /\ convs'[r.conv] # None
                           /\ Lineage(convs'[r.conv], r.src, r.anchor)
  <2>1. \A c \in Convs : convs[c] # None => convs'[c] = convs[c]
    BY <1>1, <1>2, <1>3 DEF Commit
  <2>. QED  BY <1>1, <1>2, <2>1
<1>. QED  BY <1>1, <1>4, <1>6, <1>7, <1>9, <1>10, <1>11, CommitStep

-----------------------------------------------------------------------------
(* All together. *)

LEMMA InitInv == Init => ConvInv
<1>. SUFFICES ASSUME Init PROVE ConvInv
  OBVIOUS
<1>. USE DEF Init
<1>1. \A h \in Handlers : handler[h] = Idle  OBVIOUS
<1>2. handler \in [Handlers -> Handler]  BY IdleOK
<1>3. TypeOK  BY <1>2 DEF TypeOK
<1>4. \A h, x \in Handlers : Exclusive(handler[h], handler[x])  BY <1>1, IdleOK, QuietExclusive
<1>5. \A g \in Groups : HasLatest(g, log)  BY DEF HasLatest, Times
<1>. QED  BY <1>1, <1>3, <1>4, <1>5, IdleOK DEF ConvInv, Exists, AppendedOnce, GroupsAreUsed

LEMMA SetArchivedInv ==
  ASSUME ConvInv, NEW g \in Groups, SetArchived(g)
  PROVE  ConvInv'
<1>1. UNCHANGED <<convs, groups, log, sent, handler, replies, creates>>  BY DEF SetArchived
<1>2. archived' \subseteq Convs \cup Groups  BY DEF ConvInv, TypeOK, SetArchived, InGroup
<1>3. TypeOK'  BY <1>1, <1>2 DEF ConvInv, TypeOK
<1>4. /\ (\A c \in Convs : Exists(c) => RowOK(convs[c], c, log))'
      /\ (\A h \in Handlers : HandlerOK(handler[h], convs, log))'
      /\ (\A h, x \in Handlers : h # x => Exclusive(handler[h], handler[x]))'
      /\ (\A e \in log : Complete(e, log))' /\ (\A x \in Groups : HasLatest(x, log))'
      /\ AppendedOnce' /\ GroupsAreUsed'
      /\ (\A r \in creates : Exists(r.conv) /\ Lineage(convs[r.conv], r.src, r.anchor))'
  BY <1>1 DEF ConvInv, Exists, AppendedOnce, GroupsAreUsed, InGroup
<1>. QED  BY <1>3, <1>4 DEF ConvInv

LEMMA StepInv ==
  ASSUME ConvInv, NEW h \in Handlers, Step(h)
  PROVE  ConvInv'
<1>1. ASSUME NEW l \in Lineages
      PROVE  l[1] \in Convs \cup {None} /\ l[2] \in Entry \cup {None} /\ (l[1] = None => l[2] = None)
  BY NoneAssumption DEF Lineages, ConvInv, TypeOK
<1>2. ASSUME NEW l \in Lineages, NEW o \in Ops, AppendEntries(h, o, l[1], l[2])
      PROVE  ConvInv'
  BY <1>1, <1>2, AppendEntriesInv
<1>3. ASSUME NEW l \in Lineages, NEW c \in Convs, CreateConversation(h, c, l[1], l[2])
      PROVE  ConvInv'
  BY <1>1, <1>3, CreateConversationInv
<1>4. ASSUME NEW o \in Ops, SyncAgentEntry(h, o)  PROVE ConvInv'  BY <1>4, SyncAgentEntryInv
<1>5. CASE CreateCheck(h)  BY <1>5, CreateCheckInv
<1>6. CASE InsertConversation(h)  BY <1>6, InsertConversationInv
<1>7. CASE CommitCreate(h)  BY <1>7, CommitCreateInv
<1>8. CASE LockGroup(h)  BY <1>8, LockGroupInv
<1>9. CASE InsertDuplicate(h)  BY <1>9, InsertDuplicateInv
<1>10. CASE InsertEntries(h)  BY <1>10, InsertEntriesInv
<1>11. CASE RecoverAppend(h)  BY <1>11, RecoverAppendInv
<1>12. CASE RequestFails(h)  BY <1>12, RequestFailsInv
<1>. QED
  BY <1>2, <1>3, <1>4, <1>5, <1>6, <1>7, <1>8, <1>9, <1>10, <1>11, <1>12 DEF Step

LEMMA NextInv == ConvInv /\ [Next]_vars => ConvInv'
<1>. SUFFICES ASSUME ConvInv, [Next]_vars  PROVE ConvInv'
  OBVIOUS
<1>1. CASE UNCHANGED vars
  BY <1>1 DEF vars, ConvInv, TypeOK, Exists, AppendedOnce, GroupsAreUsed, InGroup
<1>2. CASE Next  BY <1>2, StepInv, SetArchivedInv DEF Next
<1>. QED  BY <1>1, <1>2

LEMMA Invariance == Spec => []ConvInv
BY InitInv, NextInv, PTL DEF Spec

(* Appends, syncs, creates and archiving keep every variable's shape, and   *)
(* entries in the group of their conversation.                              *)
THEOREM ConversationTypes == Spec => []TypeOK
<1>1. ConvInv => TypeOK  BY DEF ConvInv
<1>. QED  BY <1>1, Invariance, PTL

(* A sequenced append, however often and however concurrently it is sent,   *)
(* is appended by one attempt only (appendEntries and the unique index).    *)
THEOREM AppendsAreExactlyOnce == Spec => []AppendedOnce
<1>1. ConvInv => AppendedOnce  BY DEF ConvInv
<1>. QED  BY <1>1, Invariance, PTL

(* No request that loses the race for a conversation id leaves its group    *)
(* behind (createConversationWithID's ON CONFLICT branch).                  *)
THEOREM NoStrayGroups == Spec => []GroupsAreUsed
<1>1. ConvInv => GroupsAreUsed  BY DEF ConvInv
<1>. QED  BY <1>1, Invariance, PTL

(* An acknowledged create, the first or a retry, found or made the lineage  *)
(* it asked for (ConversationsMatch).                                       *)
THEOREM CreatesAreFaithful == Spec => []CreatedAsRequested
<1>1. ConvInv => CreatedAsRequested
  BY DEF ConvInv, CreatedAsRequested, Lineage, ForkedFrom, ForkedAt
<1>. QED  BY <1>1, Invariance, PTL

-----------------------------------------------------------------------------
(* Only commits touch what forks inherit, and they only add conversations   *)
(* and entries later than every boundary of their group.                    *)
LEMMA StableStep ==
  ASSUME ConvInv, Next, NEW c \in Convs, Exists(c)
  PROVE  Inherited(c)' = Inherited(c)
<1>1. CASE UNCHANGED <<convs, log>>
  BY <1>1 DEF Inherited, Visible, Own, InSegment
<1>2. ASSUME NEW h \in Handlers, CommitCreate(h) \/ InsertEntries(h)
      PROVE  Inherited(c)' = Inherited(c)
  <2>. DEFINE q == handler[h]
              N == IF q.pc = "insert" THEN NewEntries(q) ELSE {}
  <2>1. Commit(q) /\ log' = log \cup N /\ q.pc \in {"commit", "insert"}
    BY <1>2 DEF CommitCreate, InsertEntries
  <2>2. /\ HandlerOK(q, convs, log) /\ convs \in [Convs -> ConvRow \cup {None}]
        /\ q \in Handler /\ log \subseteq Entry /\ RowOK(convs[c], c, log) /\ convs[c] # None
    BY DEF ConvInv, TypeOK, Exists
  <2>3. convs'[c] = convs[c]  BY <2>1, <2>2 DEF Commit, HandlerOK
  <2>4. \A e \in N : e \in Entry /\ e.group = q.group /\ e.time >= q.now /\ q.pc = "insert"
    BY NewEntriesShape
  <2>5. \A e \in log, n \in N : e.group = n.group => e.time < n.time
    BY <2>2, <2>4 DEF HandlerOK, Entry, Handler
  <2>. HIDE DEF N
  <2>6. \A n \in N, k \in DOMAIN convs[c].path :
          n.group = convs[c].group /\ InSegment(n, convs[c].path, k) => n.conv = c
    <3>. SUFFICES ASSUME NEW n \in N, NEW k \in DOMAIN convs[c].path,
                        n.group = convs[c].group, InSegment(n, convs[c].path, k)
                 PROVE n.conv = c
      OBVIOUS
    <3>. DEFINE b == convs[c].path[k].before
    <3>1. k \in 1..Len(convs[c].path)  BY <2>2 DEF RowOK, ConvRow
    <3>2. CASE k = 1  BY <2>2, <3>2 DEF RowOK, InSegment
    <3>3. CASE k # 1
      <4>1. b # None /\ n.time < b.time  BY <3>3 DEF InSegment
      <4>2. b \in log /\ b.group = n.group  BY <2>2, <3>1, <4>1 DEF RowOK
      <4>3. b.time < n.time /\ b.time \in Nat /\ n.time \in Nat
        BY <2>2, <2>4, <2>5, <4>2 DEF Entry
      <4>. QED  BY <4>1, <4>3
    <3>. QED  BY <3>2, <3>3
  <2>. DEFINE In(e) == /\ e.group = convs[c].group
                       /\ \E k \in DOMAIN convs[c].path : InSegment(e, convs[c].path, k)
                       /\ ~(e.conv = c /\ e.group = convs[c].group)
  <2>7. Inherited(c) = {e \in log : In(e)}  BY DEF Inherited, Visible, Own
  <2>8. Inherited(c)' = {e \in log' : In(e)}
    BY <2>3 DEF Inherited, Visible, Own, InSegment
  <2>9. \A n \in N : ~In(n)  BY <2>6
  <2>. HIDE DEF In
  <2>. QED  BY <2>1, <2>7, <2>8, <2>9
<1>3. ASSUME NEW h \in Handlers, Step(h)
      PROVE  UNCHANGED <<convs, log>> \/ CommitCreate(h) \/ InsertEntries(h)
  <2>1. \A o, a, b : AppendEntries(h, o, a, b) => UNCHANGED <<convs, log>>
    BY DEF AppendEntries
  <2>2. \A x, a, b : CreateConversation(h, x, a, b) => UNCHANGED <<convs, log>>
    BY DEF CreateConversation
  <2>3. \A o \in Ops : SyncAgentEntry(h, o) => UNCHANGED <<convs, log>>
    BY DEF SyncAgentEntry
  <2>4. CreateCheck(h) \/ InsertConversation(h) => UNCHANGED <<convs, log>>
    BY DEF CreateCheck, InsertConversation
  <2>5. LockGroup(h) \/ InsertDuplicate(h) \/ RecoverAppend(h) \/ RequestFails(h)
          => UNCHANGED <<convs, log>>
    BY DEF LockGroup, InsertDuplicate, RecoverAppend, RequestFails
  <2>. QED  BY <1>3, <2>1, <2>2, <2>3, <2>4, <2>5 DEF Step
<1>4. \A g \in Groups : SetArchived(g) => UNCHANGED <<convs, log>>  BY DEF SetArchived
<1>. QED  BY <1>1, <1>2, <1>3, <1>4 DEF Next

(* What a fork inherits is fixed when it is created, whatever is appended   *)
(* afterwards by instances with any clocks (visibleAncestryEntrySQL,        *)
(* NextAppendTime under the group's lock).                                  *)
THEOREM ForksAreStable == Spec => InheritedIsStable
<1>1. ConvInv /\ [Next]_vars => [\A c \in Convs : Exists(c) => Inherited(c)' = Inherited(c)]_vars
  BY StableStep
<1>. QED  BY <1>1, Invariance, PTL DEF Spec, InheritedIsStable
-----------------------------------------------------------------------------
(* Acknowledgements.  An attempt is what one sending of a request appends.  *)
Attempt(e, lg) == {f \in lg : f.op = e.op /\ f.att = e.att}

BatchOf(o, i) ==
    IF Len(Items(o)) > 1 /\ Sequenced(o) /\ i = Anchor(Items(o)) THEN Items(o) ELSE << >>

(* An entry is the item of its request that its position says. *)
EntryOK(e, st) ==
    /\ e.att <= st[e.op]
    /\ e.pos \in DOMAIN Items(e.op) /\ e.item = Items(e.op)[e.pos]
    /\ e.conv = Request[e.op].conv
    /\ e.batch = BatchOf(e.op, e.pos)

(* The entries of one attempt, and the unique index. *)
PairOK(e, f) ==
    /\ e.op = f.op /\ e.att = f.att =>
         /\ e.pos = f.pos => e = f
         /\ e.time + f.pos = f.time + e.pos
    /\ e.conv = f.conv /\ e.item.seq # None /\ e.item.seq = f.item.seq => e = f

WholeOK(e, lg) == \A i \in DOMAIN Items(e.op) : \E f \in Attempt(e, lg) : f.pos = i

(* A request that may still insert is an attempt nobody else makes. *)
Working(q) == q.op # None /\ q.pc # "recover"

RequestOK(q, lg, st) ==
    /\ q.pc = "recover" => Sequenced(q.op)
    /\ Working(q) => /\ q.att <= st[q.op]
                     /\ \A e \in lg : e.op = q.op => e.att # q.att

Apart(q, r) == Working(q) /\ Working(r) /\ q.op = r.op => q.att # r.att

(* A reply to a sequenced request is decided by the entry that carries the  *)
(* request's first sequence.                                                *)
Decided(r, lg) ==
    Sequenced(r.op) =>
      \E e \in r.entries :
        /\ e.item.seq = Items(r.op)[Anchor(Items(r.op))].seq
        /\ r.entries = IF Len(Items(r.op)) = 1 THEN {e} ELSE Attempt(e, lg)

ReplyOK(r, lg) ==
    /\ r.entries \subseteq lg
    /\ \A e \in r.entries : e.conv = Request[r.op].conv
    /\ InOrder(r.entries, Items(r.op))
    /\ Decided(r, lg)

AckInv ==
    /\ \A e \in log : EntryOK(e, sent) /\ WholeOK(e, log)
    /\ \A e, f \in log : PairOK(e, f)
    /\ \A h \in Handlers : RequestOK(handler[h], log, sent)
    /\ \A h, x \in Handlers : h # x => Apart(handler[h], handler[x])
    /\ \A r \in replies : ReplyOK(r, log)

(* A set of numbers that is not empty has a least member. *)
LEMMA LeastMember ==
  ASSUME NEW S \in SUBSET Nat, S # {}
  PROVE  \E i \in S : \A j \in S : i <= j
<1>. DEFINE R == {ss \in Nat \X Nat : ss[1] < ss[2]}
<1>1. IsWellFoundedOn(R, Nat)  BY NatLessThanWellFounded DEF OpToRel
<1>. HIDE DEF R
<1>2. PICK i \in S : \A j \in S : ~(<<j, i>> \in R)  BY <1>1, WFMin
<1>3. ASSUME NEW j \in S PROVE i <= j
  <2>1. i \in Nat /\ j \in Nat /\ ~(<<j, i>> \in R)  BY <1>2
  <2>2. ~(j < i)  BY <2>1 DEF R
  <2>. QED  BY <2>1, <2>2
<1>. QED  BY <1>2, <1>3

(* The first sequenced item of a sequenced request. *)
LEMMA AnchorIsSequenced ==
  ASSUME NEW o \in Ops, Sequenced(o)
  PROVE  /\ Anchor(Items(o)) \in DOMAIN Items(o)
         /\ Items(o)[Anchor(Items(o))].seq # None
         /\ Items(o) \in Seq(AllItems) /\ Len(Items(o)) \in Nat \ {0}
<1>. DEFINE S == {i \in DOMAIN Items(o) : Items(o)[i].seq # None}
<1>1. Items(o) \in Seq(AllItems)  BY RequestAssumption
<1>2. S \in SUBSET Nat /\ S # {}  BY <1>1 DEF Sequenced
<1>3. \E i \in S : \A j \in S : i <= j
  <2>. HIDE DEF S
  <2>. QED  BY <1>2, LeastMember
<1>4. Anchor(Items(o)) = CHOOSE i \in S : \A j \in S : i <= j  BY DEF Anchor, Min
<1>5. Anchor(Items(o)) \in S
  <2>. HIDE DEF S
  <2>. QED  BY <1>3, <1>4
<1>. QED  BY <1>1, <1>5

(* Entries at consecutive times, one for each item, are the items in order. *)
LEMMA SetInOrder ==
  ASSUME NEW N, NEW items, DOMAIN items \subseteq Nat,
         \A e \in N : /\ e.pos \in DOMAIN items /\ e.item = items[e.pos] /\ e.time \in Nat,
         \A e, f \in N : (e.pos = f.pos => e = f) /\ e.time + f.pos = f.time + e.pos,
         \A i \in DOMAIN items : \E e \in N : e.pos = i
  PROVE  InOrder(N, items)
<1>. DEFINE at == [i \in DOMAIN items |-> CHOOSE e \in N : e.pos = i]
<1>1. \A i \in DOMAIN items : at[i] \in N /\ at[i].pos = i  OBVIOUS
<1>2. at \in [DOMAIN items -> N]  BY <1>1
<1>. HIDE DEF at
<1>3. N = {at[i] : i \in DOMAIN items}  BY <1>1
<1>4. \A i \in DOMAIN items : at[i].item = items[i]  BY <1>1
<1>5. \A i, j \in DOMAIN items : i < j => at[i].time < at[j].time
  <2>. SUFFICES ASSUME NEW i \in DOMAIN items, NEW j \in DOMAIN items, i < j
               PROVE  at[i].time < at[j].time
    OBVIOUS
  <2>1. at[i].time + j = at[j].time + i  BY <1>1
  <2>2. at[i].time \in Nat /\ at[j].time \in Nat /\ i \in Nat /\ j \in Nat  BY <1>1
  <2>. QED  BY <2>1, <2>2
<1>. QED  BY <1>2, <1>3, <1>4, <1>5 DEF InOrder

(* What an insert adds, in full. *)
LEMMA NewEntriesFull ==
  ASSUME ConvInv, NEW h \in Handlers, handler[h].pc = "insert"
  PROVE  LET q == handler[h] IN
         /\ \A e \in NewEntries(q) :
              /\ e.op = q.op /\ e.att = q.att /\ e.conv = q.conv /\ e.group = q.group
              /\ e.pos \in DOMAIN Items(q.op) /\ e.item = Items(q.op)[e.pos]
              /\ e.time \in Nat /\ e.time = q.now + e.pos - 1
              /\ e.batch = BatchOf(q.op, e.pos)
         /\ \A e, f \in NewEntries(q) : e.pos = f.pos => e = f
         /\ \A i \in DOMAIN Items(q.op) : \E e \in NewEntries(q) : e.pos = i
<1>. DEFINE q == handler[h]
            items == Items(q.op)
            entry(i) == [op |-> q.op, att |-> q.att, pos |-> i, conv |-> q.conv, group |-> q.group,
                         item |-> items[i], time |-> q.now + i - 1, batch |-> BatchOf(q.op, i)]
<1>1. NewEntries(q) = {entry(i) : i \in DOMAIN items}  BY DEF NewEntries, BatchOf
<1>2. NewEntries(q) \subseteq Entry  BY NewEntriesShape
<1>. HIDE DEF q, items
<1>3. \A i \in DOMAIN items :
        /\ entry(i) \in NewEntries(q)
        /\ entry(i).op = q.op /\ entry(i).att = q.att /\ entry(i).conv = q.conv
        /\ entry(i).group = q.group /\ entry(i).pos = i /\ entry(i).item = items[i]
        /\ entry(i).time = q.now + i - 1 /\ entry(i).batch = BatchOf(q.op, i)
  BY <1>1
<1>4. \A e \in NewEntries(q) : \E i \in DOMAIN items : e = entry(i)  BY <1>1
<1>. HIDE DEF entry
<1>5. \A e \in NewEntries(q) : e.time \in Nat  BY <1>2 DEF Entry
<1>. QED  BY <1>3, <1>4, <1>5 DEF q, items

(* What every step needs of ConvInv. *)
LEMMA ConvFacts ==
  ASSUME ConvInv
  PROVE  /\ log \subseteq Entry /\ sent \in [Ops -> Nat] /\ handler \in [Handlers -> Handler]
         /\ \A e \in log : /\ e.op \in Ops /\ e.att \in Nat /\ e.pos \in Nat /\ e.time \in Nat
                           /\ e.conv \in Convs /\ convs[e.conv] # None /\ convs[e.conv].group = e.group
         /\ \A h \in Handlers : /\ handler[h].op \in Ops \cup {None} /\ handler[h].att \in Nat
                                /\ HandlerOK(handler[h], convs, log)
<1>1. log \subseteq Entry /\ sent \in [Ops -> Nat] /\ handler \in [Handlers -> Handler]
  BY DEF ConvInv, TypeOK
<1>2. \A e \in log : /\ e.op \in Ops /\ e.att \in Nat /\ e.pos \in Nat /\ e.time \in Nat
                     /\ e.conv \in Convs /\ convs[e.conv] # None /\ convs[e.conv].group = e.group
  BY <1>1 DEF ConvInv, TypeOK, Entry
<1>3. \A h \in Handlers : /\ handler[h].op \in Ops \cup {None} /\ handler[h].att \in Nat
                          /\ HandlerOK(handler[h], convs, log)
  BY <1>1 DEF ConvInv, Handler
<1>. QED  BY <1>1, <1>2, <1>3

(* A step of h alone that appends nothing. *)
LEMMA LocalAck ==
  ASSUME ConvInv, AckInv, NEW h \in Handlers, NEW s, Set(h, s), UNCHANGED log,
         sent' \in [Ops -> Nat], \A o \in Ops : sent[o] <= sent'[o],
         RequestOK(s, log, sent'),
         \A x \in Handlers \ {h} : Apart(s, handler[x]) /\ Apart(handler[x], s),
         \A r \in replies' : r \in replies \/ ReplyOK(r, log)
  PROVE  AckInv'
<1>1. /\ handler'[h] = s /\ \A x \in Handlers \ {h} : handler'[x] = handler[x]
  BY ConvFacts DEF Set
<1>2. \A e \in log : EntryOK(e, sent')
  <2>. SUFFICES ASSUME NEW e \in log PROVE EntryOK(e, sent')
    OBVIOUS
  <2>1. e.op \in Ops /\ e.att \in Nat /\ sent[e.op] \in Nat /\ sent'[e.op] \in Nat  BY ConvFacts
  <2>2. EntryOK(e, sent)  BY DEF AckInv
  <2>. QED  BY <2>1, <2>2 DEF EntryOK
<1>3. ASSUME NEW x \in Handlers PROVE RequestOK(handler'[x], log, sent')
  <2>1. CASE x = h  BY <1>1, <2>1
  <2>2. CASE x # h
    <3>1. handler'[x] = handler[x] /\ RequestOK(handler[x], log, sent)  BY <1>1, <2>2 DEF AckInv
    <3>2. /\ handler[x].op \in Ops \cup {None} /\ handler[x].att \in Nat
          /\ \A o \in Ops : sent[o] \in Nat /\ sent'[o] \in Nat
      BY ConvFacts
    <3>3. Working(handler[x]) => handler[x].op \in Ops  BY <3>2 DEF Working
    <3>. QED  BY <3>1, <3>2, <3>3 DEF RequestOK
  <2>. QED  BY <2>1, <2>2
<1>4. \A x, y \in Handlers : x # y => Apart(handler'[x], handler'[y])  BY <1>1 DEF AckInv
<1>. QED  BY <1>2, <1>3, <1>4 DEF AckInv

(* Where a request may go without a new attempt. *)
Onward(q, s) ==
    \/ s = Idle
    \/ \E o \in Ops : s = Recovering(o) /\ Sequenced(o)
    \/ s.op = q.op /\ s.att = q.att /\ s.pc # "recover" /\ q.pc # "recover"

LEMMA OnwardAck ==
  ASSUME ConvInv, AckInv, NEW h \in Handlers, NEW s, Set(h, s), UNCHANGED <<log, sent>>,
         Onward(handler[h], s),
         \A r \in replies' : r \in replies \/ ReplyOK(r, log)
  PROVE  AckInv'
<1>1. sent' \in [Ops -> Nat] /\ \A o \in Ops : sent[o] <= sent'[o]
  <2>1. \A o \in Ops : sent[o] \in Nat  BY ConvFacts
  <2>. QED  BY <2>1, ConvFacts
<1>2. RequestOK(handler[h], log, sent)  BY DEF AckInv
<1>3. \A x \in Handlers \ {h} : Apart(handler[h], handler[x]) /\ Apart(handler[x], handler[h])
  BY DEF AckInv
<1>4. ~Working(Idle) /\ Idle.pc # "recover"  BY DEF Working, Idle
<1>5. \A o \in Ops : ~Working(Recovering(o)) /\ Recovering(o).op = o
  BY DEF Working, Recovering, Idle
<1>6. RequestOK(s, log, sent')  BY <1>2, <1>4, <1>5 DEF Onward, RequestOK, Working
<1>7. \A x \in Handlers \ {h} : Apart(s, handler[x]) /\ Apart(handler[x], s)
  BY <1>3, <1>4, <1>5 DEF Onward, Apart, Working
<1>. QED  BY <1>1, <1>6, <1>7, LocalAck

(* A new attempt has a number nobody has used. *)
LEMMA ArriveAck ==
  ASSUME ConvInv, AckInv, NEW h \in Handlers, NEW o \in Ops, NEW s, Set(h, s),
         UNCHANGED <<log, replies>>, sent' = [sent EXCEPT ![o] = @ + 1],
         \/ Onward(handler[h], s) /\ (s.op = None \/ s.pc = "recover")
         \/ s.op = o /\ s.att = sent[o] + 1 /\ s.pc # "recover"
  PROVE  AckInv'
<1>1. \A p \in Ops : sent[p] \in Nat  BY ConvFacts
<1>2. sent' \in [Ops -> Nat] /\ \A p \in Ops : sent[p] <= sent'[p] /\ sent'[o] = sent[o] + 1
  BY <1>1, ConvFacts
<1>3. CASE Onward(handler[h], s) /\ (s.op = None \/ s.pc = "recover")
  <2>1. ~Working(s)  BY <1>3 DEF Working
  <2>2. s.pc = "recover" => Sequenced(s.op)
    <3>1. Idle.pc # "recover"  BY DEF Idle
    <3>2. \A p \in Ops : Recovering(p).op = p  BY DEF Recovering, Idle
    <3>. QED  BY <1>3, <3>1, <3>2 DEF Onward
  <2>3. RequestOK(s, log, sent')  BY <2>1, <2>2 DEF RequestOK
  <2>4. \A x \in Handlers \ {h} : Apart(s, handler[x]) /\ Apart(handler[x], s)  BY <2>1 DEF Apart
  <2>. QED  BY <1>2, <2>3, <2>4, LocalAck
<1>4. CASE s.op = o /\ s.att = sent[o] + 1 /\ s.pc # "recover"
  <2>1. \A e \in log : e.op = o => e.att # s.att
    <3>. SUFFICES ASSUME NEW e \in log, e.op = o PROVE e.att # s.att
      OBVIOUS
    <3>1. e.att \in Nat /\ e.att <= sent[o]  BY ConvFacts DEF AckInv, EntryOK
    <3>. QED  BY <1>1, <1>4, <3>1
  <2>2. RequestOK(s, log, sent')
    <3>1. s.att <= sent'[s.op]  BY <1>1, <1>2, <1>4
    <3>. QED  BY <1>4, <2>1, <3>1 DEF RequestOK
  <2>3. ASSUME NEW x \in Handlers \ {h} PROVE Apart(s, handler[x]) /\ Apart(handler[x], s)
    <3>1. RequestOK(handler[x], log, sent) /\ handler[x].att \in Nat  BY ConvFacts DEF AckInv
    <3>2. Working(handler[x]) /\ handler[x].op = o => handler[x].att # s.att
      BY <1>1, <1>4, <3>1 DEF RequestOK
    <3>. QED  BY <1>4, <3>2 DEF Apart
  <2>. QED  BY <1>2, <2>2, <2>3, LocalAck
<1>. QED  BY <1>3, <1>4

LEMMA NotFoundOnward ==
  ASSUME NEW h, NEW o \in Ops \cup {None}, NotFound(h, o)
  PROVE  \E s : Set(h, s) /\ (\A q : Onward(q, s)) /\ (s.op = None \/ s.pc = "recover")
<1>1. Idle.op = None  BY DEF Idle
<1>2. \A p : Recovering(p).pc = "recover"  BY DEF Recovering, Idle
<1>. QED  BY <1>1, <1>2 DEF NotFound, Onward

LEMMA ExistingOnward ==
  ASSUME ConvInv, NEW h \in Handlers, handler[h].pc # "recover", Existing(h)
  PROVE  \E s : Set(h, s) /\ Onward(handler[h], s)
<1>. DEFINE q == handler[h]
<1>1. q \in Handler /\ q.op \in Ops \cup {None}  BY ConvFacts
<1>2. CASE NotFound(h, q.op)  BY <1>1, <1>2, NotFoundOnward
<1>3. CASE Done(h)  BY <1>3 DEF Done, Onward
<1>4. CASE Set(h, [q EXCEPT !.pc = "lock", !.group = convs[q.conv].group, !.newGroup = None])
  <2>. DEFINE s == [q EXCEPT !.pc = "lock", !.group = convs[q.conv].group, !.newGroup = None]
  <2>1. s.op = q.op /\ s.att = q.att /\ s.pc = "lock"  BY <1>1 DEF Handler
  <2>2. Onward(q, s)  BY <2>1 DEF Onward
  <2>. QED  BY <1>4, <2>2
<1>. QED  BY <1>2, <1>3, <1>4 DEF Existing

LEMMA RecoveringOnward ==
  ASSUME NEW q, NEW o \in Ops, Sequenced(o) PROVE Onward(q, Recovering(o))
BY DEF Onward

LEMMA AppendEntriesAck ==
  ASSUME ConvInv, AckInv, NEW h \in Handlers, NEW o \in Ops, NEW src, NEW anchor,
         AppendEntries(h, o, src, anchor)
  PROVE  AckInv'
<1>. DEFINE c == Request[o].conv
            new == [Idle EXCEPT !.conv = c, !.op = o, !.att = sent[o] + 1, !.src = src, !.anchor = anchor]
<1>1. UNCHANGED <<log, replies>> /\ sent' = [sent EXCEPT ![o] = @ + 1]  BY DEF AppendEntries
<1>2. CASE NotFound(h, o)  BY <1>1, <1>2, NotFoundOnward, ArriveAck
<1>3. CASE Set(h, [new EXCEPT !.pc = "create"])
  <2>. DEFINE s == [new EXCEPT !.pc = "create"]
  <2>1. s.op = o /\ s.att = sent[o] + 1 /\ s.pc # "recover"  BY DEF Idle
  <2>2. Set(h, s)  BY <1>3
  <2>. HIDE DEF s
  <2>. QED  BY <1>1, <2>1, <2>2, ArriveAck
<1>4. CASE Set(h, [new EXCEPT !.pc = "lock", !.group = convs[c].group])
  <2>. DEFINE s == [new EXCEPT !.pc = "lock", !.group = convs[c].group]
  <2>1. s.op = o /\ s.att = sent[o] + 1 /\ s.pc # "recover"  BY DEF Idle
  <2>2. Set(h, s)  BY <1>4
  <2>. HIDE DEF s
  <2>. QED  BY <1>1, <2>1, <2>2, ArriveAck
<1>. QED  BY <1>2, <1>3, <1>4 DEF AppendEntries

LEMMA SyncAgentEntryAck ==
  ASSUME ConvInv, AckInv, NEW h \in Handlers, NEW o \in Ops, SyncAgentEntry(h, o)
  PROVE  AckInv'
<1>. DEFINE c == Request[o].conv
            new == [Idle EXCEPT !.conv = c, !.op = o, !.att = sent[o] + 1]
<1>1. UNCHANGED <<log, replies>> /\ sent' = [sent EXCEPT ![o] = @ + 1]  BY DEF SyncAgentEntry
<1>2. CASE Done(h)
  <2>1. Onward(handler[h], Idle) /\ Idle.op = None  BY DEF Onward, Idle
  <2>. QED  BY <1>1, <1>2, <2>1, ArriveAck DEF Done
<1>3. ASSUME NEW g, Set(h, [new EXCEPT !.pc = "insertConv", !.group = g, !.newGroup = g]) PROVE AckInv'
  <2>. DEFINE s == [new EXCEPT !.pc = "insertConv", !.group = g, !.newGroup = g]
  <2>1. s.op = o /\ s.att = sent[o] + 1 /\ s.pc # "recover"  BY DEF Idle
  <2>2. Set(h, s)  BY <1>3
  <2>. HIDE DEF s
  <2>. QED  BY <1>1, <2>1, <2>2, ArriveAck
<1>4. CASE Set(h, [new EXCEPT !.pc = "lock", !.group = convs[c].group])
  <2>. DEFINE s == [new EXCEPT !.pc = "lock", !.group = convs[c].group]
  <2>1. s.op = o /\ s.att = sent[o] + 1 /\ s.pc # "recover"  BY DEF Idle
  <2>2. Set(h, s)  BY <1>4
  <2>. HIDE DEF s
  <2>. QED  BY <1>1, <2>1, <2>2, ArriveAck
<1>. QED  BY <1>2, <1>3, <1>4 DEF SyncAgentEntry

LEMMA CreateConversationAck ==
  ASSUME ConvInv, AckInv, NEW h \in Handlers, NEW c, NEW src, NEW anchor,
         CreateConversation(h, c, src, anchor)
  PROVE  AckInv'
<1>. DEFINE s == [Idle EXCEPT !.pc = "create", !.conv = c, !.src = src, !.anchor = anchor]
<1>1. Set(h, s) /\ UNCHANGED <<log, sent, replies>>  BY DEF CreateConversation
<1>2. s.op = None /\ s.pc = "create"  BY DEF Idle
<1>. HIDE DEF s
<1>3. ~Working(s) /\ RequestOK(s, log, sent')  BY <1>2 DEF Working, RequestOK
<1>4. \A x \in Handlers \ {h} : Apart(s, handler[x]) /\ Apart(handler[x], s)  BY <1>3 DEF Apart
<1>5. sent' \in [Ops -> Nat] /\ \A o \in Ops : sent[o] <= sent'[o]
  <2>1. \A o \in Ops : sent[o] \in Nat  BY ConvFacts
  <2>. QED  BY <1>1, <2>1, ConvFacts
<1>. QED  BY <1>1, <1>3, <1>4, <1>5, LocalAck

LEMMA CreateCheckAck ==
  ASSUME ConvInv, AckInv, NEW h \in Handlers, CreateCheck(h) PROVE AckInv'
<1>. DEFINE q == handler[h]
<1>1. q \in Handler /\ q.op \in Ops \cup {None}  BY ConvFacts
<1>2. q.pc = "create" /\ UNCHANGED <<log, sent, replies>>  BY DEF CreateCheck
<1>3. \E s : Set(h, s) /\ Onward(q, s)
  <2>1. CASE NotFound(h, q.op)  BY <1>1, <2>1, NotFoundOnward
  <2>2. CASE Done(h)  BY <2>2 DEF Done, Onward
  <2>3. CASE Existing(h)  BY <1>2, <2>3, ExistingOnward
  <2>4. ASSUME NEW g, Set(h, [q EXCEPT !.pc = "insertConv", !.group = g, !.newGroup = g])
        PROVE  \E s : Set(h, s) /\ Onward(q, s)
    <3>. DEFINE s == [q EXCEPT !.pc = "insertConv", !.group = g, !.newGroup = g]
    <3>1. s.op = q.op /\ s.att = q.att /\ s.pc # "recover"  BY <1>1 DEF Handler
    <3>2. Onward(q, s)  BY <1>2, <3>1 DEF Onward
    <3>. QED  BY <2>4, <3>2
  <2>5. ASSUME NEW g, Set(h, [q EXCEPT !.pc = "insertConv", !.group = g])
        PROVE  \E s : Set(h, s) /\ Onward(q, s)
    <3>. DEFINE s == [q EXCEPT !.pc = "insertConv", !.group = g]
    <3>1. s.op = q.op /\ s.att = q.att /\ s.pc # "recover"  BY <1>1 DEF Handler
    <3>2. Onward(q, s)  BY <1>2, <3>1 DEF Onward
    <3>. QED  BY <2>5, <3>2
  <2>. QED  BY <2>1, <2>2, <2>3, <2>4, <2>5 DEF CreateCheck
<1>. QED  BY <1>2, <1>3, OnwardAck

LEMMA InsertConversationAck ==
  ASSUME ConvInv, AckInv, NEW h \in Handlers, InsertConversation(h) PROVE AckInv'
<1>. DEFINE q == handler[h]
<1>1. q \in Handler  BY ConvFacts
<1>2. q.pc = "insertConv" /\ UNCHANGED <<log, sent, replies>>  BY DEF InsertConversation
<1>3. \E s : Set(h, s) /\ Onward(q, s)
  <2>1. CASE Done(h)  BY <2>1 DEF Done, Onward
  <2>2. CASE Existing(h)  BY <1>2, <2>2, ExistingOnward
  <2>3. CASE Set(h, [q EXCEPT !.pc = IF q.op = None THEN "commit" ELSE "lock", !.row = NewRow(q)])
    <3>. DEFINE s == [q EXCEPT !.pc = IF q.op = None THEN "commit" ELSE "lock", !.row = NewRow(q)]
    <3>1. s.op = q.op /\ s.att = q.att /\ s.pc # "recover"  BY <1>1 DEF Handler
    <3>2. Onward(q, s)  BY <1>2, <3>1 DEF Onward
    <3>. QED  BY <2>3, <3>2
  <2>. QED  BY <2>1, <2>2, <2>3 DEF InsertConversation
<1>. QED  BY <1>2, <1>3, OnwardAck

LEMMA LockGroupAck ==
  ASSUME ConvInv, AckInv, NEW h \in Handlers, LockGroup(h) PROVE AckInv'
<1>. DEFINE q == handler[h]
<1>1. q \in Handler  BY ConvFacts
<1>2. q.pc = "lock" /\ UNCHANGED <<log, sent, replies>>  BY DEF LockGroup
<1>3. PICK t : Set(h, [q EXCEPT !.pc = "insert", !.now = t])  BY DEF LockGroup
<1>. DEFINE s == [q EXCEPT !.pc = "insert", !.now = t]
<1>4. s.op = q.op /\ s.att = q.att /\ s.pc # "recover"  BY <1>1 DEF Handler
<1>5. Onward(q, s)  BY <1>2, <1>4 DEF Onward
<1>6. Set(h, s)  BY <1>3
<1>. HIDE DEF s
<1>. QED  BY <1>2, <1>5, <1>6, OnwardAck

LEMMA InsertDuplicateAck ==
  ASSUME ConvInv, AckInv, NEW h \in Handlers, InsertDuplicate(h) PROVE AckInv'
<1>. DEFINE q == handler[h]
<1>1. q.pc = "insert" /\ UNCHANGED <<log, sent, replies>> /\ Duplicate(q)  BY DEF InsertDuplicate
<1>2. q.op \in Ops  BY <1>1, ConvFacts DEF HandlerOK
<1>3. Sequenced(q.op)
  <2>1. PICK f \in NewEntries(q) : f.item.seq # None  BY <1>1 DEF Duplicate
  <2>2. f.pos \in DOMAIN Items(q.op) /\ f.item = Items(q.op)[f.pos]  BY <1>1, NewEntriesFull
  <2>. QED  BY <2>1, <2>2 DEF Sequenced
<1>4. \E s : Set(h, s) /\ Onward(q, s)
  BY <1>2, <1>3, RecoveringOnward DEF InsertDuplicate, Onward
<1>. QED  BY <1>1, <1>4, OnwardAck

LEMMA DoneAck ==
  ASSUME ConvInv, AckInv, NEW h \in Handlers, Done(h), UNCHANGED <<log, sent>>,
         \A r \in replies' : r \in replies \/ ReplyOK(r, log)
  PROVE  AckInv'
<1>1. Onward(handler[h], Idle)  BY DEF Onward
<1>. QED  BY <1>1, OnwardAck DEF Done

(* The entries of an attempt that is in the log. *)
LEMMA AttemptInOrder ==
  ASSUME ConvInv, AckInv, NEW e \in log PROVE InOrder(Attempt(e, log), Items(e.op))
<1>1. e.op \in Ops  BY ConvFacts
<1>2. Items(e.op) \in Seq(AllItems)  BY <1>1, RequestAssumption
<1>3. DOMAIN Items(e.op) \subseteq Nat  BY <1>2
<1>4. \A f \in Attempt(e, log) : f \in log /\ f.op = e.op /\ f.att = e.att  BY DEF Attempt
<1>5. \A f \in Attempt(e, log) : /\ f.pos \in DOMAIN Items(e.op) /\ f.item = Items(e.op)[f.pos]
                                 /\ f.time \in Nat
  BY <1>4, ConvFacts DEF AckInv, EntryOK
<1>6. \A f, g \in Attempt(e, log) : (f.pos = g.pos => f = g) /\ f.time + g.pos = g.time + f.pos
  BY <1>4 DEF AckInv, PairOK
<1>7. \A i \in DOMAIN Items(e.op) : \E f \in Attempt(e, log) : f.pos = i  BY DEF AckInv, WholeOK
<1>. QED  BY <1>3, <1>5, <1>6, <1>7, SetInOrder

(* What the recovery of a sequenced request returns: all entries of the     *)
(* attempt that defined the same batch, or the one equal entry.             *)
LEMMA MatchIsReply ==
  ASSUME ConvInv, AckInv, NEW o \in Ops, Sequenced(o), Match(o) # {}
  PROVE  ReplyOK([op |-> o, entries |-> Match(o)], log)
<1>. DEFINE items == Items(o)
            c == Request[o].conv
            a == items[Anchor(items)]
            stored == {e \in log : e.conv = c /\ e.group = convs[c].group /\ e.item.seq = a.seq}
            part(e) == IF e.batch # << >>
                         THEN IF e.batch = items THEN {f \in log : f.op = e.op /\ f.att = e.att} ELSE {}
                         ELSE IF Len(items) = 1 /\ e.item = a THEN {e} ELSE {}
<1>1. /\ Anchor(items) \in DOMAIN items /\ a.seq # None
      /\ items \in Seq(AllItems) /\ Len(items) \in Nat \ {0}
  BY AnchorIsSequenced
<1>2. Match(o) = UNION {part(e) : e \in stored}  BY DEF Match
<1>3. PICK e \in stored : part(e) # {}  BY <1>2
<1>4. \A f \in stored : f = e  BY <1>1 DEF AckInv, PairOK
<1>5. Match(o) = part(e)
  <2>. HIDE DEF part, stored
  <2>. QED  BY <1>2, <1>3, <1>4
<1>6. e \in log /\ e.conv = c /\ e.item.seq = a.seq  BY <1>3
<1>7. EntryOK(e, sent)  BY <1>6 DEF AckInv
<1>. DEFINE r == [op |-> o, entries |-> Match(o)]
<1>8. r.op = o /\ r.entries = Match(o)  OBVIOUS
<1>9. CASE e.batch # << >>
  <2>1. e.batch = items /\ Match(o) = Attempt(e, log)  BY <1>3, <1>5, <1>9 DEF Attempt
  <2>2. e.batch = BatchOf(e.op, e.pos)  BY <1>7 DEF EntryOK
  <2>3. Items(e.op) = items /\ Len(items) > 1  BY <1>9, <2>1, <2>2 DEF BatchOf
  <2>4. InOrder(Match(o), items)  BY <1>6, <2>1, <2>3, AttemptInOrder
  <2>5. \A f \in Match(o) : f \in log /\ f.op = e.op  BY <2>1 DEF Attempt
  <2>6. \A f \in Match(o) : f.conv = c
    BY <1>6, <1>7, <2>5 DEF AckInv, EntryOK
  <2>7. e \in Match(o)  BY <1>6, <2>1 DEF Attempt
  <2>8. Len(items) # 1
    <3>1. Len(items) \in Nat /\ Len(items) > 1  BY <1>1, <2>3
    <3>2. \A n \in Nat : n > 1 => n # 1  OBVIOUS
    <3>. HIDE DEF items
    <3>. QED  BY <3>1, <3>2, Zenon
  <2>9. \E f \in Match(o) : /\ f.item.seq = a.seq
                            /\ Match(o) = IF Len(items) = 1 THEN {f} ELSE Attempt(f, log)
    BY <1>6, <2>1, <2>7, <2>8
  <2>10. Decided(r, log)  BY <2>9 DEF Decided
  <2>. HIDE DEF r
  <2>. QED  BY <1>8, <2>4, <2>5, <2>6, <2>10 DEF ReplyOK, r
<1>10. CASE e.batch = << >>
  <2>1. Len(items) = 1 /\ e.item = a /\ Match(o) = {e}  BY <1>3, <1>5, <1>10
  <2>2. DOMAIN items = {1} /\ Anchor(items) = 1  BY <1>1, <2>1
  <2>3. InOrder({e}, items)
    <3>. DEFINE at == [i \in DOMAIN items |-> e]
    <3>1. at \in [DOMAIN items -> {e}] /\ \A i \in DOMAIN items : at[i] = e  OBVIOUS
    <3>. HIDE DEF at
    <3>2. {e} = {at[i] : i \in DOMAIN items}  BY <2>2, <3>1
    <3>3. \A i \in DOMAIN items : at[i].item = items[i]  BY <2>1, <2>2, <3>1
    <3>4. \A i, j \in DOMAIN items : i < j => at[i].time < at[j].time  BY <2>2
    <3>. QED  BY <3>1, <3>2, <3>3, <3>4 DEF InOrder
  <2>. HIDE DEF r
  <2>4. Decided(r, log)  BY <1>6, <1>8, <2>1 DEF Decided
  <2>. QED  BY <1>6, <1>8, <2>1, <2>3, <2>4 DEF ReplyOK, r
<1>. QED  BY <1>9, <1>10

LEMMA RecoverAppendAck ==
  ASSUME ConvInv, AckInv, NEW h \in Handlers, RecoverAppend(h) PROVE AckInv'
<1>. DEFINE o == handler[h].op
            found == IF convs[Request[o].conv] = None THEN {} ELSE Match(o)
<1>1. handler[h].pc = "recover" /\ Done(h) /\ UNCHANGED <<log, sent>>  BY DEF RecoverAppend
<1>2. o \in Ops /\ Sequenced(o)  BY <1>1, ConvFacts DEF HandlerOK, AckInv, RequestOK
<1>3. replies' = IF found = {} THEN replies ELSE replies \cup {[op |-> o, entries |-> found]}
  BY DEF RecoverAppend
<1>4. found # {} => ReplyOK([op |-> o, entries |-> found], log)  BY <1>2, MatchIsReply
<1>. HIDE DEF found, o
<1>5. \A r \in replies' : r \in replies \/ ReplyOK(r, log)  BY <1>3, <1>4
<1>. QED  BY <1>1, <1>5, DoneAck

(* A commit of N, which is a new attempt or nothing. *)
LEMMA InsertEntriesAck ==
  ASSUME ConvInv, AckInv, NEW h \in Handlers, InsertEntries(h) PROVE AckInv'
<1>. DEFINE q == handler[h]
            N == NewEntries(q)
            items == Items(q.op)
<1>1. /\ q.pc = "insert" /\ ~Duplicate(q) /\ log' = log \cup N /\ Done(h) /\ UNCHANGED sent
      /\ replies' \in {replies, replies \cup {[op |-> q.op, entries |-> N]}}
  BY DEF InsertEntries
<1>2. /\ \A e \in N : /\ e.op = q.op /\ e.att = q.att /\ e.conv = q.conv /\ e.group = q.group
                      /\ e.pos \in DOMAIN items /\ e.item = items[e.pos]
                      /\ e.time \in Nat /\ e.time = q.now + e.pos - 1
                      /\ e.batch = BatchOf(q.op, e.pos)
      /\ \A e, f \in N : e.pos = f.pos => e = f
      /\ \A i \in DOMAIN items : \E e \in N : e.pos = i
  BY <1>1, NewEntriesFull
<1>3. /\ q.op \in Ops /\ q.conv = Request[q.op].conv /\ q.op # None /\ Working(q)
      /\ q.row # None => convs[q.conv] = None
      /\ q.row = None => convs[q.conv].group = q.group
  BY <1>1, ConvFacts, NoneAssumption DEF HandlerOK, Working
<1>4. q.att <= sent[q.op] /\ \A e \in log : e.op = q.op => e.att # q.att
  BY <1>3 DEF AckInv, RequestOK
<1>5. items \in Seq(AllItems) /\ DOMAIN items \subseteq Nat
  <2>1. items \in Seq(AllItems)  BY <1>3, RequestAssumption
  <2>. HIDE DEF items
  <2>. QED  BY <2>1
<1>5a. q.now \in Nat
  <2>1. q \in Handler  BY ConvFacts
  <2>. QED  BY <2>1 DEF Handler
<1>5b. \A e \in log, f \in N : e.conv = f.conv => e.group = f.group  BY <1>2, <1>3, ConvFacts
<1>6. \A f \in N : \A e \in log \cup N :
        e # f => ~(e.group = f.group /\ e.conv = f.conv /\ e.item.seq # None /\ e.item.seq = f.item.seq)
  BY <1>1 DEF Duplicate
<1>. HIDE DEF N
<1>7. ASSUME NEW e \in log' PROVE EntryOK(e, sent') /\ WholeOK(e, log')
  <2>1. CASE e \in log
    <3>1. EntryOK(e, sent) /\ WholeOK(e, log)  BY <2>1 DEF AckInv
    <3>. QED  BY <1>1, <3>1 DEF WholeOK, Attempt
  <2>2. CASE e \in N
    <3>1. EntryOK(e, sent')  BY <1>1, <1>2, <1>3, <1>4, <2>2 DEF EntryOK
    <3>2. WholeOK(e, log')  BY <1>1, <1>2, <2>2 DEF WholeOK, Attempt
    <3>. QED  BY <3>1, <3>2
  <2>. QED  BY <1>1, <2>1, <2>2
<1>8. ASSUME NEW e \in log', NEW f \in log' PROVE PairOK(e, f)
  <2>1. CASE e \in log /\ f \in log  BY <2>1 DEF AckInv
  <2>2. CASE e \in N /\ f \in N
    <3>1. e.time + f.pos = f.time + e.pos
      <4>1. /\ e.pos \in Nat /\ f.pos \in Nat /\ e.time = q.now + e.pos - 1
            /\ f.time = q.now + f.pos - 1
        BY <1>2, <1>5, <2>2
      <4>. QED  BY <1>5a, <4>1
    <3>2. e.conv = f.conv /\ e.item.seq # None /\ e.item.seq = f.item.seq => e = f
      BY <1>2, <1>6, <2>2
    <3>. QED  BY <1>2, <2>2, <3>1, <3>2 DEF PairOK
  <2>3. CASE e \in log /\ f \in N
    <3>1. ~(e.op = f.op /\ e.att = f.att)  BY <1>2, <1>4, <2>3
    <3>2. ~(e.conv = f.conv /\ e.item.seq # None /\ e.item.seq = f.item.seq)
      BY <1>5b, <1>6, <2>3, <3>1
    <3>. QED  BY <3>1, <3>2 DEF PairOK
  <2>4. CASE e \in N /\ f \in log
    <3>1. ~(e.op = f.op /\ e.att = f.att)  BY <1>2, <1>4, <2>4
    <3>2. ~(e.conv = f.conv /\ e.item.seq # None /\ e.item.seq = f.item.seq)
      BY <1>5b, <1>6, <2>4, <3>1
    <3>. QED  BY <3>1, <3>2 DEF PairOK
  <2>. QED  BY <1>1, <2>1, <2>2, <2>3, <2>4
<1>9. handler'[h] = Idle /\ \A x \in Handlers \ {h} : handler'[x] = handler[x]
  BY <1>1, ConvFacts DEF Done, Set
<1>10. ~Working(Idle) /\ Idle.pc # "recover"  BY DEF Working, Idle
<1>11. ASSUME NEW x \in Handlers PROVE RequestOK(handler'[x], log', sent')
  <2>1. CASE x = h  BY <1>9, <1>10, <2>1 DEF RequestOK
  <2>2. CASE x # h
    <3>1. RequestOK(handler[x], log, sent) /\ Apart(q, handler[x])  BY <2>2 DEF AckInv
    <3>2. Working(handler[x]) => \A e \in N : e.op = handler[x].op => e.att # handler[x].att
      BY <1>2, <1>3, <3>1 DEF Apart
    <3>. QED  BY <1>1, <1>9, <2>2, <3>1, <3>2 DEF RequestOK
  <2>. QED  BY <2>1, <2>2
<1>12. \A x, y \in Handlers : x # y => Apart(handler'[x], handler'[y])
  BY <1>9, <1>10 DEF AckInv, Apart
<1>13. ASSUME NEW r \in replies PROVE ReplyOK(r, log')
  <2>1. ReplyOK(r, log)  BY DEF AckInv
  <2>2. r.entries \subseteq log  BY <2>1 DEF ReplyOK
  <2>3. \A e \in r.entries : Attempt(e, log') = Attempt(e, log)
    BY <1>1, <1>2, <1>4, <2>2 DEF Attempt
  <2>4. Decided(r, log')  BY <2>1, <2>3 DEF ReplyOK, Decided
  <2>. QED  BY <1>1, <2>1, <2>4 DEF ReplyOK
<1>14. ReplyOK([op |-> q.op, entries |-> N], log')
  <2>. DEFINE r == [op |-> q.op, entries |-> N]
  <2>1. r.op = q.op /\ r.entries = N  OBVIOUS
  <2>. HIDE DEF r
  <2>2. InOrder(N, items)
    <3>1. \A e, f \in N : (e.pos = f.pos => e = f) /\ e.time + f.pos = f.time + e.pos
      BY <1>1, <1>2, <1>8 DEF PairOK
    <3>. HIDE DEF items
    <3>. QED  BY <1>2, <1>5, <3>1, SetInOrder
  <2>3. ASSUME Sequenced(q.op)
        PROVE  \E e \in N : /\ e.item.seq = items[Anchor(items)].seq
                            /\ N = IF Len(items) = 1 THEN {e} ELSE Attempt(e, log')
    <3>1. Anchor(items) \in DOMAIN items  BY <1>3, <2>3, AnchorIsSequenced
    <3>2. PICK e \in N : e.pos = Anchor(items)  BY <1>2, <3>1
    <3>3. e.item.seq = items[Anchor(items)].seq  BY <1>2, <3>2
    <3>4. N = Attempt(e, log')  BY <1>1, <1>2, <1>4 DEF Attempt
    <3>5. CASE Len(items) = 1
      <4>1. DOMAIN items = {1}  BY <1>5, <3>5
      <4>2. \A f \in N : f.pos = e.pos  BY <1>2, <4>1
      <4>3. N = {e}  BY <1>2, <4>2
      <4>. QED  BY <3>3, <3>5, <4>3
    <3>6. CASE Len(items) # 1  BY <3>3, <3>4, <3>6
    <3>. QED  BY <3>5, <3>6
  <2>4. Decided(r, log')  BY <2>1, <2>3 DEF Decided
  <2>5. N \subseteq log' /\ \A e \in N : e.conv = Request[q.op].conv  BY <1>1, <1>2, <1>3
  <2>. QED  BY <2>1, <2>2, <2>4, <2>5 DEF ReplyOK, r
<1>15. \A r \in replies' : ReplyOK(r, log')  BY <1>1, <1>13, <1>14
<1>. QED  BY <1>7, <1>8, <1>11, <1>12, <1>15 DEF AckInv

LEMMA NextAck ==
  ASSUME ConvInv, AckInv, [Next]_vars PROVE AckInv'
<1>1. CASE UNCHANGED <<log, sent, handler, replies>>  BY <1>1 DEF AckInv
<1>2. ASSUME NEW h \in Handlers, Step(h) PROVE AckInv'
  <2>1. ASSUME NEW l \in Lineages, NEW o \in Ops, AppendEntries(h, o, l[1], l[2]) PROVE AckInv'
    BY <2>1, AppendEntriesAck
  <2>2. ASSUME NEW l \in Lineages, NEW c \in Convs, CreateConversation(h, c, l[1], l[2]) PROVE AckInv'
    BY <2>2, CreateConversationAck
  <2>3. ASSUME NEW o \in Ops, SyncAgentEntry(h, o) PROVE AckInv'  BY <2>3, SyncAgentEntryAck
  <2>4. CASE CreateCheck(h)  BY <2>4, CreateCheckAck
  <2>5. CASE InsertConversation(h)  BY <2>5, InsertConversationAck
  <2>6. CASE CommitCreate(h)  BY <2>6, DoneAck DEF CommitCreate
  <2>7. CASE LockGroup(h)  BY <2>7, LockGroupAck
  <2>8. CASE InsertDuplicate(h)  BY <2>8, InsertDuplicateAck
  <2>9. CASE InsertEntries(h)  BY <2>9, InsertEntriesAck
  <2>10. CASE RecoverAppend(h)  BY <2>10, RecoverAppendAck
  <2>11. CASE RequestFails(h)  BY <2>11, DoneAck DEF RequestFails
  <2>. QED
    BY <1>2, <2>1, <2>2, <2>3, <2>4, <2>5, <2>6, <2>7, <2>8, <2>9, <2>10, <2>11 DEF Step
<1>3. \A g \in Groups : SetArchived(g) => AckInv'  BY <1>1 DEF SetArchived
<1>4. CASE UNCHANGED vars  BY <1>1, <1>4 DEF vars
<1>. QED  BY <1>2, <1>3, <1>4 DEF Next

LEMMA InitAck == ASSUME Init PROVE AckInv
<1>1. ~Working(Idle) /\ Idle.pc # "recover"  BY DEF Working, Idle
<1>2. \A h \in Handlers : handler[h] = Idle  BY DEF Init
<1>. QED  BY <1>1, <1>2 DEF Init, AckInv, RequestOK, Apart

(* An acknowledged append, whether the first attempt, a retry or another    *)
(* request with the same sequence was what stored it, names stored entries  *)
(* that are the request's items in order, and every acknowledgement of a    *)
(* sequenced request names the same ones (appendEntries,                    *)
(* FindSequencedAppendMatch, RecoverAppendBatch).                           *)
THEOREM AcknowledgementsAreFaithful == Spec => []AcknowledgedAppends
<1>1. Init => ConvInv /\ AckInv  BY InitInv, InitAck
<1>2. ConvInv /\ AckInv /\ [Next]_vars => (ConvInv /\ AckInv)'  BY NextInv, NextAck
<1>3. ConvInv /\ AckInv => AcknowledgedAppends
  <2>. SUFFICES ASSUME ConvInv, AckInv PROVE AcknowledgedAppends
    OBVIOUS
  <2>1. ASSUME NEW r \in replies, NEW s \in replies, r.op = s.op, Sequenced(r.op)
        PROVE  r.entries = s.entries
    <3>. DEFINE a == Items(r.op)[Anchor(Items(r.op))]
    <3>1. r.op \in Ops  BY DEF ConvInv, TypeOK
    <3>2. a.seq # None  BY <2>1, <3>1, AnchorIsSequenced
    <3>3. PICK e \in r.entries : /\ e.item.seq = a.seq
                                 /\ r.entries = IF Len(Items(r.op)) = 1 THEN {e} ELSE Attempt(e, log)
      BY <2>1 DEF AckInv, ReplyOK, Decided
    <3>4. PICK f \in s.entries : /\ f.item.seq = a.seq
                                 /\ s.entries = IF Len(Items(r.op)) = 1 THEN {f} ELSE Attempt(f, log)
      BY <2>1 DEF AckInv, ReplyOK, Decided
    <3>5. e \in log /\ f \in log /\ e.conv = f.conv  BY <2>1 DEF AckInv, ReplyOK
    <3>6. e = f  BY <3>2, <3>3, <3>4, <3>5 DEF AckInv, PairOK
    <3>. QED  BY <3>3, <3>4, <3>6
  <2>. QED  BY <2>1 DEF AckInv, ReplyOK, AcknowledgedAppends
<1>. QED  BY <1>1, <1>2, <1>3, PTL DEF Spec

-----------------------------------------------------------------------------
(* Forks.  A segment that shows entries. *)
Shown(k, path) == k = 1 \/ path[k].before # None

(* The rows of a fork are its source's, cut at the anchor, which the source *)
(* shows.                                                                   *)
CutFrom(row, c, cv) ==
    LET p == row.path[2].conv
        a == row.path[2].forkedAt
    IN  /\ cv[p] # None /\ row.group = cv[p].group
        /\ IF a = None THEN row.path = Segments(c, cv[p].path, a, 0)
           ELSE \E k \in DOMAIN cv[p].path :
                  /\ InSegment(a, cv[p].path, k)
                  /\ row.path = Segments(c, cv[p].path, a, k)

(* The entries of a segment that shows any are later than the boundaries of *)
(* all deeper ones.                                                         *)
Layered(row, lg) ==
    \A k, l \in DOMAIN row.path :
      k < l /\ Shown(k, row.path) /\ row.path[l].before # None =>
        \A e \in lg : e.conv = row.path[k].conv /\ e.group = row.group =>
          row.path[l].before.time < e.time

ForkRow(row, c, cv, lg) ==
    /\ row.path[1].before = None
    /\ \A k \in DOMAIN row.path : k > 1 => cv[row.path[k].conv] # None
    /\ \A k, l \in DOMAIN row.path : row.path[k].conv = row.path[l].conv => k = l
    /\ Len(row.path) > 1 => CutFrom(row, c, cv)
    /\ Layered(row, lg)

AnchorRead(q, cv) ==
    q.pc = "insertConv" /\ q.anchor # None =>
      \E k \in DOMAIN cv[q.src].path : InSegment(q.anchor, cv[q.src].path, k)

ForkInv ==
    /\ \A c \in Convs : Exists(c) => ForkRow(convs[c], c, convs, log)
    /\ \A h \in Handlers :
         /\ AnchorRead(handler[h], convs)
         /\ handler[h].row # None => ForkRow(handler[h].row, handler[h].conv, convs, log)

(* What the rows of a fork are: the new conversation first, then the rows   *)
(* of its source cut at the anchor a, which row o of the source shows.      *)
Cut(path, c, P, a, o) ==
    /\ DOMAIN path = 1..(Len(P) + 1)
    /\ path[1].conv = c /\ path[1].before = None
    /\ \A k \in 1..Len(P) :
         /\ path[k + 1].conv = P[k].conv
         /\ path[k + 1].before = IF a = None \/ k > o THEN P[k].before
                                 ELSE IF k = o THEN a ELSE None
         /\ path[k + 1].forkedAt = IF k = 1 THEN a ELSE None

(* Segments builds such rows. *)
LEMMA SegmentsShape ==
  ASSUME NEW c, NEW P, Len(P) \in Nat, NEW a, NEW o
  PROVE  Cut(Segments(c, P, a, o), c, P, a, o)
<1>. DEFINE path == Segments(c, P, a, o)
<1>1. DOMAIN path = 1..(Len(P) + 1)  BY DEF Segments
<1>2. path[1].conv = c /\ path[1].before = None  BY DEF Segments
<1>3. ASSUME NEW k \in 1..Len(P)
      PROVE  /\ path[k + 1].conv = P[k].conv
             /\ path[k + 1].before = IF a = None \/ k > o THEN P[k].before
                                     ELSE IF k = o THEN a ELSE None
             /\ path[k + 1].forkedAt = IF k = 1 THEN a ELSE None
  <2>1. k + 1 \in 1..(Len(P) + 1) /\ k + 1 # 1 /\ (k + 1) - 1 = k /\ (k + 1 = 2 <=> k = 1)  OBVIOUS
  <2>. QED  BY <2>1 DEF Segments
<1>. HIDE DEF path
<1>4. Cut(path, c, P, a, o)  BY <1>1, <1>2, <1>3 DEF Cut
<1>. QED  BY <1>4 DEF path

(* More conversations and later entries leave a row as it was. *)
LEMMA ForkRowGrows ==
  ASSUME NEW row, NEW c, NEW cv, NEW lg, NEW cv2, NEW lg2,
         RowOK(row, c, lg), ForkRow(row, c, cv, lg), lg \subseteq lg2,
         \A d \in Convs : cv[d] # None => cv2[d] = cv[d],
         \A e \in lg, n \in lg2 \ lg : e.group = n.group => e.time < n.time
  PROVE  ForkRow(row, c, cv2, lg2)
<1>1. /\ row.path \in Seq(Segment) /\ DOMAIN row.path = 1..Len(row.path) /\ Len(row.path) \in Nat
  BY DEF RowOK, ConvRow
<1>2. \A k \in DOMAIN row.path : row.path[k].conv \in Convs
  <2>1. \A k \in DOMAIN row.path : row.path[k] \in Segment  BY <1>1
  <2>. QED  BY <2>1 DEF Segment
<1>3. Len(row.path) > 1 => CutFrom(row, c, cv2)
  <2>. SUFFICES ASSUME Len(row.path) > 1 PROVE CutFrom(row, c, cv2)
    OBVIOUS
  <2>1. row.path[2].conv \in Convs /\ CutFrom(row, c, cv)  BY <1>1, <1>2 DEF ForkRow
  <2>2. cv2[row.path[2].conv] = cv[row.path[2].conv]  BY <2>1 DEF CutFrom
  <2>. QED  BY <2>1, <2>2 DEF CutFrom
<1>4. Layered(row, lg2)
  <2>. SUFFICES ASSUME NEW k \in DOMAIN row.path, NEW l \in DOMAIN row.path, k < l,
                      Shown(k, row.path), row.path[l].before # None,
                      NEW e \in lg2, e.conv = row.path[k].conv, e.group = row.group
               PROVE  row.path[l].before.time < e.time
    BY DEF Layered
  <2>1. CASE e \in lg  BY <2>1 DEF ForkRow, Layered
  <2>2. CASE e \notin lg
    <3>1. row.path[l].before \in lg /\ row.path[l].before.group = row.group  BY <1>1 DEF RowOK
    <3>. QED  BY <2>2, <3>1
  <2>. QED  BY <2>1, <2>2
<1>. QED  BY <1>2, <1>3, <1>4 DEF ForkRow

(* A step of h alone that commits nothing. *)
LEMMA LocalFork ==
  ASSUME ConvInv, ForkInv, NEW h \in Handlers, NEW s, Set(h, s), UNCHANGED <<convs, log>>,
         AnchorRead(s, convs), s.row # None => ForkRow(s.row, s.conv, convs, log)
  PROVE  ForkInv'
<1>1. handler'[h] = s /\ \A x \in Handlers \ {h} : handler'[x] = handler[x]
  BY ConvFacts DEF Set
<1>. QED  BY <1>1 DEF ForkInv, Exists

(* Where most steps take a request: it keeps its row, or has none. *)
Keeps(q, s) == s.pc # "insertConv" /\ (s.row = None \/ (s.row = q.row /\ s.conv = q.conv))

LEMMA KeepsFork ==
  ASSUME ConvInv, ForkInv, NEW h \in Handlers, NEW s, Set(h, s), UNCHANGED <<convs, log>>,
         Keeps(handler[h], s)
  PROVE  ForkInv'
<1>1. AnchorRead(s, convs)  BY DEF AnchorRead, Keeps
<1>2. s.row # None => ForkRow(s.row, s.conv, convs, log)  BY DEF ForkInv, Keeps
<1>. QED  BY <1>1, <1>2, LocalFork

LEMMA DoneFork ==
  ASSUME ConvInv, ForkInv, NEW h \in Handlers, Done(h), UNCHANGED <<convs, log>>
  PROVE  ForkInv'
<1>1. Keeps(handler[h], Idle)  BY DEF Keeps, Idle
<1>. QED  BY <1>1, KeepsFork DEF Done

LEMMA NotFoundFork ==
  ASSUME ConvInv, ForkInv, NEW h \in Handlers, NEW o, NotFound(h, o), UNCHANGED <<convs, log>>
  PROVE  ForkInv'
<1>1. Keeps(handler[h], Idle) /\ Keeps(handler[h], Recovering(o))  BY DEF Keeps, Idle, Recovering
<1>. QED  BY <1>1, KeepsFork DEF NotFound

LEMMA ExistingFork ==
  ASSUME ConvInv, ForkInv, NEW h \in Handlers, Existing(h), UNCHANGED <<convs, log>>
  PROVE  ForkInv'
<1>. DEFINE q == handler[h]
            s == [q EXCEPT !.pc = "lock", !.group = convs[q.conv].group, !.newGroup = None]
<1>1. q \in Handler  BY ConvFacts
<1>2. Keeps(q, s)  BY <1>1 DEF Keeps, Handler
<1>3. CASE Set(h, s)
  <2>. HIDE DEF s
  <2>. QED  BY <1>2, <1>3, KeepsFork
<1>. QED  BY <1>3, DoneFork, NotFoundFork DEF Existing

LEMMA AppendEntriesFork ==
  ASSUME ConvInv, ForkInv, NEW h \in Handlers, NEW o, NEW src, NEW anchor,
         AppendEntries(h, o, src, anchor)
  PROVE  ForkInv'
<1>. DEFINE c == Request[o].conv
            new == [Idle EXCEPT !.conv = c, !.op = o, !.att = sent[o] + 1, !.src = src, !.anchor = anchor]
            s1 == [new EXCEPT !.pc = "create"]
            s2 == [new EXCEPT !.pc = "lock", !.group = convs[c].group]
<1>1. UNCHANGED <<convs, log>> /\ (Set(h, s1) \/ Set(h, s2) \/ NotFound(h, o))  BY DEF AppendEntries
<1>2. Keeps(handler[h], s1) /\ Keeps(handler[h], s2)  BY DEF Keeps, Idle
<1>. HIDE DEF s1, s2
<1>. QED  BY <1>1, <1>2, KeepsFork, NotFoundFork

LEMMA SyncAgentEntryFork ==
  ASSUME ConvInv, ForkInv, NEW h \in Handlers, NEW o, SyncAgentEntry(h, o)
  PROVE  ForkInv'
<1>. DEFINE c == Request[o].conv
            new == [Idle EXCEPT !.conv = c, !.op = o, !.att = sent[o] + 1]
            s1(g) == [new EXCEPT !.pc = "insertConv", !.group = g, !.newGroup = g]
            s2 == [new EXCEPT !.pc = "lock", !.group = convs[c].group]
<1>1. UNCHANGED <<convs, log>> /\ (Done(h) \/ (\E g : Set(h, s1(g))) \/ Set(h, s2))
  BY DEF SyncAgentEntry
<1>2. Keeps(handler[h], s2)  BY DEF Keeps, Idle
<1>3. \A g : s1(g).row = None /\ s1(g).anchor = None  BY DEF Idle
<1>. HIDE DEF s1, s2
<1>4. \A g : AnchorRead(s1(g), convs)  BY <1>3 DEF AnchorRead
<1>. QED  BY <1>1, <1>2, <1>3, <1>4, KeepsFork, LocalFork, DoneFork

LEMMA CreateConversationFork ==
  ASSUME ConvInv, ForkInv, NEW h \in Handlers, NEW c, NEW src, NEW anchor,
         CreateConversation(h, c, src, anchor)
  PROVE  ForkInv'
<1>. DEFINE s == [Idle EXCEPT !.pc = "create", !.conv = c, !.src = src, !.anchor = anchor]
<1>1. UNCHANGED <<convs, log>> /\ Set(h, s)  BY DEF CreateConversation
<1>2. Keeps(handler[h], s)  BY DEF Keeps, Idle
<1>. HIDE DEF s
<1>. QED  BY <1>1, <1>2, KeepsFork

(* The check that the source shows the anchor. *)
LEMMA CreateCheckFork ==
  ASSUME ConvInv, ForkInv, NEW h \in Handlers, CreateCheck(h)
  PROVE  ForkInv'
<1>. DEFINE q == handler[h]
            s1(g) == [q EXCEPT !.pc = "insertConv", !.group = g, !.newGroup = g]
            s2(g) == [q EXCEPT !.pc = "insertConv", !.group = g]
            shown == q.anchor # None => q.anchor \in Visible(q.src)
<1>1. q.pc = "create" /\ UNCHANGED <<convs, log>>  BY DEF CreateCheck
<1>2. q \in Handler /\ q.row = None  BY <1>1, ConvFacts DEF HandlerOK
<1>3. \/ NotFound(h, q.op) \/ Done(h) \/ Existing(h)
      \/ shown /\ \E g : Set(h, s1(g)) \/ Set(h, s2(g))
  BY DEF CreateCheck
<1>4. \A g : /\ s1(g).row = None /\ s1(g).anchor = q.anchor /\ s1(g).src = q.src
             /\ s2(g).row = None /\ s2(g).anchor = q.anchor /\ s2(g).src = q.src
  BY <1>2 DEF Handler
<1>5. shown /\ q.anchor # None =>
        \E k \in DOMAIN convs[q.src].path : InSegment(q.anchor, convs[q.src].path, k)
  BY DEF Visible
<1>. HIDE DEF s1, s2
<1>6. shown => \A g : AnchorRead(s1(g), convs) /\ AnchorRead(s2(g), convs)
  BY <1>4, <1>5 DEF AnchorRead
<1>. HIDE DEF shown
<1>. QED  BY <1>1, <1>3, <1>4, <1>6, NotFoundFork, DoneFork, ExistingFork, LocalFork

(* The rows createConversationAncestry computes: the anchor's owner is the  *)
(* segment that shows it, nearer segments show nothing, deeper ones keep    *)
(* their boundaries.                                                        *)
LEMMA NewRowFork ==
  ASSUME ConvInv, ForkInv, NEW h \in Handlers, handler[h].pc = "insertConv",
         convs[handler[h].conv] = None
  PROVE  ForkRow(NewRow(handler[h]), handler[h].conv, convs, log)
<1>. DEFINE q == handler[h]
            row == NewRow(q)
<1>1. /\ q \in Handler /\ HandlerOK(q, convs, log) /\ AnchorRead(q, convs)
      /\ \A c \in Convs : convs[c] # None => RowOK(convs[c], c, log) /\ ForkRow(convs[c], c, convs, log)
  BY ConvFacts DEF ConvInv, Exists, ForkInv
<1>2. q.conv \in Convs /\ SourceRead(q, convs, log)  BY <1>1 DEF HandlerOK
<1>3. \A e \in log : e.conv # q.conv  BY ConvFacts
<1>4. CASE q.src = None
  <2>1. q.anchor = None  BY <1>2, <1>4, NoneAssumption DEF SourceRead
  <2>2. row.path = Segments(q.conv, << >>, None, 0)  BY <1>4, <2>1 DEF NewRow
  <2>. HIDE DEF row
  <2>3. DOMAIN row.path = {1} /\ row.path[1].before = None /\ Len(row.path) = 1
    BY <2>2 DEF Segments
  <2>4. Layered(row, log)  BY <2>3 DEF Layered
  <2>5. ForkRow(row, q.conv, convs, log)  BY <2>3, <2>4 DEF ForkRow
  <2>. QED  BY <2>5 DEF row
<1>5. CASE q.src # None
  <2>. DEFINE P == convs[q.src].path
  <2>1. /\ q.src \in Convs /\ convs[q.src] # None /\ q.group = convs[q.src].group
        /\ q.anchor # None => q.anchor \in log /\ q.anchor.group = q.group
    BY <1>2, <1>5 DEF SourceRead
  <2>2. RowOK(convs[q.src], q.src, log) /\ ForkRow(convs[q.src], q.src, convs, log)  BY <1>1, <2>1
  <2>3. P \in Seq(Segment) /\ Len(P) \in Nat \ {0} /\ DOMAIN P = 1..Len(P) /\ P[1].conv = q.src
    BY <2>2 DEF RowOK, ConvRow
  <2>4. PICK o : /\ row.path = Segments(q.conv, P, q.anchor, o)
                 /\ q.anchor = None => o = 0
                 /\ q.anchor # None => o \in DOMAIN P /\ InSegment(q.anchor, P, o)
    <3>1. CASE q.anchor = None
      <4>1. row.path = Segments(q.conv, P, q.anchor, 0)  BY <1>5, <3>1 DEF NewRow
      <4>. QED  BY <3>1, <4>1
    <3>2. CASE q.anchor # None
      <4>. DEFINE owner == CHOOSE k \in DOMAIN P : P[k].conv = q.anchor.conv
      <4>1. row.path = Segments(q.conv, P, q.anchor, owner)  BY <1>5, <3>2 DEF NewRow
      <4>2. PICK k \in DOMAIN P : InSegment(q.anchor, P, k)  BY <1>1, <3>2 DEF AnchorRead
      <4>3. P[k].conv = q.anchor.conv  BY <4>2 DEF InSegment
      <4>4. owner \in DOMAIN P /\ P[owner].conv = q.anchor.conv  BY <4>3
      <4>. HIDE DEF owner
      <4>5. owner = k  BY <2>2, <4>3, <4>4 DEF ForkRow
      <4>. QED  BY <3>2, <4>1, <4>2, <4>5
    <3>. QED  BY <3>1, <3>2
  <2>5. row.group = q.group  BY DEF NewRow
  <2>5a. /\ \A k \in DOMAIN P : k > 1 => convs[P[k].conv] # None
         /\ \A k, l \in DOMAIN P : P[k].conv = P[l].conv => k = l
         /\ \A k, l \in DOMAIN P :
              k < l /\ Shown(k, P) /\ P[l].before # None =>
                \A e \in log : e.conv = P[k].conv /\ e.group = q.group => P[l].before.time < e.time
    BY <2>1, <2>2 DEF ForkRow, Layered
  <2>. DEFINE path == row.path
  <2>. HIDE DEF row, P
  <2>6. /\ DOMAIN path = 1..(Len(P) + 1)
        /\ path[1].conv = q.conv /\ path[1].before = None
        /\ \A k \in 1..Len(P) :
             /\ path[k + 1].conv = P[k].conv
             /\ path[k + 1].before = IF q.anchor = None \/ k > o THEN P[k].before
                                     ELSE IF k = o THEN q.anchor ELSE None
             /\ path[k + 1].forkedAt = IF k = 1 THEN q.anchor ELSE None
    <3>1. Len(P) \in Nat  BY <2>3
    <3>2. Cut(Segments(q.conv, P, q.anchor, o), q.conv, P, q.anchor, o)  BY <3>1, SegmentsShape
    <3>3. Cut(path, q.conv, P, q.anchor, o)  BY <2>4, <3>2
    <3>. HIDE DEF path, q
    <3>. QED  BY <3>3 DEF Cut
  <2>7. \A k \in DOMAIN path : k > 1 => /\ k - 1 \in 1..Len(P) /\ (k - 1) + 1 = k
                                        /\ path[k].conv = P[k - 1].conv
    <3>. SUFFICES ASSUME NEW k \in DOMAIN path, k > 1
                 PROVE  k - 1 \in 1..Len(P) /\ (k - 1) + 1 = k /\ path[k].conv = P[k - 1].conv
      OBVIOUS
    <3>1. k - 1 \in 1..Len(P) /\ (k - 1) + 1 = k  BY <2>3, <2>6
    <3>2. path[(k - 1) + 1].conv = P[k - 1].conv  BY <2>6, <3>1
    <3>. QED  BY <3>1, <3>2
  <2>8. ASSUME NEW k \in DOMAIN path, k > 1 PROVE convs[path[k].conv] # None
    <3>. DEFINE i == k - 1
    <3>1. i \in DOMAIN P /\ path[k].conv = P[i].conv  BY <2>3, <2>7, <2>8
    <3>2. i \in Nat /\ i >= 1  BY <2>3, <3>1
    <3>. HIDE DEF i
    <3>3. CASE i = 1  BY <2>1, <2>3, <3>1, <3>3
    <3>4. CASE i > 1  BY <2>5a, <3>1, <3>4
    <3>. QED  BY <3>2, <3>3, <3>4
  <2>9. ASSUME NEW k \in DOMAIN path, NEW l \in DOMAIN path, path[k].conv = path[l].conv PROVE k = l
    <3>1. k \in Nat /\ l \in Nat /\ k >= 1 /\ l >= 1  BY <2>3, <2>6
    <3>2. CASE k > 1 /\ l > 1
      <4>1. k - 1 \in DOMAIN P /\ l - 1 \in DOMAIN P /\ P[k - 1].conv = P[l - 1].conv
        BY <2>3, <2>7, <2>9, <3>2
      <4>2. k - 1 = l - 1  BY <2>5a, <4>1
      <4>. QED  BY <3>1, <4>2
    <3>3. CASE k = 1 /\ l > 1  BY <2>6, <2>8, <2>9, <3>3
    <3>4. CASE k > 1 /\ l = 1  BY <2>6, <2>8, <2>9, <3>4
    <3>. QED  BY <3>1, <3>2, <3>3, <3>4
  <2>10. CutFrom(row, q.conv, convs)
    <3>1. path[2].conv = q.src /\ path[2].forkedAt = q.anchor
      <4>1. 1 \in 1..Len(P) /\ 1 + 1 = 2  BY <2>3
      <4>2. path[1 + 1].conv = P[1].conv /\ path[1 + 1].forkedAt = q.anchor  BY <2>6, <4>1
      <4>. QED  BY <2>3, <4>1, <4>2
    <3>. QED  BY <2>1, <2>4, <2>5, <3>1 DEF CutFrom, P
  <2>11. Layered(row, log)
    <3>. SUFFICES ASSUME NEW k \in DOMAIN path, NEW l \in DOMAIN path, k < l,
                        Shown(k, path), path[l].before # None,
                        NEW e \in log, e.conv = path[k].conv, e.group = row.group
                 PROVE  path[l].before.time < e.time
      BY DEF Layered
    <3>1. k \in Nat /\ l \in Nat /\ k > 1 /\ l > 1
      <4>1. k \in Nat /\ l \in Nat /\ k >= 1  BY <2>3, <2>6
      <4>2. k # 1  BY <1>3, <2>6
      <4>. QED  BY <4>1, <4>2
    <3>2. path[k].before # None  BY <3>1 DEF Shown
    <3>. DEFINE i == k - 1
                j == l - 1
    <3>3. i \in DOMAIN P /\ j \in DOMAIN P /\ i < j /\ path[k].conv = P[i].conv  BY <2>3, <2>7, <3>1
    <3>4. /\ path[k].before = IF q.anchor = None \/ i > o THEN P[i].before
                              ELSE IF i = o THEN q.anchor ELSE None
          /\ path[l].before = IF q.anchor = None \/ j > o THEN P[j].before
                              ELSE IF j = o THEN q.anchor ELSE None
      <4>1. i + 1 = k /\ j + 1 = l  BY <3>1
      <4>2. i \in 1..Len(P) /\ j \in 1..Len(P)  BY <2>7, <3>1
      <4>. HIDE DEF i, j
      <4>. QED  BY <2>6, <4>1, <4>2
    <3>. HIDE DEF i, j
    <3>5. Shown(i, P) /\ path[l].before = P[j].before
      <4>1. CASE q.anchor = None  BY <3>2, <3>4, <4>1 DEF Shown
      <4>2. CASE q.anchor # None
        <5>1. o \in DOMAIN P /\ InSegment(q.anchor, P, o)  BY <2>4, <4>2
        <5>2. i \in Nat /\ j \in Nat /\ o \in Nat  BY <2>3, <3>3, <5>1
        <5>3. i >= o /\ j > o  BY <3>2, <3>3, <3>4, <4>2, <5>2
        <5>4. CASE i = o  BY <3>4, <5>1, <5>2, <5>3, <5>4 DEF InSegment, Shown
        <5>5. CASE i > o  BY <3>2, <3>4, <5>2, <5>3, <5>5 DEF Shown
        <5>. QED  BY <5>2, <5>3, <5>4, <5>5
      <4>. QED  BY <4>1, <4>2
    <3>. QED  BY <2>5, <2>5a, <3>3, <3>5
  <2>12. ForkRow(row, q.conv, convs, log)  BY <2>6, <2>8, <2>9, <2>10, <2>11 DEF ForkRow
  <2>. QED  BY <2>12 DEF row
<1>. QED  BY <1>4, <1>5

LEMMA InsertConversationFork ==
  ASSUME ConvInv, ForkInv, NEW h \in Handlers, InsertConversation(h)
  PROVE  ForkInv'
<1>. DEFINE q == handler[h]
            pc == IF q.op = None THEN "commit" ELSE "lock"
            s == [q EXCEPT !.pc = pc, !.row = NewRow(q)]
<1>1. q \in Handler /\ q.pc = "insertConv" /\ UNCHANGED <<convs, log>>
  BY ConvFacts DEF InsertConversation
<1>2. CASE convs[q.conv] = None /\ Set(h, s)
  <2>1. s.pc # "insertConv" /\ s.row = NewRow(q) /\ s.conv = q.conv  BY <1>1 DEF Handler
  <2>2. ForkRow(NewRow(q), q.conv, convs, log)  BY <1>1, <1>2, NewRowFork
  <2>. HIDE DEF s, q
  <2>3. AnchorRead(s, convs)  BY <2>1 DEF AnchorRead
  <2>. QED  BY <1>1, <1>2, <2>1, <2>2, <2>3, LocalFork DEF q
<1>. QED  BY <1>1, <1>2, DoneFork, ExistingFork DEF InsertConversation

LEMMA LockGroupFork ==
  ASSUME ConvInv, ForkInv, NEW h \in Handlers, LockGroup(h)
  PROVE  ForkInv'
<1>. DEFINE q == handler[h]
            s(t) == [q EXCEPT !.pc = "insert", !.now = t]
<1>1. UNCHANGED <<convs, log>> /\ \E t : Set(h, s(t))  BY DEF LockGroup
<1>2. q \in Handler  BY ConvFacts
<1>3. \A t : Keeps(q, s(t))  BY <1>2 DEF Keeps, Handler
<1>. HIDE DEF s
<1>. QED  BY <1>1, <1>3, KeepsFork

LEMMA InsertDuplicateFork ==
  ASSUME ConvInv, ForkInv, NEW h \in Handlers, InsertDuplicate(h)
  PROVE  ForkInv'
<1>. DEFINE s == Recovering(handler[h].op)
<1>1. UNCHANGED <<convs, log>> /\ (Set(h, Idle) \/ Set(h, s))  BY DEF InsertDuplicate
<1>2. Keeps(handler[h], Idle) /\ Keeps(handler[h], s)  BY DEF Keeps, Idle, Recovering
<1>. HIDE DEF s
<1>. QED  BY <1>1, <1>2, KeepsFork

(* A commit: the row becomes a conversation's, and later entries do not     *)
(* disturb the order of anybody's segments.                                 *)
LEMMA CommitFork ==
  ASSUME ConvInv, ForkInv, NEW h \in Handlers, CommitCreate(h) \/ InsertEntries(h)
  PROVE  ForkInv'
<1>. DEFINE q == handler[h]
            N == IF q.pc = "insert" THEN NewEntries(q) ELSE {}
<1>1. Commit(q) /\ log' = log \cup N /\ q.pc \in {"commit", "insert"} /\ Done(h)
  BY DEF CommitCreate, InsertEntries
<1>2. /\ HandlerOK(q, convs, log) /\ convs \in [Convs -> ConvRow \cup {None}]
      /\ q \in Handler /\ log \subseteq Entry
      /\ \A c \in Convs : convs[c] # None => RowOK(convs[c], c, log) /\ ForkRow(convs[c], c, convs, log)
  BY DEF ConvInv, TypeOK, Exists, ForkInv
<1>3. q.conv \in Convs /\ (q.row # None => /\ convs[q.conv] = None /\ RowOK(q.row, q.conv, log)
                                           /\ ForkRow(q.row, q.conv, convs, log))
  BY <1>1, <1>2 DEF HandlerOK, ForkInv
<1>4. /\ \A c \in Convs : convs[c] # None => convs'[c] = convs[c]
      /\ \A c \in Convs : c # q.conv \/ q.row = None => convs'[c] = convs[c]
      /\ q.row # None => convs'[q.conv] = q.row
  BY <1>1, <1>2, <1>3 DEF Commit
<1>5. \A e \in log, n \in log' \ log : e.group = n.group => e.time < n.time
  <2>1. \A n \in N : n \in Entry /\ n.group = q.group /\ n.time >= q.now /\ q.pc = "insert"
    BY NewEntriesShape
  <2>. QED  BY <1>1, <1>2, <2>1 DEF HandlerOK, Entry, Handler
<1>. HIDE DEF N
<1>6. ASSUME NEW c \in Convs, convs'[c] # None PROVE ForkRow(convs'[c], c, convs', log')
  <2>1. CASE c = q.conv /\ q.row # None
    BY <1>1, <1>3, <1>4, <1>5, <2>1, ForkRowGrows
  <2>2. CASE c # q.conv \/ q.row = None
    <3>1. convs'[c] = convs[c] /\ RowOK(convs[c], c, log) /\ ForkRow(convs[c], c, convs, log)
      BY <1>2, <1>4, <1>6, <2>2
    <3>. QED  BY <1>1, <1>4, <1>5, <3>1, ForkRowGrows
  <2>. QED  BY <2>1, <2>2
<1>7. handler'[h] = Idle /\ \A x \in Handlers \ {h} : handler'[x] = handler[x]
  BY <1>1, ConvFacts DEF Done, Set
<1>8. ASSUME NEW x \in Handlers \ {h}
      PROVE  /\ AnchorRead(handler[x], convs')
             /\ handler[x].row # None => ForkRow(handler[x].row, handler[x].conv, convs', log')
  <2>1. /\ HandlerOK(handler[x], convs, log) /\ AnchorRead(handler[x], convs)
        /\ handler[x].row # None => ForkRow(handler[x].row, handler[x].conv, convs, log)
    BY ConvFacts DEF ForkInv
  <2>2. AnchorRead(handler[x], convs')
    <3>. SUFFICES ASSUME handler[x].pc = "insertConv", handler[x].anchor # None
                 PROVE  AnchorRead(handler[x], convs')
      BY DEF AnchorRead
    <3>1. handler[x].src \in Convs /\ convs[handler[x].src] # None
      BY <2>1 DEF HandlerOK, SourceRead
    <3>. QED  BY <1>4, <2>1, <3>1 DEF AnchorRead
  <2>3. handler[x].row # None => RowOK(handler[x].row, handler[x].conv, log)
    BY <2>1 DEF HandlerOK
  <2>. QED  BY <1>1, <1>4, <1>5, <2>1, <2>2, <2>3, ForkRowGrows
<1>9. Idle.row = None /\ AnchorRead(Idle, convs')  BY DEF Idle, AnchorRead
<1>10. \A x \in Handlers : /\ AnchorRead(handler'[x], convs')
                           /\ handler'[x].row # None => ForkRow(handler'[x].row, handler'[x].conv, convs', log')
  BY <1>7, <1>8, <1>9
<1>. QED  BY <1>6, <1>10 DEF ForkInv, Exists

LEMMA NextFork ==
  ASSUME ConvInv, ForkInv, [Next]_vars PROVE ForkInv'
<1>1. CASE UNCHANGED <<convs, log, handler>>  BY <1>1 DEF ForkInv, Exists
<1>2. ASSUME NEW h \in Handlers, Step(h) PROVE ForkInv'
  <2>1. ASSUME NEW l \in Lineages, NEW o \in Ops, AppendEntries(h, o, l[1], l[2]) PROVE ForkInv'
    BY <2>1, AppendEntriesFork
  <2>2. ASSUME NEW l \in Lineages, NEW c \in Convs, CreateConversation(h, c, l[1], l[2]) PROVE ForkInv'
    BY <2>2, CreateConversationFork
  <2>3. ASSUME NEW o \in Ops, SyncAgentEntry(h, o) PROVE ForkInv'  BY <2>3, SyncAgentEntryFork
  <2>4. CASE CreateCheck(h)  BY <2>4, CreateCheckFork
  <2>5. CASE InsertConversation(h)  BY <2>5, InsertConversationFork
  <2>6. CASE CommitCreate(h) \/ InsertEntries(h)  BY <2>6, CommitFork
  <2>7. CASE LockGroup(h)  BY <2>7, LockGroupFork
  <2>8. CASE InsertDuplicate(h)  BY <2>8, InsertDuplicateFork
  <2>9. CASE RecoverAppend(h)  BY <2>9, DoneFork DEF RecoverAppend
  <2>10. CASE RequestFails(h)  BY <2>10, DoneFork DEF RequestFails
  <2>. QED
    BY <1>2, <2>1, <2>2, <2>3, <2>4, <2>5, <2>6, <2>7, <2>8, <2>9, <2>10 DEF Step
<1>3. \A g \in Groups : SetArchived(g) => ForkInv'  BY <1>1 DEF SetArchived
<1>4. CASE UNCHANGED vars  BY <1>1, <1>4 DEF vars
<1>. QED  BY <1>2, <1>3, <1>4 DEF Next

(* What a conversation inherits, segment by segment. *)
LEMMA InheritedSegments ==
  ASSUME ConvInv, ForkInv, NEW c \in Convs, Exists(c)
  PROVE  Inherited(c) = {e \in log : /\ e.group = convs[c].group
                                     /\ \E k \in DOMAIN convs[c].path :
                                          k > 1 /\ InSegment(e, convs[c].path, k)}
<1>. DEFINE path == convs[c].path
<1>1. RowOK(convs[c], c, log) /\ ForkRow(convs[c], c, convs, log)  BY DEF ConvInv, ForkInv, Exists
<1>2. /\ path \in Seq(Segment) /\ DOMAIN path = 1..Len(path) /\ Len(path) \in Nat \ {0}
      /\ path[1].conv = c
  BY <1>1 DEF RowOK, ConvRow
<1>3. \A k, l \in DOMAIN path : path[k].conv = path[l].conv => k = l  BY <1>1 DEF ForkRow
<1>4. \A e, k : k \in DOMAIN path /\ InSegment(e, path, k) => (e.conv = c <=> k = 1)
  <2>1. 1 \in DOMAIN path  BY <1>2
  <2>. QED  BY <1>2, <1>3, <2>1 DEF InSegment
<1>5. \A k \in DOMAIN path : k # 1 <=> k > 1  BY <1>2
<1>6. Inherited(c) = {e \in log : /\ e.group = convs[c].group
                                  /\ \E k \in DOMAIN path : InSegment(e, path, k)
                                  /\ e.conv # c}
  BY DEF Inherited, Visible, Own
<1>. HIDE DEF path
<1>7. \A e : (\E k \in DOMAIN path : InSegment(e, path, k)) /\ e.conv # c
               <=> \E k \in DOMAIN path : k > 1 /\ InSegment(e, path, k)
  BY <1>4, <1>5
<1>8. Inherited(c) = {e \in log : /\ e.group = convs[c].group
                                  /\ \E k \in DOMAIN path : k > 1 /\ InSegment(e, path, k)}
  BY <1>6, <1>7
<1>. QED  BY <1>8 DEF path

(* The segments of a fork show what the source shows before the anchor. *)
LEMMA PrefixShown ==
  ASSUME ConvInv, ForkInv, NEW c \in Convs, Exists(c), ForkedFrom(c) # None, ForkedAt(c) # None
  PROVE  Inherited(c) = {e \in Visible(ForkedFrom(c)) : e.time < ForkedAt(c).time}
<1>. DEFINE path == convs[c].path
            p == ForkedFrom(c)
            a == ForkedAt(c)
            P == convs[p].path
            g == convs[c].group
<1>1. RowOK(convs[c], c, log) /\ ForkRow(convs[c], c, convs, log)  BY DEF ConvInv, ForkInv, Exists
<1>2. path \in Seq(Segment) /\ Len(path) \in Nat /\ Len(path) > 0  BY <1>1 DEF RowOK, ConvRow
<1>3. Len(path) > 1 /\ p = path[2].conv /\ a = path[2].forkedAt
  <2>1. Len(path) # 1  BY DEF ForkedFrom
  <2>2. Len(path) > 1
    <3>1. \A n \in Nat : n > 0 /\ n # 1 => n > 1  OBVIOUS
    <3>. HIDE DEF path
    <3>. QED  BY <1>2, <2>1, <3>1, Zenon
  <2>. QED  BY <2>1, <2>2 DEF ForkedFrom, ForkedAt
<1>4. p \in Convs
  <2>1. path[2] \in Segment  BY <1>2, <1>3
  <2>. QED  BY <1>3, <2>1 DEF Segment
<1>5. /\ convs[p] # None /\ g = convs[p].group
      /\ IF a = None THEN path = Segments(c, P, a, 0)
         ELSE \E k \in DOMAIN P : InSegment(a, P, k) /\ path = Segments(c, P, a, k)
  <2>1. CutFrom(convs[c], c, convs)  BY <1>1, <1>3 DEF ForkRow
  <2>. HIDE DEF p, a
  <2>. QED  BY <1>3, <2>1 DEF CutFrom
<1>6. RowOK(convs[p], p, log) /\ ForkRow(convs[p], p, convs, log)
  BY <1>4, <1>5 DEF ConvInv, ForkInv, Exists
<1>7. /\ P \in Seq(Segment) /\ DOMAIN P = 1..Len(P) /\ Len(P) \in Nat \ {0} /\ P[1].conv = p
      /\ P[1].before = None
      /\ \A k \in DOMAIN P : P[k].before # None => P[k].before \in log
      /\ \A k, l \in DOMAIN P :
           k < l /\ Shown(k, P) /\ P[l].before # None =>
             \A e \in log : e.conv = P[k].conv /\ e.group = g => P[l].before.time < e.time
  BY <1>5, <1>6 DEF RowOK, ConvRow, ForkRow, Layered
<1>8. \A e \in log : e.time \in Nat  BY ConvFacts
<1>9. Inherited(c) = {e \in log : /\ e.group = g
                                  /\ \E k \in DOMAIN path : k > 1 /\ InSegment(e, path, k)}
  BY InheritedSegments
<1>10. Visible(p) = {e \in log : e.group = g /\ \E k \in DOMAIN P : InSegment(e, P, k)}
  BY <1>5 DEF Visible
<1>11. \A k \in DOMAIN path : path[k].before # None => path[k].before \in log /\ path[k].before.group = g
  BY <1>1, <1>2 DEF RowOK
<1>12. a # None  OBVIOUS
<1>. HIDE DEF path, p, a, P, g
<1>13. PICK o \in DOMAIN P : InSegment(a, P, o) /\ path = Segments(c, P, a, o)  BY <1>5, <1>12
<1>14. o \in Nat /\ o >= 1 /\ o \in 1..Len(P) /\ Len(P) \in Nat  BY <1>7
<1>15. /\ DOMAIN path = 1..(Len(P) + 1)
       /\ \A k \in 1..Len(P) :
            /\ path[k + 1].conv = P[k].conv
            /\ path[k + 1].before = IF k > o THEN P[k].before ELSE IF k = o THEN a ELSE None
  <2>1. Cut(path, c, P, a, o)  BY <1>13, <1>14, SegmentsShape
  <2>. QED  BY <1>12, <2>1 DEF Cut
<1>16. a \in log /\ a.group = g /\ a.conv = P[o].conv /\ Shown(o, P)
  <2>1. o + 1 \in DOMAIN path /\ path[o + 1].before = a  BY <1>14, <1>15
  <2>2. a \in log /\ a.group = g  BY <1>11, <1>12, <2>1
  <2>. QED  BY <1>13, <2>2 DEF InSegment, Shown
<1>17. ASSUME NEW e \in log, e.group = g, NEW k \in DOMAIN path, k > 1, InSegment(e, path, k)
       PROVE  e.time < a.time /\ \E j \in DOMAIN P : InSegment(e, P, j)
  <2>1. PICK j \in DOMAIN P : k = j + 1
    <3>1. k - 1 \in DOMAIN P /\ k = (k - 1) + 1  BY <1>7, <1>15, <1>17
    <3>. QED  BY <3>1
  <2>2. j \in 1..Len(P) /\ j \in Nat /\ j >= 1  BY <1>7
  <2>3. /\ path[k].conv = P[j].conv
        /\ path[k].before = IF j > o THEN P[j].before ELSE IF j = o THEN a ELSE None
    BY <1>15, <2>1, <2>2
  <2>4. e.conv = P[j].conv /\ path[k].before # None /\ e.time < path[k].before.time
    BY <1>17, <2>3 DEF InSegment
  <2>5. CASE j = o
    <3>1. path[k].before = a  BY <1>14, <2>3, <2>5
    <3>2. e.time < a.time  BY <2>4, <3>1
    <3>3. InSegment(e, P, j)
      <4>1. CASE o = 1  BY <2>4, <2>5, <4>1 DEF InSegment
      <4>2. CASE o # 1
        <5>1. P[o].before # None /\ a.time < P[o].before.time  BY <1>13, <4>2 DEF InSegment
        <5>2. e.time \in Nat /\ a.time \in Nat /\ P[o].before.time \in Nat
          BY <1>7, <1>8, <1>16, <5>1
        <5>3. e.time < P[o].before.time  BY <3>2, <5>1, <5>2
        <5>. QED  BY <2>4, <2>5, <5>1, <5>3 DEF InSegment
      <4>. QED  BY <4>1, <4>2
    <3>. QED  BY <3>2, <3>3
  <2>6. CASE j > o
    <3>1. path[k].before = P[j].before  BY <2>3, <2>6
    <3>2. InSegment(e, P, j)  BY <2>4, <3>1 DEF InSegment
    <3>3. P[j].before # None /\ P[j].before.time < a.time
      BY <1>7, <1>16, <2>4, <2>6, <3>1
    <3>4. e.time \in Nat /\ a.time \in Nat /\ P[j].before.time \in Nat
      BY <1>7, <1>8, <1>16, <3>3
    <3>. QED  BY <2>4, <3>1, <3>2, <3>3, <3>4
  <2>7. CASE j < o  BY <1>14, <2>2, <2>3, <2>4, <2>7
  <2>. QED  BY <1>14, <2>2, <2>5, <2>6, <2>7
<1>18. ASSUME NEW e \in log, e.group = g, e.time < a.time, NEW j \in DOMAIN P, InSegment(e, P, j)
       PROVE  \E k \in DOMAIN path : k > 1 /\ InSegment(e, path, k)
  <2>1. j \in 1..Len(P) /\ j \in Nat /\ j >= 1 /\ j + 1 \in DOMAIN path /\ j + 1 > 1
    BY <1>7, <1>15
  <2>2. /\ path[j + 1].conv = P[j].conv
        /\ path[j + 1].before = IF j > o THEN P[j].before ELSE IF j = o THEN a ELSE None
    BY <1>15, <2>1
  <2>3. e.conv = P[j].conv /\ (j = 1 \/ (P[j].before # None /\ e.time < P[j].before.time))
    BY <1>18 DEF InSegment
  <2>4. CASE j = o
    <3>1. path[j + 1].before = a  BY <1>14, <2>2, <2>4
    <3>2. InSegment(e, path, j + 1)  BY <1>12, <1>18, <2>2, <2>3, <3>1 DEF InSegment
    <3>. QED  BY <2>1, <3>2
  <2>5. CASE j > o
    <3>1. path[j + 1].before = P[j].before /\ j # 1  BY <1>14, <2>1, <2>2, <2>5
    <3>2. InSegment(e, path, j + 1)  BY <2>2, <2>3, <3>1 DEF InSegment
    <3>. QED  BY <2>1, <3>2
  <2>6. CASE j < o
    <3>1. o # 1 /\ Shown(j, P)  BY <1>14, <2>1, <2>3, <2>6 DEF Shown
    <3>2. P[o].before # None /\ a.time < P[o].before.time  BY <1>13, <3>1 DEF InSegment
    <3>3. P[o].before.time < e.time  BY <1>7, <1>18, <2>3, <2>6, <3>1, <3>2
    <3>4. e.time \in Nat /\ a.time \in Nat /\ P[o].before.time \in Nat
      BY <1>7, <1>8, <1>16, <3>2
    <3>. QED  BY <1>18, <3>2, <3>3, <3>4
  <2>. QED  BY <1>14, <2>1, <2>4, <2>5, <2>6
<1>19. Inherited(c) = {e \in Visible(p) : e.time < a.time}
  BY <1>9, <1>10, <1>17, <1>18
<1>. QED  BY <1>12, <1>19 DEF a, p

LEMMA InitFork == ASSUME Init PROVE ForkInv
<1>1. Idle.row = None /\ Idle.pc # "insertConv"  BY DEF Idle
<1>2. \A h \in Handlers : handler[h] = Idle  BY DEF Init
<1>. QED  BY <1>1, <1>2 DEF Init, ForkInv, AnchorRead, Exists

(* Through any number of forks, at any entry the source shows, its own or   *)
(* inherited, and whatever is appended and created concurrently, a fork     *)
(* inherits what its source shows before the anchor                         *)
(* (BuildConversationAncestrySegments, visibleAncestryEntrySQL).            *)
THEOREM ForksShowAPrefix == Spec => []ForkShowsPrefix
<1>1. Init => ConvInv /\ ForkInv  BY InitInv, InitFork
<1>2. ConvInv /\ ForkInv /\ [Next]_vars => (ConvInv /\ ForkInv)'  BY NextInv, NextFork
<1>3. ConvInv /\ ForkInv => ForkShowsPrefix  BY PrefixShown DEF ForkShowsPrefix
<1>. QED  BY <1>1, <1>2, <1>3, PTL DEF Spec

=============================================================================
