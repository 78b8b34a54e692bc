------------------------ MODULE KindMigration_proofs ------------------------
(***************************************************************************)
(* KindMigration, and the memories it runs over, for every set of keys,    *)
(* kinds, indexers and processors and every bound: the types, the tasks,   *)
(* the count, what the sweep shows, and what the search finds.             *)
(*                                                                         *)
(* A row only moves forward: it is inserted once, taken out of service,    *)
(* cleared and moved once each, and every such step raises its revision    *)
(* and clears its mark.  What a processor or an indexer has read of a row  *)
(* is therefore current exactly when kind and revision still agree.        *)
(***************************************************************************)
EXTENDS KindMigration, FiniteSetTheorems, WellFoundedInduction, TLAPS

(* A row without the bound on its revision. *)
AnyRow == [key : Key, kind : Kind, text : BOOLEAN, revision : Nat \ {0},
           status : Lifecycle, value : BOOLEAN, indexed : BOOLEAN]

Gone == {Unborn, Deleted}

Born == {i \in Id : rows[i] # Unborn}

Bit(b) == IF b THEN 1 ELSE 0

(* The steps of its own that a row has taken: out of service, and cleared. *)
Steps(r) == IF r.status = "active" THEN 0 ELSE 1 + Bit(~r.value)

(* What happens to a row, an insertion and a move of its kind apart. *)
Clear(r) == [r EXCEPT !.value = FALSE, !.indexed = FALSE, !.revision = @ + 1]

TakenOut(r, s) == r.status = "active" /\ \E reason \in Lifecycle \ {"active"} : s = TakeOut(r, reason)
Cleaned(r, s) == r.status \in {"archived", "expired"} /\ r.value /\ r.indexed /\ s = Clear(r)
Removed(r, s) == s = Deleted
Marked(r, s) == s = [r EXCEPT !.indexed = TRUE]

Quiet(r, s) == s = r \/ (r \in AnyRow /\ (TakenOut(r, s) \/ Cleaned(r, s) \/ Removed(r, s)))
Edge(r, s) == Quiet(r, s) \/ (r \in AnyRow /\ Marked(r, s))

Moved(r) == [r EXCEPT !.kind = Target, !.indexed = FALSE, !.revision = @ + 1]

-----------------------------------------------------------------------------
(* The rows. *)
RowTypes == rows \in [Id -> AnyRow \cup Gone]

IsActive(i) == Exists(i) /\ rows[i].status = "active"

OneActive ==
    \A i, j \in Id : IsActive(i) /\ IsActive(j) /\ rows[i].key = rows[j].key => i = j

(* Each row inserted adds at most two to the revisions of its key, and its *)
(* own last two steps add one each.                                        *)
Bounded ==
    \A i \in Id : Exists(i) =>
        rows[i].revision <= 2 * Cardinality(Born) - 1 + Bit(i \in moved) + Steps(rows[i])

(* A row that was moved has the target kind for ever. *)
MovedOK ==
    /\ moved \subseteq Born
    /\ \A i \in moved : Exists(i) => rows[i].kind = Target
    /\ migrated = Cardinality(moved)

SweptOK ==
    /\ swept \subseteq Born
    /\ \A i \in swept : Exists(i) /\ rows[i].kind = Source => ~rows[i].value

RowInv == RowTypes /\ OneActive /\ Bounded /\ MovedOK /\ SweptOK

-----------------------------------------------------------------------------
(* The tasks and the processors. *)
Pages == UNION {[S -> Candidates] : S \in SUBSET Id}
Places == {"load", "cancel", "run", "scan", "check", "migrate", "enqueue", "sweep", "done", "error"}
Batch == [at : Places, task : TaskName, holds : BOOLEAN, page : Pages, last : {0} \cup Id]

ProcOK(p) ==
    /\ proc[p] \in Batch \cup {Idle}
    /\ Busy(p) =>
         /\ state # "none"
         /\ proc[p].at \in {"check", "migrate"} => DOMAIN proc[p].page # {}
         /\ proc[p].at = "enqueue" => proc[p].last \in Id
         /\ proc[p].at \in {"scan", "check", "migrate", "enqueue", "sweep"} => state # "queued"
         /\ proc[p].holds => proc[p].task \in DOMAIN tasks

TaskTypes ==
    /\ state \in {"none"} \cup Unfinished \cup Terminal
    /\ DOMAIN tasks \subseteq TaskName
    /\ tasks = [n \in DOMAIN tasks |-> tasks[n]]
    /\ \A n \in DOMAIN tasks : tasks[n] \in {"ready", "claimed"}
    /\ state = "none" => DOMAIN tasks = {}

(* A task somebody is about to delete has a successor, or the migration is *)
(* over.                                                                   *)
Doomed == {n \in TaskName : \E p \in Processor : At(p, "done") /\ proc[p].holds /\ proc[p].task = n}

ChainGoesOn == state \in Unfinished => \E n \in DOMAIN tasks : n \notin Doomed

TaskInv ==
    /\ DOMAIN proc = Processor
    /\ TaskTypes
    /\ \A p \in Processor : ProcOK(p)
    /\ ChainGoesOn

-----------------------------------------------------------------------------
(* The vectors and the indexers. *)
IndexTypes ==
    /\ vectors \in [Id -> Vector \cup {NoVector}]
    /\ DOMAIN pending = Indexer
    /\ \A x \in Indexer : /\ DOMAIN pending[x] \subseteq Id
                          /\ \A i \in DOMAIN pending[x] : pending[x][i] \in Snapshot
    /\ faults \in 0..MaxFaults

MigInv == RowInv /\ TaskInv /\ IndexTypes

(* What an indexer has read of a row is not newer than the row, and it is   *)
(* current when kind and revision agree.                                    *)
ReadOK(i, r) ==
    Exists(i) => /\ r.revision <= rows[i].revision
                 /\ r.revision = rows[i].revision /\ r.kind = rows[i].kind =>
                      r.status = rows[i].status /\ r.text = rows[i].text

(* The same of a vector. *)
VectorOK(i) ==
    vectors[i] # NoVector =>
        /\ rows[i] # Unborn
        /\ Exists(i) => /\ vectors[i].revision <= rows[i].revision
                        /\ Found(i) => vectors[i] = VectorOf(rows[i])

VectorInv ==
    /\ \A x \in Indexer : \A i \in DOMAIN pending[x] : i \in Born /\ ReadOK(i, pending[x][i])
    /\ \A i \in Id : VectorOK(i)


USE RowsAssumption, WrittenAssumption, TextsAssumption, FaultsAssumption, KindsAssumption,
    OldAssumption, PageAssumption
USE DEF Id

-----------------------------------------------------------------------------
(* Rows and the values that stand for no row. *)
LEMMA ExistsRow ==
  ASSUME RowTypes, NEW i \in Id
  PROVE  /\ Exists(i) <=> rows[i] \in AnyRow
         /\ Exists(i) => rows[i] \notin Gone
         /\ rows[i] \in Gone \/ Exists(i)
<1>1. rows[i] \in AnyRow \cup Gone  BY DEF RowTypes
<1>2. rows[i] \in AnyRow => Exists(i)  BY DEF AnyRow, Exists
<1>3. rows[i] \in Gone => ~Exists(i)  BY DEF Gone, Unborn, Deleted, Exists, Lifecycle
<1>. QED  BY <1>1, <1>2, <1>3

LEMMA RowFields ==
  ASSUME NEW r \in AnyRow
  PROVE  /\ r.key \in Key /\ r.kind \in Kind /\ r.text \in BOOLEAN /\ r.revision \in Nat \ {0}
         /\ r.status \in Lifecycle /\ r.value \in BOOLEAN /\ r.indexed \in BOOLEAN
         /\ r \notin Gone
<1>1. r.status \in Lifecycle  BY DEF AnyRow
<1>2. r \notin Gone  BY <1>1 DEF Gone, Unborn, Deleted, Lifecycle
<1>. QED  BY <1>2 DEF AnyRow

(* What each kind of step makes of a row. *)
LEMMA TakeOutRow ==
  ASSUME NEW r \in AnyRow, NEW reason \in Lifecycle
  PROVE  /\ TakeOut(r, reason) \in AnyRow
         /\ TakeOut(r, reason).key = r.key /\ TakeOut(r, reason).kind = r.kind
         /\ TakeOut(r, reason).text = r.text /\ TakeOut(r, reason).value = r.value
         /\ TakeOut(r, reason).revision = r.revision + 1
         /\ TakeOut(r, reason).status = reason /\ TakeOut(r, reason).indexed = FALSE
<1>1. r.revision \in Nat /\ r.revision + 1 \in Nat \ {0}  BY RowFields
<1>2. PICK m \in Nat \ {0} : m = r.revision + 1  BY <1>1
<1>. QED  BY <1>1, <1>2 DEF TakeOut, AnyRow

LEMMA ClearRow ==
  ASSUME NEW r \in AnyRow
  PROVE  /\ Clear(r) \in AnyRow
         /\ Clear(r).key = r.key /\ Clear(r).kind = r.kind /\ Clear(r).text = r.text
         /\ Clear(r).value = FALSE /\ Clear(r).revision = r.revision + 1
         /\ Clear(r).status = r.status /\ Clear(r).indexed = FALSE
<1>1. r.revision \in Nat /\ r.revision + 1 \in Nat \ {0}  BY RowFields
<1>2. PICK m \in Nat \ {0} : m = r.revision + 1  BY <1>1
<1>. QED  BY <1>1, <1>2 DEF Clear, AnyRow

LEMMA MovedRow ==
  ASSUME NEW r \in AnyRow
  PROVE  /\ Moved(r) \in AnyRow
         /\ Moved(r).key = r.key /\ Moved(r).kind = Target /\ Moved(r).text = r.text
         /\ Moved(r).value = r.value /\ Moved(r).revision = r.revision + 1
         /\ Moved(r).status = r.status /\ Moved(r).indexed = FALSE
<1>1. r.revision \in Nat /\ r.revision + 1 \in Nat \ {0}  BY RowFields
<1>2. PICK m \in Nat \ {0} : m = r.revision + 1  BY <1>1
<1>. QED  BY <1>1, <1>2 DEF Moved, AnyRow

LEMMA MarkRow ==
  ASSUME NEW r \in AnyRow
  PROVE  LET s == [r EXCEPT !.indexed = TRUE]
         IN  /\ s \in AnyRow
             /\ s.key = r.key /\ s.kind = r.kind /\ s.text = r.text /\ s.value = r.value
             /\ s.revision = r.revision /\ s.status = r.status /\ s.indexed = TRUE
BY DEF AnyRow

(* A row changes its key, its text and (but for a move) its kind never; a  *)
(* change of anything else that is read raises the revision and unmarks it.*)
Forward(r, s) ==
    /\ r \in AnyRow /\ s \in AnyRow
    /\ s.key = r.key /\ s.text = r.text /\ s.kind = r.kind
    /\ s.value => r.value
    /\ s.status = "active" => r.status = "active"
    /\ r.revision <= s.revision
    /\ s.revision - Steps(s) <= r.revision - Steps(r)
    /\ s.revision = r.revision => s.status = r.status /\ s.value = r.value
    /\ s.revision # r.revision => ~s.indexed

LEMMA EdgeForward ==
  ASSUME NEW r \in AnyRow \cup Gone, NEW s, Edge(r, s)
  PROVE  /\ s \in AnyRow \cup Gone
         /\ s \in AnyRow => Forward(r, s)
         /\ s = Unborn <=> r = Unborn
<1>0. Deleted \in Gone /\ Unborn \in Gone /\ Deleted # Unborn
  BY DEF Gone, Deleted, Unborn
<1>1. \A t \in AnyRow : t \notin Gone  BY RowFields
<1>2. CASE s = r
  <2>1. r \in AnyRow => Forward(r, r)
    <3>. SUFFICES ASSUME r \in AnyRow PROVE Forward(r, r)
      OBVIOUS
    <3>1. r.revision \in Nat  BY RowFields
    <3>2. Steps(r) \in 0..2  BY DEF Steps, Bit
    <3>. QED  BY <3>1, <3>2 DEF Forward
  <2>. QED  BY <1>1, <1>2, <2>1
<1>3. CASE r \in AnyRow /\ TakenOut(r, s)
  <2>1. PICK reason \in Lifecycle \ {"active"} : s = TakeOut(r, reason)  BY <1>3 DEF TakenOut
  <2>2. r.revision \in Nat /\ r.status = "active"  BY <1>3, RowFields DEF TakenOut
  <2>3. s \in AnyRow /\ s.key = r.key /\ s.kind = r.kind /\ s.text = r.text /\ s.value = r.value
        /\ s.revision = r.revision + 1 /\ s.status = reason /\ s.indexed = FALSE
    BY <1>3, <2>1, TakeOutRow
  <2>4. Forward(r, s)  BY <1>3, <2>2, <2>3 DEF Forward, Steps, Bit
  <2>. QED  BY <1>0, <1>1, <1>3, <2>3, <2>4
<1>4. CASE r \in AnyRow /\ Cleaned(r, s)
  <2>1. s \in AnyRow /\ s.key = r.key /\ s.kind = r.kind /\ s.text = r.text /\ s.value = FALSE
        /\ s.revision = r.revision + 1 /\ s.status = r.status /\ s.indexed = FALSE
    BY <1>4, ClearRow DEF Cleaned
  <2>2. r.revision \in Nat /\ r.value = TRUE  BY <1>4, RowFields DEF Cleaned
  <2>3. Steps(s) = 2 /\ Steps(r) = 1  BY <1>4, <2>1, <2>2 DEF Cleaned, Steps, Bit
  <2>4. Forward(r, s)  BY <1>4, <2>1, <2>2, <2>3 DEF Forward
  <2>. QED  BY <1>0, <1>1, <1>4, <2>1, <2>4
<1>5. CASE r \in AnyRow /\ Removed(r, s)
  BY <1>0, <1>1, <1>5 DEF Removed
<1>6. CASE r \in AnyRow /\ Marked(r, s)
  <2>1. s \in AnyRow /\ s.key = r.key /\ s.kind = r.kind /\ s.text = r.text /\ s.value = r.value
        /\ s.revision = r.revision /\ s.status = r.status /\ s.indexed = TRUE
    BY <1>6, MarkRow DEF Marked
  <2>2. r.revision \in Nat  BY <1>6, RowFields
  <2>3. Steps(r) = Steps(s) /\ Steps(r) \in 0..2  BY <2>1 DEF Steps, Bit
  <2>4. Forward(r, s)  BY <1>6, <2>1, <2>2, <2>3 DEF Forward
  <2>. QED  BY <1>0, <1>1, <1>6, <2>1, <2>4
<1>. QED  BY <1>2, <1>3, <1>4, <1>5, <1>6 DEF Edge, Quiet

(* A set of numbers that is not empty has a least member. *)
LEMMA LeastMember ==
  ASSUME NEW S \in SUBSET Nat, S # {}
  PROVE  \E i \in S : \A j \in S : i <= j
<1>. DEFINE R == {ss \in Nat \X Nat : ss[1] < ss[2]}
<1>1. IsWellFoundedOn(R, Nat)  BY NatLessThanWellFounded DEF OpToRel
<1>. HIDE DEF R
<1>2. PICK i \in S : \A j \in S : ~(<<j, i>> \in R)  BY <1>1, WFMin
<1>3. ASSUME NEW j \in S PROVE i <= j
  <2>1. i \in Nat /\ j \in Nat /\ ~(<<j, i>> \in R)  BY <1>2
  <2>2. ~(j < i)  BY <2>1 DEF R
  <2>. QED  BY <2>1, <2>2
<1>. QED  BY <1>2, <1>3

-----------------------------------------------------------------------------
LEMMA Counts ==
  /\ IsFiniteSet(Id) /\ Cardinality(Id) = MaxRows
  /\ \A S \in SUBSET Id : IsFiniteSet(S) /\ Cardinality(S) \in Nat /\ Cardinality(S) <= MaxRows
<1>1. IsFiniteSet(Id) /\ Cardinality(Id) = MaxRows
  <2>1. 1 \in Int /\ MaxRows \in Int  OBVIOUS
  <2>2. IsFiniteSet(Id) /\ Cardinality(Id) = IF 1 > MaxRows THEN 0 ELSE MaxRows - 1 + 1
    BY <2>1, FS_Interval
  <2>. QED  BY <2>2
<1>. QED  BY <1>1, FS_Subset, FS_CardinalityType

LEMMA BitType == \A b : Bit(b) \in {0, 1}
BY DEF Bit

LEMMA StepsType == \A r : Steps(r) \in 0..2
BY DEF Steps, Bit

LEMMA BornIsCounted == Cardinality(Born) \in Nat /\ Cardinality(Born) <= MaxRows
BY Counts DEF Born

(* The bound on the revisions is the one the types state. *)
LEMMA RevisionBound ==
  ASSUME RowInv, NEW i \in Id, Exists(i)
  PROVE  rows[i] \in AnyRow /\ rows[i].revision \in Revision
<1>1. rows[i] \in AnyRow /\ rows[i] # Unborn  BY ExistsRow DEF RowInv, Gone
<1>2. rows[i].revision \in Nat \ {0}  BY <1>1, RowFields
<1>3. PICK n \in Nat : n = Cardinality(Born) /\ n <= MaxRows /\ n # 0
  <2>1. i \in Born  BY <1>1 DEF Born
  <2>2. Born \subseteq Id  BY DEF Born
  <2>3. IsFiniteSet(Born)  BY <2>2, Counts
  <2>. QED  BY <2>1, <2>3, BornIsCounted, FS_EmptySet
<1>4. rows[i].revision <= 2 * n - 1 + 1 + 2
  BY <1>2, <1>3, BitType, StepsType DEF RowInv, Bounded
<1>. QED  BY <1>1, <1>2, <1>3, <1>4 DEF Revision

(* A step that inserts nothing and moves nothing. *)
LEMMA QuietRows ==
  ASSUME RowInv, NEW f, rows' = [i \in Id |-> f[i]], \A i \in Id : Edge(rows[i], f[i]),
         UNCHANGED <<migrated, moved, swept>>
  PROVE  RowInv'
<1>. USE DEF RowInv
<1>1. ASSUME NEW i \in Id
      PROVE  /\ rows'[i] \in AnyRow \cup Gone
             /\ rows'[i] \in AnyRow => Forward(rows[i], rows'[i])
             /\ rows'[i] = Unborn <=> rows[i] = Unborn
  <2>1. rows[i] \in AnyRow \cup Gone /\ rows'[i] = f[i] /\ Edge(rows[i], f[i])  BY DEF RowTypes
  <2>. QED  BY <2>1, EdgeForward
<1>2. RowTypes'
  <2>. SUFFICES ASSUME NEW i \in Id PROVE f[i] \in AnyRow \cup Gone
    BY DEF RowTypes
  <2>. QED  BY <1>1
<1>3. Born' = Born  BY <1>1 DEF Born
<1>4. ASSUME NEW i \in Id, Exists(i)' PROVE Exists(i) /\ Forward(rows[i], rows'[i])
  <2>1. rows'[i] \in AnyRow
    <3>1. rows'[i] \in Gone => ~Exists(i)'  BY DEF Gone, Unborn, Deleted, Exists, Lifecycle
    <3>. QED  BY <1>1, <1>4, <3>1
  <2>2. Forward(rows[i], rows'[i])  BY <1>1, <2>1
  <2>3. rows[i] \in AnyRow  BY <2>2 DEF Forward
  <2>. QED  BY <2>2, <2>3, ExistsRow
<1>5. OneActive'
  <2>1. \A i \in Id : IsActive(i)' => IsActive(i) /\ rows'[i].key = rows[i].key
    BY <1>4 DEF IsActive, Forward
  <2>. QED  BY <2>1 DEF OneActive
<1>6. ASSUME NEW i \in Id, Exists(i)'
      PROVE  rows'[i].revision <= 2 * Cardinality(Born) - 1 + Bit(i \in moved) + Steps(rows'[i])
  <2>1. Exists(i) /\ Forward(rows[i], rows'[i])  BY <1>4, <1>6
  <2>2. rows[i].revision \in Nat /\ rows'[i].revision \in Nat  BY <2>1, RowFields DEF Forward
  <2>3. rows[i].revision <= 2 * Cardinality(Born) - 1 + Bit(i \in moved) + Steps(rows[i])
    BY <2>1 DEF Bounded
  <2>4. rows'[i].revision - Steps(rows'[i]) <= rows[i].revision - Steps(rows[i])
    BY <2>1 DEF Forward
  <2>5. Cardinality(Born) \in Nat /\ Bit(i \in moved) \in {0, 1}
        /\ Steps(rows[i]) \in 0..2 /\ Steps(rows'[i]) \in 0..2
    BY BornIsCounted, BitType, StepsType
  <2>. QED  BY <2>2, <2>3, <2>4, <2>5
<1>7. Bounded'  BY <1>3, <1>6 DEF Bounded
<1>8. moved \subseteq Id /\ swept \subseteq Id  BY DEF MovedOK, SweptOK, Born
<1>9. MovedOK'  BY <1>3, <1>4, <1>8 DEF MovedOK, Forward
<1>10. SweptOK'
  <2>. SUFFICES ASSUME NEW i \in swept, Exists(i)', rows'[i].kind = Source PROVE ~rows'[i].value
    BY <1>3 DEF SweptOK
  <2>1. Exists(i) /\ Forward(rows[i], rows'[i])  BY <1>4, <1>8
  <2>. QED  BY <2>1 DEF SweptOK, Forward
<1>. QED  BY <1>2, <1>5, <1>7, <1>9, <1>10

(* A write inserts a row above the one it replaces. *)
LEMMA PutRows ==
  ASSUME RowInv, NEW k \in Key, NEW kind \in Written, NEW text \in Texts, PutMemory(k, kind, text),
         UNCHANGED <<migrated, moved, swept>>
  PROVE  RowInv'
<1>. USE DEF RowInv
<1>0. kind \in Kind /\ text \in BOOLEAN  OBVIOUS
<1>1. PICK n \in Nat : n = Cardinality(Born)  BY BornIsCounted
<1>2. PICK old \in SUBSET Id, m \in Nat \ {0}, i \in Id :
        /\ rows[i] = Unborn
        /\ \A j \in Id : j \in old <=> IsActive(j) /\ rows[j].key = k
        /\ m <= 2 * n + 1
        /\ rows' = [j \in Id |->
             IF j = i THEN [key |-> k, kind |-> kind, text |-> text, status |-> "active",
                            revision |-> m, value |-> TRUE, indexed |-> FALSE]
             ELSE IF j \in old THEN TakeOut(rows[j], "superseded") ELSE rows[j]]
  <2>. DEFINE m == IF Active(k) = {} THEN 1 ELSE 1 + rows[CHOOSE j \in Active(k) : TRUE].revision
  <2>1. m \in Nat \ {0} /\ m <= 2 * n + 1
    <3>1. CASE Active(k) = {}  BY <1>1, <3>1
    <3>2. CASE Active(k) # {}
      <4>1. PICK j \in Active(k) : j = CHOOSE jj \in Active(k) : TRUE  BY <3>2
      <4>2. j \in Id /\ Exists(j) /\ rows[j].status = "active"  BY DEF Active
      <4>3. rows[j].revision \in Nat \ {0}  BY <4>2, ExistsRow, RowFields
      <4>4. rows[j].revision <= 2 * n - 1 + Bit(j \in moved) + 0
        BY <1>1, <4>2 DEF Bounded, Steps
      <4>5. Bit(j \in moved) \in {0, 1}  BY BitType
      <4>6. rows[j].revision <= 2 * n  BY <1>1, <4>3, <4>4, <4>5
      <4>7. m = 1 + rows[j].revision  BY <3>2, <4>1
      <4>. QED  BY <1>1, <4>3, <4>6, <4>7
    <3>. QED  BY <3>1, <3>2
  <2>2. Active(k) \in SUBSET Id /\ \A j \in Id : j \in Active(k) <=> IsActive(j) /\ rows[j].key = k
    BY DEF Active, IsActive
  <2>3. PICK i \in Id :
        /\ rows[i] = Unborn
        /\ rows' = [j \in Id |->
             IF j = i THEN [key |-> k, kind |-> kind, text |-> text, status |-> "active",
                            revision |-> m, value |-> TRUE, indexed |-> FALSE]
             ELSE IF j \in Active(k) THEN TakeOut(rows[j], "superseded") ELSE rows[j]]
    BY DEF PutMemory
  <2>. HIDE DEF m
  <2>. QED  BY <2>1, <2>2, <2>3
<1>3. /\ rows'[i] \in AnyRow /\ rows'[i].key = k /\ rows'[i].status = "active"
      /\ rows'[i].revision = m /\ rows'[i].value = TRUE /\ rows'[i].indexed = FALSE
  BY <1>0, <1>2 DEF AnyRow, Lifecycle
<1>4. ASSUME NEW j \in Id, j # i
      PROVE  /\ rows'[j] \in AnyRow \cup Gone
             /\ rows'[j] \in AnyRow => Forward(rows[j], rows'[j])
             /\ rows'[j] = Unborn <=> rows[j] = Unborn
             /\ j \in old => rows'[j] \in AnyRow /\ rows'[j].status = "superseded"
             /\ j \notin old => rows'[j] = rows[j]
  <2>1. rows[j] \in AnyRow \cup Gone  BY DEF RowTypes
  <2>2. CASE j \notin old
    <3>1. rows'[j] = rows[j]  BY <1>2, <1>4, <2>2
    <3>2. Edge(rows[j], rows'[j])  BY <3>1 DEF Edge, Quiet
    <3>. QED  BY <2>1, <2>2, <3>1, <3>2, EdgeForward
  <2>3. CASE j \in old
    <3>1. rows'[j] = TakeOut(rows[j], "superseded")  BY <1>2, <1>4, <2>3
    <3>2. rows[j] \in AnyRow /\ rows[j].status = "active"  BY <1>2, <2>3, ExistsRow DEF IsActive
    <3>3. "superseded" \in Lifecycle \ {"active"}  BY DEF Lifecycle
    <3>4. TakenOut(rows[j], rows'[j])  BY <3>1, <3>2, <3>3 DEF TakenOut
    <3>5. Edge(rows[j], rows'[j])  BY <3>2, <3>4 DEF Edge, Quiet
    <3>6. rows'[j] \in AnyRow /\ rows'[j].status = "superseded"
      <4>1. "superseded" \in Lifecycle  BY DEF Lifecycle
      <4>2. \A r \in AnyRow : TakeOut(r, "superseded") \in AnyRow
                              /\ TakeOut(r, "superseded").status = "superseded"
        BY <4>1, TakeOutRow
      <4>. QED  BY <3>1, <3>2, <4>2
    <3>. QED  BY <2>1, <2>3, <3>5, <3>6, EdgeForward
  <2>. QED  BY <2>2, <2>3
<1>5. rows'[i] # Unborn  BY <1>3, RowFields DEF Gone
<1>6. RowTypes'
  <2>1. rows' = [j \in Id |-> rows'[j]]  BY <1>2
  <2>2. \A j \in Id : rows'[j] \in AnyRow \cup Gone  BY <1>3, <1>4
  <2>. QED  BY <2>1, <2>2 DEF RowTypes
<1>7. Born' = Born \cup {i} /\ i \notin Born  BY <1>2, <1>4, <1>5 DEF Born
<1>8. Cardinality(Born') = n + 1
  <2>1. Born \subseteq Id  BY DEF Born
  <2>2. IsFiniteSet(Born)  BY <2>1, Counts
  <2>. QED  BY <1>1, <1>7, <2>2, FS_AddElement
<1>9. ASSUME NEW j \in Id, Exists(j)', j # i PROVE Exists(j) /\ Forward(rows[j], rows'[j])
  <2>1. rows'[j] \in AnyRow
    <3>1. rows'[j] \in Gone => ~Exists(j)'  BY DEF Gone, Unborn, Deleted, Exists, Lifecycle
    <3>. QED  BY <1>4, <1>9, <3>1
  <2>2. Forward(rows[j], rows'[j])  BY <1>4, <1>9, <2>1
  <2>3. rows[j] \in AnyRow  BY <2>2 DEF Forward
  <2>. QED  BY <2>2, <2>3, ExistsRow
<1>10. OneActive'
  <2>1. \A j \in Id : j # i /\ IsActive(j)' => IsActive(j) /\ rows'[j].key = rows[j].key
    BY <1>9 DEF IsActive, Forward
  <2>2. \A j \in Id : j # i /\ IsActive(j)' => rows'[j].key # k
    <3>. SUFFICES ASSUME NEW j \in Id, j # i, IsActive(j)', rows'[j].key = k PROVE FALSE
      OBVIOUS
    <3>1. j \in old  BY <1>2, <2>1
    <3>2. rows'[j].status = "superseded"  BY <1>4, <3>1
    <3>. QED  BY <3>2 DEF IsActive
  <2>. QED  BY <1>3, <2>1, <2>2 DEF OneActive
<1>11. ASSUME NEW j \in Id, Exists(j)'
       PROVE  rows'[j].revision <= 2 * (n + 1) - 1 + Bit(j \in moved) + Steps(rows'[j])
  <2>0. Bit(j \in moved) \in {0, 1} /\ Steps(rows[j]) \in 0..2 /\ Steps(rows'[j]) \in 0..2
    BY BitType, StepsType
  <2>1. CASE j = i  BY <1>2, <1>3, <2>0, <2>1
  <2>2. CASE j # i
    <3>1. Exists(j) /\ Forward(rows[j], rows'[j])  BY <1>9, <1>11, <2>2
    <3>2. rows[j].revision \in Nat /\ rows'[j].revision \in Nat  BY <3>1, RowFields DEF Forward
    <3>3. rows[j].revision <= 2 * n - 1 + Bit(j \in moved) + Steps(rows[j])
      BY <1>1, <3>1 DEF Bounded
    <3>4. rows'[j].revision - Steps(rows'[j]) <= rows[j].revision - Steps(rows[j])
      BY <3>1 DEF Forward
    <3>. QED  BY <2>0, <3>2, <3>3, <3>4
  <2>. QED  BY <2>1, <2>2
<1>12. Bounded'  BY <1>8, <1>11 DEF Bounded
<1>13. i \notin moved /\ i \notin swept /\ moved \subseteq Id /\ swept \subseteq Id
  BY <1>7 DEF MovedOK, SweptOK, Born
<1>14. MovedOK'  BY <1>7, <1>9, <1>13 DEF MovedOK, Forward
<1>15. SweptOK'
  <2>. SUFFICES ASSUME NEW j \in swept, Exists(j)', rows'[j].kind = Source PROVE ~rows'[j].value
    BY <1>7 DEF SweptOK
  <2>1. Exists(j) /\ Forward(rows[j], rows'[j])  BY <1>9, <1>13
  <2>. QED  BY <2>1 DEF SweptOK, Forward
<1>. QED  BY <1>6, <1>10, <1>12, <1>14, <1>15

(* A row of the source kind moves and is counted. *)
LEMMA MoveRows ==
  ASSUME RowInv, NEW i \in Id, Exists(i), rows[i].kind = Source,
         rows' = [rows EXCEPT ![i] = Moved(rows[i])],
         moved' = moved \cup {i}, migrated' = migrated + 1, UNCHANGED swept
  PROVE  RowInv'
<1>. USE DEF RowInv
<1>1. rows[i] \in AnyRow /\ rows[i] # Unborn /\ rows[i].revision \in Nat
  BY ExistsRow, RowFields DEF Gone
<1>2. /\ rows'[i] \in AnyRow /\ rows'[i].key = rows[i].key /\ rows'[i].kind = Target
      /\ rows'[i].value = rows[i].value /\ rows'[i].status = rows[i].status
      /\ rows'[i].revision = rows[i].revision + 1
  BY <1>1, MovedRow DEF RowTypes
<1>3. \A j \in Id : j # i => rows'[j] = rows[j]  BY DEF RowTypes
<1>4. RowTypes'
  <2>1. Moved(rows[i]) \in AnyRow \cup Gone  BY <1>1, MovedRow
  <2>. QED  BY <2>1 DEF RowTypes
<1>5. Exists(i)' /\ rows'[i] # Unborn
  <2>1. rows'[i].status \in Lifecycle  BY <1>2, RowFields
  <2>2. rows'[i] # Unborn  BY <1>2, RowFields DEF Gone
  <2>. QED  BY <2>1, <2>2 DEF Exists
<1>6. \A j \in Id : Exists(j)' <=> Exists(j)
  <2>1. \A j \in Id : j # i => (Exists(j)' <=> Exists(j))  BY <1>3 DEF Exists
  <2>. QED  BY <1>5, <2>1
<1>7. Born' = Born /\ i \in Born  BY <1>1, <1>3, <1>5 DEF Born
<1>8. OneActive'  BY <1>2, <1>3, <1>6 DEF OneActive, IsActive
<1>9. i \notin moved  BY DEF MovedOK
<1>10. ASSUME NEW j \in Id, Exists(j)'
       PROVE  rows'[j].revision <= 2 * Cardinality(Born) - 1 + Bit(j \in moved') + Steps(rows'[j])
  <2>1. rows[j].revision <= 2 * Cardinality(Born) - 1 + Bit(j \in moved) + Steps(rows[j])
    BY <1>6, <1>10 DEF Bounded
  <2>2. CASE j # i  BY <1>3, <2>1, <2>2 DEF Bit
  <2>3. CASE j = i
    <3>1. Steps(rows'[i]) = Steps(rows[i])  BY <1>2 DEF Steps
    <3>2. Bit(i \in moved) = 0 /\ Bit(i \in moved') = 1  BY <1>9 DEF Bit
    <3>3. Cardinality(Born) \in Nat /\ Steps(rows[i]) \in 0..2  BY BornIsCounted, StepsType
    <3>. QED  BY <1>1, <1>2, <2>1, <2>3, <3>1, <3>2, <3>3
  <2>. QED  BY <2>2, <2>3
<1>11. Bounded'  BY <1>7, <1>10 DEF Bounded
<1>12. MovedOK'
  <2>1. moved \subseteq Id  BY DEF MovedOK, Born
  <2>2. IsFiniteSet(moved)  BY <2>1, Counts
  <2>3. Cardinality(moved') = Cardinality(moved) + 1  BY <1>9, <2>2, FS_AddElement
  <2>4. \A j \in moved' : Exists(j)' => rows'[j].kind = Target
    BY <1>2, <1>3, <1>6, <2>1 DEF MovedOK
  <2>. QED  BY <1>7, <2>3, <2>4 DEF MovedOK
<1>13. SweptOK'
  <2>1. swept \subseteq Id  BY DEF SweptOK, Born
  <2>. QED  BY <1>2, <1>3, <1>6, <1>7, <2>1 DEF SweptOK
<1>. QED  BY <1>4, <1>8, <1>11, <1>12, <1>13

-----------------------------------------------------------------------------
(* Every other action of EpisodicMemory moves each row so, but for the mark of the indexer. *)
QuietOnly == \E f : rows' = [i \in Id |-> f[i]] /\ \A i \in Id : Quiet(rows[i], f[i])

EdgesOnly == \E f : rows' = [i \in Id |-> f[i]] /\ \A i \in Id : Edge(rows[i], f[i])

LEMMA QuietEdges == ASSUME QuietOnly PROVE EdgesOnly
BY DEF QuietOnly, EdgesOnly, Edge

LEMMA QuietKinds ==
  ASSUME NEW r
  PROVE  /\ Quiet(r, r)
         /\ r \in AnyRow /\ r.status = "active" =>
              \A reason \in {"superseded", "archived", "expired"} : Quiet(r, TakeOut(r, reason))
         /\ r \in AnyRow => Quiet(r, Deleted)
<1>1. {"superseded", "archived", "expired"} \subseteq Lifecycle \ {"active"}  BY DEF Lifecycle
<1>. QED  BY <1>1 DEF Quiet, TakenOut, Removed

LEMMA KeptRows == ASSUME RowTypes, UNCHANGED rows PROVE QuietOnly
<1>1. rows' = [i \in Id |-> rows[i]]  BY DEF RowTypes
<1>. QED  BY <1>1, QuietKinds DEF QuietOnly

LEMMA ArchiveQuiet ==
  ASSUME RowTypes, NEW k \in Key, ArchiveMemory(k) PROVE QuietOnly
<1>. DEFINE f == [j \in Id |-> IF j \in Active(k) THEN TakeOut(rows[j], "archived") ELSE rows[j]]
<1>1. rows' = [i \in Id |-> f[i]]  BY DEF ArchiveMemory
<1>2. ASSUME NEW i \in Id PROVE Quiet(rows[i], f[i])
  <2>1. i \in Active(k) => rows[i] \in AnyRow /\ rows[i].status = "active"  BY ExistsRow DEF Active
  <2>. QED  BY <2>1, QuietKinds
<1>. HIDE DEF f
<1>. QED  BY <1>1, <1>2 DEF QuietOnly

LEMMA ForceDeleteQuiet ==
  ASSUME RowTypes, NEW k \in Id, AdminForceDeleteMemory(k) PROVE QuietOnly
<1>. DEFINE f == [j \in Id |-> IF j = k THEN Deleted ELSE rows[j]]
<1>1. rows' = [i \in Id |-> f[i]]  BY DEF AdminForceDeleteMemory, RowTypes
<1>2. ASSUME NEW i \in Id PROVE Quiet(rows[i], f[i])
  <2>1. rows[k] \in AnyRow  BY ExistsRow DEF AdminForceDeleteMemory
  <2>. QED  BY <2>1, QuietKinds
<1>. HIDE DEF f
<1>. QED  BY <1>1, <1>2 DEF QuietOnly

LEMMA ExpireQuiet ==
  ASSUME RowTypes, NEW S \in SUBSET Id, ExpireMemories(S) PROVE QuietOnly
<1>. DEFINE f == [j \in Id |-> IF j \in S THEN TakeOut(rows[j], "expired") ELSE rows[j]]
<1>1. rows' = [i \in Id |-> f[i]]  BY DEF ExpireMemories
<1>2. ASSUME NEW i \in Id PROVE Quiet(rows[i], f[i])
  <2>1. i \in S => rows[i] \in AnyRow /\ rows[i].status = "active"  BY ExistsRow DEF ExpireMemories
  <2>. QED  BY <2>1, QuietKinds
<1>. HIDE DEF f
<1>. QED  BY <1>1, <1>2 DEF QuietOnly

LEMMA EvictQuiet ==
  ASSUME RowTypes, HardDeleteEvictableUpdates PROVE QuietOnly
<1>. DEFINE f == [j \in Id |-> IF j \in EvictableUpdates THEN Deleted ELSE rows[j]]
<1>1. rows' = [i \in Id |-> f[i]]  BY DEF HardDeleteEvictableUpdates
<1>2. ASSUME NEW i \in Id PROVE Quiet(rows[i], f[i])
  <2>1. i \in EvictableUpdates => rows[i] \in AnyRow /\ rows[i].status = "superseded" /\ rows[i].indexed
    BY ExistsRow DEF EvictableUpdates
  <2>. QED  BY <2>1, QuietKinds DEF Quiet, Removed
<1>. HIDE DEF f
<1>. QED  BY <1>1, <1>2 DEF QuietOnly

LEMMA TombstoneQuiet ==
  ASSUME RowTypes, TombstoneDeletedMemories PROVE QuietOnly
<1>. DEFINE f == [j \in Id |-> IF j \in Cleared THEN Clear(rows[j]) ELSE rows[j]]
<1>1. rows' = [i \in Id |-> f[i]]  BY DEF TombstoneDeletedMemories, Clear
<1>2. ASSUME NEW i \in Id PROVE Quiet(rows[i], f[i])
  <2>1. i \in Cleared => /\ rows[i] \in AnyRow /\ rows[i].status \in {"archived", "expired"}
                         /\ rows[i].indexed /\ rows[i].value
    BY ExistsRow DEF Cleared
  <2>. QED  BY <2>1, QuietKinds DEF Quiet, Cleaned
<1>. HIDE DEF f
<1>. QED  BY <1>1, <1>2 DEF QuietOnly

LEMMA RetentionQuiet ==
  ASSUME RowTypes, NEW S \in SUBSET Id, HardDeleteExpiredTombstones(S) PROVE QuietOnly
<1>. DEFINE f == [i \in Id |-> IF i \in S THEN Deleted ELSE rows[i]]
<1>1. rows' = [i \in Id |-> f[i]]  BY DEF HardDeleteExpiredTombstones
<1>2. ASSUME NEW i \in Id PROVE Quiet(rows[i], f[i])
  <2>1. i \in S => rows[i] \in AnyRow /\ ~rows[i].value  BY ExistsRow DEF HardDeleteExpiredTombstones
  <2>. QED  BY <2>1, QuietKinds DEF Quiet, Removed
<1>. HIDE DEF f
<1>. QED  BY <1>1, <1>2 DEF QuietOnly

LEMMA IndexEdges ==
  ASSUME RowTypes, NEW x \in Indexer, NEW k \in Id, IndexRow(x, k) PROVE EdgesOnly
<1>1. CASE UNCHANGED rows  BY <1>1, KeptRows, QuietEdges
<1>2. CASE Exists(k) /\ rows' = [rows EXCEPT ![k].indexed = TRUE]
  <2>. DEFINE f == [j \in Id |-> IF j = k THEN [rows[j] EXCEPT !.indexed = TRUE] ELSE rows[j]]
  <2>1. rows' = [i \in Id |-> f[i]]  BY <1>2 DEF RowTypes
  <2>2. ASSUME NEW i \in Id PROVE Edge(rows[i], f[i])
    <3>1. rows[k] \in AnyRow  BY <1>2, ExistsRow
    <3>. QED  BY <3>1, QuietKinds DEF Edge, Marked
  <2>. HIDE DEF f
  <2>. QED  BY <2>1, <2>2 DEF EdgesOnly
<1>. QED  BY <1>1, <1>2 DEF IndexRow, SetIndexed

(* A step of the memories other than a write or one of an indexer. *)
MemoryQuiet ==
    \/ \E k \in Key : ArchiveMemory(k)
    \/ \E i \in Id : AdminForceDeleteMemory(i)
    \/ \E S \in SUBSET Id : ExpireMemories(S) \/ HardDeleteExpiredTombstones(S)
    \/ HardDeleteEvictableUpdates
    \/ TombstoneDeletedMemories

LEMMA MemoryQuietRows ==
  ASSUME RowTypes, MemoryQuiet PROVE QuietOnly /\ UNCHANGED <<vectors, pending, faults>>
<1>1. CASE \E k \in Key : ArchiveMemory(k)  BY <1>1, ArchiveQuiet DEF ArchiveMemory
<1>2. CASE \E i \in Id : AdminForceDeleteMemory(i)  BY <1>2, ForceDeleteQuiet DEF AdminForceDeleteMemory
<1>3. CASE \E S \in SUBSET Id : ExpireMemories(S) \/ HardDeleteExpiredTombstones(S)
  BY <1>3, ExpireQuiet, RetentionQuiet DEF ExpireMemories, HardDeleteExpiredTombstones
<1>4. CASE HardDeleteEvictableUpdates  BY <1>4, EvictQuiet DEF HardDeleteEvictableUpdates
<1>5. CASE TombstoneDeletedMemories  BY <1>5, TombstoneQuiet DEF TombstoneDeletedMemories
<1>. QED  BY <1>1, <1>2, <1>3, <1>4, <1>5, Zenon DEF MemoryQuiet

(* A step of the memories keeps the rows as they must be. *)
LEMMA MemoryRows ==
  ASSUME RowInv, MemoryNext, UNCHANGED migrationVars PROVE RowInv'
<1>0. RowTypes /\ UNCHANGED <<migrated, moved, swept>>  BY DEF RowInv, migrationVars
<1>1. EdgesOnly => RowInv'  BY <1>0, QuietRows DEF EdgesOnly
<1>2. CASE \E k \in Key, kind \in Written, text \in Texts : PutMemory(k, kind, text)
  BY <1>0, <1>2, PutRows
<1>3. CASE MemoryQuiet  BY <1>0, <1>1, <1>3, MemoryQuietRows, QuietEdges
<1>4. CASE \E x \in Indexer : \E i \in Id : IndexRow(x, i)  BY <1>0, <1>1, <1>4, IndexEdges
<1>5. CASE \E x \in Indexer : \/ FindMemoriesPendingIndexing(x)
                              \/ IndexerRestarts(x)
                              \/ \E i \in Id : IndexFails(x, i)
  <2>1. UNCHANGED rows  BY <1>5 DEF FindMemoriesPendingIndexing, IndexerRestarts, IndexFails
  <2>. QED  BY <1>0, <1>1, <2>1, KeptRows, QuietEdges
<1>. QED  BY <1>2, <1>3, <1>4, <1>5, Zenon DEF MemoryNext, MemoryQuiet

-----------------------------------------------------------------------------
LEMMA NoPage == DOMAIN << >> = {} /\ << >> \in Pages
<1>1. DOMAIN << >> = {}  OBVIOUS
<1>2. << >> \in [{} -> Candidates]  OBVIOUS
<1>3. {} \in SUBSET Id  OBVIOUS
<1>. QED  BY <1>1, <1>2, <1>3 DEF Pages

LEMMA BusyBatch ==
  ASSUME TaskInv, NEW p \in Processor
  PROVE  /\ Busy(p) <=> proc[p] \in Batch
         /\ ~Busy(p) <=> proc[p] = Idle
<1>1. proc[p] \in Batch \cup {Idle}  BY DEF TaskInv, ProcOK
<1>2. proc[p] \in Batch => Busy(p)  BY DEF Batch, Places, Busy, At
<1>3. proc[p] = Idle => ~Busy(p)  BY DEF Idle, Busy, At
<1>. QED  BY <1>1, <1>2, <1>3

LEMMA IsDoomed ==
  ASSUME NEW n \in TaskName, NEW p \in Processor, proc[p].at = "done", proc[p].holds, proc[p].task = n
  PROVE  n \in Doomed
BY DEF Doomed, At

(* One processor moves on, tasks are added at most, and a batch that is    *)
(* done has added one, or the migration is over.                           *)
LEMMA StepProc ==
  ASSUME TaskInv, NEW p \in Processor, NEW b \in Batch \cup {Idle},
         proc' = [proc EXCEPT ![p] = b],
         TaskTypes', DOMAIN tasks \subseteq DOMAIN tasks',
         state # "none" => state' # "none",
         state' = "queued" => state = "queued",
         state' \in Unfinished => state \in Unfinished,
         b \in Batch =>
           /\ state' # "none"
           /\ b.at \in {"check", "migrate"} => DOMAIN b.page # {}
           /\ b.at = "enqueue" => b.last \in Id
           /\ b.at \in {"scan", "check", "migrate", "enqueue", "sweep"} => state' # "queued"
           /\ b.holds => b.task \in DOMAIN tasks
           /\ b.at = "done" /\ state' \in Unfinished => \E n \in DOMAIN tasks' : n \notin DOMAIN tasks
  PROVE  TaskInv'
<1>1. DOMAIN proc' = Processor  BY DEF TaskInv
<1>2. proc'[p] = b /\ \A q \in Processor : q # p => proc'[q] = proc[q]  BY DEF TaskInv
<1>3. b = Idle => b.at = "idle"  BY DEF Idle
<1>4. b \in Batch => b.at # "idle" /\ b.task \in TaskName  BY DEF Batch, Places
<1>5. ASSUME NEW q \in Processor PROVE ProcOK(q)'
  <2>1. ProcOK(q)  BY DEF TaskInv
  <2>2. CASE q = p
    <3>1. CASE b = Idle  BY <1>2, <1>3, <2>2, <3>1 DEF ProcOK, Busy, At
    <3>2. CASE b \in Batch  BY <1>2, <2>2, <3>2 DEF ProcOK
    <3>. QED  BY <3>1, <3>2
  <2>3. CASE q # p
    <3>1. proc'[q] = proc[q]  BY <1>2, <2>3
    <3>. QED  BY <2>1, <3>1 DEF ProcOK, Busy, At
  <2>. QED  BY <2>2, <2>3
<1>6. ASSUME NEW n \in Doomed' PROVE n \in DOMAIN tasks /\ (n \in Doomed \/ (b \in Batch /\ b.at = "done"))
  <2>1. PICK q \in Processor : proc'[q].at = "done" /\ proc'[q].holds /\ proc'[q].task = n
    BY DEF Doomed, At
  <2>2. n \in TaskName  BY DEF Doomed
  <2>3. CASE q = p
    <3>1. b \in Batch  BY <1>2, <1>3, <2>1, <2>3
    <3>. QED  BY <1>2, <2>1, <2>3, <3>1
  <2>4. CASE q # p
    <3>1. proc[q].at = "done" /\ proc[q].holds /\ proc[q].task = n  BY <1>2, <2>1, <2>4
    <3>2. n \in DOMAIN tasks  BY <3>1 DEF TaskInv, ProcOK, Busy, At
    <3>3. n \in Doomed  BY <2>2, <3>1, IsDoomed
    <3>. QED  BY <3>2, <3>3
  <2>. QED  BY <2>3, <2>4
<1>7. ASSUME state' \in Unfinished PROVE \E n \in DOMAIN tasks' : n \notin Doomed'
  <2>1. CASE b \in Batch /\ b.at = "done"  BY <1>6, <1>7, <2>1
  <2>2. CASE ~(b \in Batch /\ b.at = "done")
    <3>1. PICK n \in DOMAIN tasks : n \notin Doomed  BY <1>7 DEF TaskInv, ChainGoesOn
    <3>. QED  BY <1>6, <2>2, <3>1
  <2>. QED  BY <2>1, <2>2
<1>8. ChainGoesOn'  BY <1>7 DEF ChainGoesOn
<1>. QED  BY <1>1, <1>5, <1>8 DEF TaskInv

(* The two ways a batch moves on. *)
LEMMA GotoBatch ==
  ASSUME TaskInv, NEW p \in Processor, Busy(p), NEW place \in Places, Goto(p, place)
  PROVE  \E b \in Batch : /\ proc' = [proc EXCEPT ![p] = b]
                          /\ b.at = place /\ b.task = proc[p].task /\ b.holds = proc[p].holds
                          /\ b.page = proc[p].page /\ b.last = proc[p].last
<1>1. proc[p] \in Batch  BY BusyBatch
<1>. DEFINE b == [proc[p] EXCEPT !.at = place]
<1>2. b \in Batch /\ b.at = place /\ b.task = proc[p].task /\ b.holds = proc[p].holds
      /\ b.page = proc[p].page /\ b.last = proc[p].last
  BY <1>1 DEF Batch
<1>3. proc' = [proc EXCEPT ![p] = b]  BY DEF Goto
<1>. HIDE DEF b
<1>. QED  BY <1>2, <1>3

LEMMA EndBatch ==
  ASSUME TaskInv, NEW p \in Processor, Busy(p), NEW place \in Places, End(p, place)
  PROVE  \E b \in Batch : /\ proc' = [proc EXCEPT ![p] = b]
                          /\ b.at = place /\ b.task = proc[p].task /\ b.holds = proc[p].holds
<1>1. proc[p] \in Batch  BY BusyBatch
<1>. DEFINE b == [proc[p] EXCEPT !.at = place, !.page = << >>, !.last = 0]
<1>2. b \in Batch /\ b.at = place /\ b.task = proc[p].task /\ b.holds = proc[p].holds
  BY <1>1, NoPage DEF Batch
<1>3. proc' = [proc EXCEPT ![p] = b]  BY DEF End
<1>. HIDE DEF b
<1>. QED  BY <1>2, <1>3

LEMMA GotoStep ==
  ASSUME TaskInv, NEW p \in Processor, Busy(p), NEW place \in Places \ {"done", "enqueue"},
         Goto(p, place),
         place \in {"check", "migrate"} => DOMAIN proc[p].page # {},
         place \in {"scan", "check", "migrate", "sweep"} => state' # "queued",
         UNCHANGED tasks, TaskTypes', state' # "none", state' = "queued" => state = "queued",
         state' \in Unfinished => state \in Unfinished
  PROVE  TaskInv'
<1>1. PICK b \in Batch : /\ proc' = [proc EXCEPT ![p] = b]
                         /\ b.at = place /\ b.task = proc[p].task /\ b.holds = proc[p].holds
                         /\ b.page = proc[p].page /\ b.last = proc[p].last
  BY GotoBatch
<1>2. b.holds => b.task \in DOMAIN tasks  BY <1>1 DEF TaskInv, ProcOK
<1>. QED  BY <1>1, <1>2, StepProc

LEMMA EndStep ==
  ASSUME TaskInv, NEW p \in Processor, Busy(p), NEW place \in {"done", "error"}, End(p, place),
         DOMAIN tasks \subseteq DOMAIN tasks',
         TaskTypes', state' # "none", state' = "queued" => state = "queued",
         state' \in Unfinished => state \in Unfinished,
         place = "done" /\ state' \in Unfinished => \E n \in DOMAIN tasks' : n \notin DOMAIN tasks
  PROVE  TaskInv'
<1>0. place \in Places  BY DEF Places
<1>1. PICK b \in Batch : /\ proc' = [proc EXCEPT ![p] = b]
                         /\ b.at = place /\ b.task = proc[p].task /\ b.holds = proc[p].holds
  BY <1>0, EndBatch
<1>2. b.holds => b.task \in DOMAIN tasks  BY <1>1 DEF TaskInv, ProcOK
<1>. QED  BY <1>1, <1>2, StepProc

-----------------------------------------------------------------------------
(* The administrator. *)
LEMMA CreateTasks ==
  ASSUME TaskInv, CreateMemoryKindMigrationAndTask PROVE TaskInv'
<1>. USE DEF CreateMemoryKindMigrationAndTask
<1>1. \A p \in Processor : ~Busy(p)  BY DEF TaskInv, ProcOK
<1>2. DOMAIN tasks' = {First} /\ First \in TaskName  BY DEF TaskName
<1>3. TaskTypes'  BY <1>2 DEF TaskTypes, Unfinished
<1>4. \A p \in Processor : ProcOK(p)'  BY <1>1 DEF TaskInv, ProcOK, Busy, At
<1>5. Doomed' = {}  BY <1>1 DEF Doomed, Busy, At
<1>. QED  BY <1>2, <1>3, <1>4, <1>5 DEF TaskInv, ChainGoesOn

LEMMA CancelTasks ==
  ASSUME TaskInv, CancelRequested PROVE TaskInv'
<1>. USE DEF CancelRequested
<1>1. TaskTypes'  BY DEF TaskInv, TaskTypes, Unfinished
<1>2. \A p \in Processor : ProcOK(p)'  BY DEF TaskInv, ProcOK, Busy, At
<1>3. Doomed' = Doomed  BY DEF Doomed, At
<1>. QED  BY <1>1, <1>2, <1>3 DEF TaskInv, ChainGoesOn, Unfinished

(* The task table. *)
LEMMA SetTask ==
  ASSUME TaskInv, NEW n \in DOMAIN tasks, NEW v \in {"ready", "claimed"},
         tasks' = [tasks EXCEPT ![n] = v], UNCHANGED state
  PROVE  TaskTypes' /\ DOMAIN tasks' = DOMAIN tasks
BY DEF TaskInv, TaskTypes

LEMMA ClaimTasks ==
  ASSUME TaskInv, NEW p \in Processor, NEW n \in DOMAIN tasks, ClaimReadyTask(p, n) PROVE TaskInv'
<1>. USE DEF ClaimReadyTask
<1>1. TaskTypes' /\ DOMAIN tasks' = DOMAIN tasks  BY SetTask
<1>2. n \in TaskName /\ state # "none"  BY DEF TaskInv, TaskTypes
<1>. DEFINE b == [at |-> "load", task |-> n, holds |-> TRUE, page |-> << >>, last |-> 0]
<1>3. b \in Batch /\ b.at = "load" /\ b.task = n  BY <1>2, NoPage DEF Batch, Places
<1>4. proc' = [proc EXCEPT ![p] = b]  OBVIOUS
<1>. HIDE DEF b
<1>. QED  BY <1>1, <1>2, <1>3, <1>4, StepProc

LEMMA LapseTasks ==
  ASSUME TaskInv, NEW n \in DOMAIN tasks, ClaimLapses(n) PROVE TaskInv'
<1>. USE DEF ClaimLapses
<1>1. TaskTypes' /\ DOMAIN tasks' = DOMAIN tasks  BY SetTask
<1>2. \A p \in Processor : ProcOK(p)'  BY <1>1 DEF TaskInv, ProcOK, Busy, At
<1>3. Doomed' = Doomed  BY DEF Doomed, At
<1>. QED  BY <1>1, <1>2, <1>3 DEF TaskInv, ChainGoesOn

(* The task that goes was doomed, and another one was not. *)
LEMMA DeleteTasks ==
  ASSUME TaskInv, NEW p \in Processor, DeleteTask(p) PROVE TaskInv'
<1>. USE DEF DeleteTask
<1>0. proc[p] \in Batch /\ Busy(p) /\ proc[p].at = "done"  BY BusyBatch DEF At, Busy
<1>1. PICK n \in TaskName, h \in BOOLEAN : n = proc[p].task /\ h = proc[p].holds  BY <1>0 DEF Batch
<1>2. tasks' = (IF h THEN [m \in DOMAIN tasks \ {n} |-> tasks[m]] ELSE tasks) /\ UNCHANGED state
  BY <1>1 DEF Restrict
<1>3. proc' = [q \in Processor |-> IF q = p THEN Idle
                                   ELSE IF h /\ q \in Holders(n) THEN [proc[q] EXCEPT !.holds = FALSE]
                                   ELSE proc[q]]
  BY <1>1
<1>4. h => n \in Doomed  BY <1>0, <1>1, IsDoomed
<1>5. TaskTypes' /\ DOMAIN tasks' = IF h THEN DOMAIN tasks \ {n} ELSE DOMAIN tasks
  <2>1. DOMAIN tasks' = IF h THEN DOMAIN tasks \ {n} ELSE DOMAIN tasks  BY <1>2
  <2>2. \A m \in DOMAIN tasks' : tasks'[m] = tasks[m]  BY <1>2
  <2>3. tasks' = [m \in DOMAIN tasks' |-> tasks'[m]]  BY <1>2 DEF TaskInv, TaskTypes
  <2>. QED  BY <1>2, <2>1, <2>2, <2>3 DEF TaskInv, TaskTypes
<1>6. ASSUME NEW q \in Processor
      PROVE  \/ proc'[q] = Idle
             \/ proc'[q] = proc[q] /\ ~(h /\ q \in Holders(n))
             \/ proc[q] \in Batch /\ proc'[q] = [proc[q] EXCEPT !.holds = FALSE]
  <2>1. q \in Holders(n) => proc[q] \in Batch  BY BusyBatch DEF Holders
  <2>. QED  BY <1>3, <2>1
<1>7. ASSUME NEW q \in Processor PROVE ProcOK(q)' /\ (proc'[q].at = "done" /\ proc'[q].holds => proc'[q] = proc[q])
  <2>0. ProcOK(q)  BY DEF TaskInv
  <2>1. CASE proc'[q] = Idle  BY <2>1 DEF ProcOK, Busy, At, Idle
  <2>2. CASE proc'[q] = proc[q] /\ ~(h /\ q \in Holders(n))
    <3>1. Busy(q) /\ proc[q].holds => proc[q].task \in DOMAIN tasks'
      BY <1>5, <2>0, <2>2 DEF ProcOK, Holders
    <3>. QED  BY <1>2, <2>0, <2>2, <3>1 DEF ProcOK, Busy, At
  <2>3. CASE proc[q] \in Batch /\ proc'[q] = [proc[q] EXCEPT !.holds = FALSE]
    <3>1. /\ proc'[q] \in Batch /\ proc'[q].at = proc[q].at /\ proc'[q].holds = FALSE
          /\ proc'[q].page = proc[q].page /\ proc'[q].last = proc[q].last
      BY <2>3 DEF Batch
    <3>. QED  BY <1>2, <2>0, <3>1 DEF ProcOK, Busy, At
  <2>. QED  BY <1>6, <2>1, <2>2, <2>3
<1>8. Doomed' \subseteq Doomed
  <2>. SUFFICES ASSUME NEW m \in Doomed' PROVE m \in Doomed
    OBVIOUS
  <2>1. PICK q \in Processor : proc'[q].at = "done" /\ proc'[q].holds /\ proc'[q].task = m
    BY DEF Doomed, At
  <2>2. proc'[q] = proc[q] /\ m \in TaskName  BY <1>7, <2>1 DEF Doomed
  <2>. QED  BY <2>1, <2>2, IsDoomed
<1>9. ChainGoesOn'
  <2>. SUFFICES ASSUME state \in Unfinished PROVE \E m \in DOMAIN tasks' : m \notin Doomed'
    BY <1>2 DEF ChainGoesOn
  <2>1. PICK m \in DOMAIN tasks : m \notin Doomed  BY DEF TaskInv, ChainGoesOn
  <2>2. m \in DOMAIN tasks'  BY <1>4, <1>5, <2>1
  <2>. QED  BY <1>8, <2>1, <2>2
<1>10. DOMAIN proc' = Processor  BY <1>3
<1>. QED  BY <1>5, <1>7, <1>9, <1>10 DEF TaskInv

LEMMA IdleStep ==
  ASSUME TaskInv, NEW p \in Processor, proc' = [proc EXCEPT ![p] = Idle],
         TaskTypes', DOMAIN tasks' = DOMAIN tasks, UNCHANGED state
  PROVE  TaskInv'
<1>1. Idle \notin Batch  BY DEF Idle, Batch, Places
<1>. QED  BY <1>1, StepProc

LEMMA FailTasks ==
  ASSUME TaskInv, NEW p \in Processor, FailTask(p) PROVE TaskInv'
<1>. USE DEF FailTask
<1>1. CASE proc[p].holds
  <2>1. proc[p].task \in DOMAIN tasks  BY <1>1 DEF TaskInv, ProcOK, Busy, At
  <2>2. TaskTypes' /\ DOMAIN tasks' = DOMAIN tasks  BY <1>1, <2>1, SetTask
  <2>. QED  BY <2>2, IdleStep
<1>2. CASE ~proc[p].holds
  <2>1. TaskTypes' /\ DOMAIN tasks' = DOMAIN tasks  BY <1>2 DEF TaskInv, TaskTypes
  <2>. QED  BY <2>1, IdleStep
<1>. QED  BY <1>1, <1>2

LEMMA StopTasks ==
  ASSUME TaskInv, NEW p \in Processor, ProcessorStops(p) PROVE TaskInv'
<1>1. TaskTypes' /\ DOMAIN tasks' = DOMAIN tasks  BY DEF ProcessorStops, TaskInv, TaskTypes
<1>. QED  BY <1>1, IdleStep DEF ProcessorStops

-----------------------------------------------------------------------------
(* The steps of a batch. *)
LEMMA SomeState ==
  ASSUME TaskInv, NEW p \in Processor, Busy(p)
  PROVE  state \in Terminal \cup {"queued", "running", "canceling"} /\ state # "none"
BY DEF TaskInv, ProcOK, TaskTypes, Unfinished

LEMMA KeptTasks ==
  ASSUME TaskInv, UNCHANGED tasks, state # "none", state' \in Unfinished \cup Terminal
  PROVE  TaskTypes' /\ state' # "none"
BY DEF TaskInv, TaskTypes, Unfinished, Terminal

LEMMA BatchFailsTasks ==
  ASSUME TaskInv, NEW p \in Processor, BatchFails(p) PROVE TaskInv'
<1>. USE DEF BatchFails
<1>1. Busy(p) /\ state # "none" /\ state \in Unfinished \cup Terminal  BY SomeState DEF Unfinished
<1>2. TaskTypes'  BY <1>1, KeptTasks
<1>. QED  BY <1>1, <1>2, EndStep

LEMMA LoadTasks ==
  ASSUME TaskInv, NEW p \in Processor, Load(p) PROVE TaskInv'
<1>. USE DEF Load
<1>1. Busy(p)  BY DEF At, Busy
<1>2. state # "none" /\ state \in Terminal \cup {"queued", "running", "canceling"}  BY <1>1, SomeState
<1>3. TaskTypes'  BY <1>2, KeptTasks DEF Unfinished
<1>4. CASE state \in Terminal
  <2>1. Goto(p, "done")  BY <1>4 DEF Terminal
  <2>2. "done" \in Places  BY DEF Places
  <2>3. PICK b \in Batch : /\ proc' = [proc EXCEPT ![p] = b]
                           /\ b.at = "done" /\ b.task = proc[p].task /\ b.holds = proc[p].holds
    BY <1>1, <2>1, <2>2, GotoBatch
  <2>4. b.holds => b.task \in DOMAIN tasks  BY <1>1, <2>3 DEF TaskInv, ProcOK
  <2>5. state \notin Unfinished  BY <1>4 DEF Terminal, Unfinished
  <2>. QED  BY <1>2, <1>3, <2>3, <2>4, <2>5, StepProc
<1>5. CASE state \in {"queued", "running", "canceling"}
  <2>1. PICK place \in {"cancel", "run", "scan"} : Goto(p, place) /\ (place = "scan" => state # "queued")
    BY <1>5 DEF Terminal
  <2>2. place \in Places \ {"done", "enqueue"}  BY DEF Places
  <2>. QED  BY <1>1, <1>2, <1>3, <2>1, <2>2, GotoStep
<1>. QED  BY <1>2, <1>4, <1>5

LEMMA PersistCanceledTasks ==
  ASSUME TaskInv, NEW p \in Processor, PersistCanceled(p) PROVE TaskInv'
<1>. USE DEF PersistCanceled
<1>1. Busy(p)  BY DEF At, Busy
<1>2. state # "none" /\ state \in Terminal \cup {"queued", "running", "canceling"}  BY <1>1, SomeState
<1>3. TaskTypes' /\ state' # "none"  BY <1>2, KeptTasks DEF Unfinished, Terminal
<1>4. CASE state = "canceling"
  <2>1. state' = "canceled" /\ End(p, "done")  BY <1>4
  <2>2. state' \notin Unfinished  BY <2>1 DEF Unfinished
  <2>. QED  BY <1>1, <1>3, <2>1, <2>2, EndStep
<1>5. CASE state # "canceling"
  <2>1. UNCHANGED state /\ End(p, "error")  BY <1>5
  <2>. QED  BY <1>1, <1>3, <2>1, EndStep
<1>. QED  BY <1>4, <1>5

LEMMA PersistRunningTasks ==
  ASSUME TaskInv, NEW p \in Processor, PersistRunning(p) PROVE TaskInv'
<1>. USE DEF PersistRunning
<1>1. Busy(p)  BY DEF At, Busy
<1>2. state # "none" /\ state \in Terminal \cup {"queued", "running", "canceling"}  BY <1>1, SomeState
<1>3. CASE state = "queued"
  <2>1. state' = "running" /\ Goto(p, "scan")  BY <1>3 DEF Terminal
  <2>2. TaskTypes' /\ state' # "none"  BY <1>2, <2>1, KeptTasks DEF Unfinished
  <2>3. "scan" \in Places \ {"done", "enqueue"}  BY DEF Places
  <2>4. state \in Unfinished  BY <1>3 DEF Unfinished
  <2>. QED  BY <1>1, <2>1, <2>2, <2>3, <2>4, GotoStep
<1>4. CASE state = "canceling"
  <2>1. state' = "canceled" /\ End(p, "done")  BY <1>4 DEF Terminal
  <2>2. TaskTypes' /\ state' # "none"  BY <1>2, <2>1, KeptTasks DEF Terminal
  <2>3. state' \notin Unfinished  BY <2>1 DEF Unfinished
  <2>. QED  BY <1>1, <2>1, <2>2, <2>3, EndStep
<1>5. CASE state \in Terminal
  <2>1. UNCHANGED state /\ End(p, "done")  BY <1>5 DEF Terminal
  <2>2. TaskTypes' /\ state' # "none"  BY <1>2, <1>5, <2>1, KeptTasks
  <2>3. state' \notin Unfinished  BY <1>5, <2>1 DEF Unfinished, Terminal
  <2>. QED  BY <1>1, <2>1, <2>2, <2>3, EndStep
<1>6. CASE state = "running"
  <2>1. UNCHANGED state /\ End(p, "error")  BY <1>6 DEF Terminal
  <2>2. TaskTypes' /\ state' # "none"  BY <1>2, <1>6, <2>1, KeptTasks DEF Unfinished
  <2>. QED  BY <1>1, <2>1, <2>2, EndStep
<1>. QED  BY <1>2, <1>3, <1>4, <1>5, <1>6

(* The scan: a page that is not empty goes on to its first candidate. *)
LEMMA FindTasks ==
  ASSUME TaskInv, RowInv, NEW p \in Processor, FindMemoriesToMigrate(p) PROVE TaskInv'
<1>. USE DEF FindMemoriesToMigrate
<1>1. Busy(p) /\ proc[p] \in Batch  BY BusyBatch DEF At, Busy
<1>2. state # "none" /\ state # "queued" /\ state \in Unfinished \cup Terminal
  BY <1>1, SomeState DEF TaskInv, ProcOK, At, Unfinished
<1>3. TaskTypes'  BY <1>2, KeptTasks
<1>4. PICK page \in Pages :
        /\ page # << >> => DOMAIN page # {}
        /\ proc' = [proc EXCEPT ![p].at = IF page = << >> THEN "sweep" ELSE "check", ![p].page = page]
  <2>. DEFINE found == Page(ToMigrate(Cursor(proc[p].task)))
              page == [i \in found |-> [revision |-> rows[i].revision, value |-> rows[i].value]]
  <2>1. proc' = [proc EXCEPT ![p].at = IF page = << >> THEN "sweep" ELSE "check", ![p].page = page]
    OBVIOUS
  <2>2. found \in SUBSET Id /\ \A i \in found : Exists(i)  BY DEF Page, ToMigrate, OfSource
  <2>. HIDE DEF found
  <2>3. ASSUME NEW i \in found
        PROVE  [revision |-> rows[i].revision, value |-> rows[i].value] \in Candidates
    <3>1. rows[i].revision \in Revision /\ rows[i] \in AnyRow  BY <2>2, RevisionBound
    <3>2. rows[i].value \in BOOLEAN  BY <3>1, RowFields
    <3>. QED  BY <3>1, <3>2 DEF Candidates
  <2>4. page \in [found -> Candidates]  BY <2>3
  <2>5. page # << >> => DOMAIN page # {}  OBVIOUS
  <2>. HIDE DEF page
  <2>6. page \in Pages  BY <2>2, <2>4 DEF Pages
  <2>. QED  BY <2>1, <2>5, <2>6
<1>7. PICK place \in {"sweep", "check"} : place = IF page = << >> THEN "sweep" ELSE "check"
  OBVIOUS
<1>. DEFINE b == [proc[p] EXCEPT !.at = place, !.page = page]
<1>8. b \in Batch /\ b.at = place /\ b.page = page /\ b.task = proc[p].task /\ b.holds = proc[p].holds
  BY <1>1, <1>4 DEF Batch, Places
<1>9. proc' = [proc EXCEPT ![p] = b]  BY <1>4, <1>7
<1>10. b.holds => b.task \in DOMAIN tasks  BY <1>1, <1>8 DEF TaskInv, ProcOK
<1>11. b.at \in {"check", "migrate"} => DOMAIN b.page # {}  BY <1>4, <1>7, <1>8
<1>. HIDE DEF b
<1>. QED  BY <1>2, <1>3, <1>7, <1>8, <1>9, <1>10, <1>11, StepProc

LEMMA CheckTasks ==
  ASSUME TaskInv, NEW p \in Processor, CheckCanceled(p) PROVE TaskInv'
<1>. USE DEF CheckCanceled
<1>1. Busy(p) /\ DOMAIN proc[p].page # {} /\ state # "queued"  BY DEF At, Busy, TaskInv, ProcOK
<1>2. state # "none" /\ state \in Terminal \cup {"queued", "running", "canceling"}  BY <1>1, SomeState
<1>3. TaskTypes' /\ state' # "none"  BY <1>2, KeptTasks DEF Unfinished, Terminal
<1>4. CASE state \in Terminal \cup {"canceling"}
  <2>1. End(p, "done") /\ state' \in Terminal  BY <1>4 DEF Terminal
  <2>2. state' \notin Unfinished /\ state' # "queued"  BY <2>1 DEF Terminal, Unfinished
  <2>. QED  BY <1>1, <1>3, <2>1, <2>2, EndStep
<1>5. CASE state = "running"
  <2>1. Goto(p, "migrate") /\ UNCHANGED state  BY <1>5 DEF Terminal
  <2>2. "migrate" \in Places \ {"done", "enqueue"}  BY DEF Places
  <2>. QED  BY <1>1, <1>3, <2>1, <2>2, GotoStep
<1>. QED  BY <1>1, <1>2, <1>4, <1>5

(* The candidate is the first row of the page that is left. *)
LEMMA CandidateInPage ==
  ASSUME TaskInv, NEW p \in Processor, At(p, "migrate")
  PROVE  Candidate(p) \in DOMAIN proc[p].page /\ Candidate(p) \in Id
<1>1. Busy(p) /\ proc[p] \in Batch /\ DOMAIN proc[p].page # {}
  BY BusyBatch DEF At, Busy, TaskInv, ProcOK
<1>2. DOMAIN proc[p].page \subseteq Id
  <2>1. proc[p].page \in Pages  BY <1>1 DEF Batch
  <2>. QED  BY <2>1 DEF Pages
<1>3. DOMAIN proc[p].page \in SUBSET Nat  BY <1>2
<1>4. \E i \in DOMAIN proc[p].page : \A j \in DOMAIN proc[p].page : i <= j
  BY <1>1, <1>3, LeastMember
<1>. QED  BY <1>2, <1>4 DEF Candidate

LEMMA AdvanceTasks ==
  ASSUME TaskInv, NEW p \in Processor, At(p, "migrate"), Advance(p), UNCHANGED <<state, tasks>>
  PROVE  TaskInv'
<1>1. Busy(p) /\ proc[p] \in Batch  BY BusyBatch DEF At, Busy
<1>2. state # "none" /\ state # "queued" /\ state \in Unfinished \cup Terminal
  BY <1>1, SomeState DEF TaskInv, ProcOK, At, Unfinished
<1>3. TaskTypes'  BY <1>2, KeptTasks
<1>4. PICK c \in Id : c = Candidate(p) /\ c \in DOMAIN proc[p].page  BY CandidateInPage
<1>5. PICK page \in Pages :
        /\ page # << >> => DOMAIN page # {}
        /\ proc' = [proc EXCEPT ![p].page = page, ![p].last = c,
                                ![p].at = IF page = << >> THEN "enqueue" ELSE "check"]
  <2>. DEFINE rest == [x \in DOMAIN proc[p].page \ {c} |-> proc[p].page[x]]
  <2>1. proc' = [proc EXCEPT ![p].page = rest, ![p].last = c,
                             ![p].at = IF rest = << >> THEN "enqueue" ELSE "check"]
    BY <1>4 DEF Advance, Restrict
  <2>2. PICK S \in SUBSET Id : proc[p].page \in [S -> Candidates]
    <3>1. proc[p].page \in Pages  BY <1>1 DEF Batch
    <3>. QED  BY <3>1 DEF Pages
  <2>3. rest \in [S \ {c} -> Candidates] /\ S \ {c} \in SUBSET Id  BY <2>2
  <2>4. rest \in Pages
    <3>. HIDE DEF rest
    <3>. QED  BY <2>3 DEF Pages
  <2>5. DOMAIN rest = {} => rest = << >>  OBVIOUS
  <2>. HIDE DEF rest
  <2>. QED  BY <2>1, <2>4, <2>5
<1>6. PICK place \in {"enqueue", "check"} : place = IF page = << >> THEN "enqueue" ELSE "check"
  OBVIOUS
<1>. DEFINE b == [proc[p] EXCEPT !.page = page, !.last = c, !.at = place]
<1>7. b \in Batch /\ b.at = place /\ b.page = page /\ b.last = c
      /\ b.task = proc[p].task /\ b.holds = proc[p].holds
  BY <1>1, <1>4 DEF Batch, Places
<1>8. proc' = [proc EXCEPT ![p] = b]  BY <1>5, <1>6
<1>9. b.holds => b.task \in DOMAIN tasks  BY <1>1, <1>7 DEF TaskInv, ProcOK
<1>10. b.at \in {"check", "migrate"} => DOMAIN b.page # {}  BY <1>5, <1>6, <1>7
<1>. HIDE DEF b
<1>. QED  BY <1>2, <1>3, <1>4, <1>6, <1>7, <1>8, <1>9, <1>10, StepProc

LEMMA ConflictTasks ==
  ASSUME TaskInv, NEW p \in Processor, MigrateConflict(p) PROVE TaskInv'
<1>. USE DEF MigrateConflict
<1>1. Busy(p)  BY DEF At, Busy
<1>2. state # "none" /\ state \in Unfinished \cup Terminal  BY <1>1, SomeState DEF Unfinished
<1>3. TaskTypes'  BY <1>2, KeptTasks
<1>. QED  BY <1>1, <1>2, <1>3, EndStep

LEMMA MarkFailedTasks ==
  ASSUME TaskInv, NEW p \in Processor, MarkMigrationFailed(p) PROVE TaskInv'
<1>. USE DEF MarkMigrationFailed
<1>1. Busy(p)  BY DEF At, Busy
<1>2. state # "none" /\ state' \in Terminal /\ state' \notin Unfinished /\ state' # "queued"
  BY <1>1, SomeState DEF Unfinished, Terminal
<1>3. TaskTypes' /\ state' # "none"  BY <1>2, KeptTasks
<1>. QED  BY <1>1, <1>2, <1>3, EndStep

(* A successor is a new task, or the batch ends in error. *)
LEMMA CreateTaskStep ==
  ASSUME TaskInv, NEW p \in Processor, Busy(p), NEW n \in TaskName, CreateTask(p, n), UNCHANGED state
  PROVE  TaskInv'
<1>1. state # "none" /\ state \in Unfinished \cup Terminal  BY SomeState DEF Unfinished
<1>2. CASE n \in DOMAIN tasks
  <2>1. UNCHANGED tasks /\ End(p, "error")  BY <1>2 DEF CreateTask
  <2>2. TaskTypes'  BY <1>1, <2>1, KeptTasks
  <2>. QED  BY <1>1, <2>1, <2>2, EndStep
<1>3. CASE n \notin DOMAIN tasks
  <2>1. /\ tasks' = [m \in DOMAIN tasks \cup {n} |-> IF m = n THEN "ready" ELSE tasks[m]]
        /\ End(p, "done")
    BY <1>3 DEF CreateTask
  <2>2. DOMAIN tasks' = DOMAIN tasks \cup {n}  BY <2>1
  <2>3. TaskTypes'  BY <1>1, <2>1, <2>2 DEF TaskInv, TaskTypes
  <2>. QED  BY <1>1, <1>3, <2>1, <2>2, <2>3, EndStep
<1>. QED  BY <1>2, <1>3

LEMMA EnqueueTasks ==
  ASSUME TaskInv, NEW p \in Processor, Enqueue(p) PROVE TaskInv'
<1>. USE DEF Enqueue
<1>1. Busy(p) /\ proc[p].last \in Id  BY DEF At, Busy, TaskInv, ProcOK
<1>2. After(proc[p].last) \in TaskName  BY <1>1 DEF TaskName
<1>. QED  BY <1>1, <1>2, CreateTaskStep

LEMMA CursorType == \A n \in TaskName : Cursor(n) \in {0} \cup Id
BY DEF TaskName, Cursor, First, After, Restart

(* The sweep ends the migration or sends the chain back to the start. *)
LEMMA SweepTasks ==
  ASSUME TaskInv, RowInv, NEW p \in Processor, Sweep(p) PROVE TaskInv' /\ SweptOK'
<1>. USE DEF Sweep
<1>1. Busy(p) /\ proc[p] \in Batch /\ state # "queued"  BY BusyBatch DEF At, Busy, TaskInv, ProcOK
<1>2. state # "none" /\ state \in Terminal \cup {"queued", "running", "canceling"}  BY <1>1, SomeState
<1>3. UNCHANGED rows  BY DEF memoryVars
<1>4. UNCHANGED swept => SweptOK'  BY <1>3 DEF RowInv, SweptOK, Born, Exists
<1>5. CASE state \in Terminal
  <2>1. UNCHANGED <<state, tasks, swept>> /\ End(p, "done")  BY <1>5 DEF Terminal
  <2>2. TaskTypes' /\ state' # "none"  BY <1>2, <1>5, <2>1, KeptTasks
  <2>3. state' \notin Unfinished  BY <1>5, <2>1 DEF Unfinished, Terminal
  <2>4. TaskInv'  BY <1>1, <2>1, <2>2, <2>3, EndStep
  <2>. QED  BY <1>4, <2>1, <2>4
<1>6. CASE state = "canceling"
  <2>1. state' = "canceled" /\ UNCHANGED <<tasks, swept>> /\ End(p, "done")  BY <1>6 DEF Terminal
  <2>2. TaskTypes' /\ state' # "none"  BY <1>2, <2>1, KeptTasks DEF Terminal
  <2>3. state' \notin Unfinished  BY <2>1 DEF Unfinished
  <2>4. TaskInv'  BY <1>1, <2>1, <2>2, <2>3, EndStep
  <2>. QED  BY <1>4, <2>1, <2>4
<1>7. CASE state = "running" /\ Replayable(p) # {}
  <2>1. CreateTask(p, Restart(Cursor(proc[p].task))) /\ UNCHANGED <<state, swept>>
    BY <1>7 DEF Terminal
  <2>2. proc[p].task \in TaskName  BY <1>1 DEF Batch
  <2>3. Restart(Cursor(proc[p].task)) \in TaskName  BY <2>2, CursorType DEF TaskName
  <2>. QED  BY <1>1, <1>4, <2>1, <2>3, CreateTaskStep
<1>8. CASE state = "running" /\ Replayable(p) = {}
  <2>1. /\ state' = "succeeded" /\ swept' = {i \in Id : rows[i] # Unborn}
        /\ UNCHANGED tasks /\ End(p, "done")
    BY <1>8 DEF Terminal
  <2>2. TaskTypes' /\ state' # "none"  BY <1>2, <2>1, KeptTasks DEF Terminal
  <2>3. state' \notin Unfinished  BY <2>1 DEF Unfinished
  <2>4. TaskInv'  BY <1>1, <2>1, <2>2, <2>3, EndStep
  <2>5. SweptOK'  BY <1>3, <1>8, <2>1 DEF SweptOK, Born, Exists, Replayable, OfSource
  <2>. QED  BY <2>4, <2>5
<1>. QED  BY <1>1, <1>2, <1>5, <1>6, <1>7, <1>8

-----------------------------------------------------------------------------
(* The indexers. *)
LEMMA SnapshotType ==
  ASSUME RowInv, NEW i \in Id, Exists(i)
  PROVE  [kind |-> rows[i].kind, text |-> rows[i].text,
          revision |-> rows[i].revision, status |-> rows[i].status] \in Snapshot
<1>1. rows[i] \in AnyRow /\ rows[i].revision \in Revision  BY RevisionBound
<1>2. rows[i].kind \in Kind /\ rows[i].text \in BOOLEAN /\ rows[i].status \in Lifecycle
  BY <1>1, RowFields
<1>. QED  BY <1>1, <1>2 DEF Snapshot

LEMMA FindTypes ==
  ASSUME RowInv, IndexTypes, NEW x \in Indexer, FindMemoriesPendingIndexing(x)
  PROVE  IndexTypes'
<1>. USE DEF FindMemoriesPendingIndexing, IndexTypes
<1>. DEFINE read == [i \in Unindexed |-> [kind |-> rows[i].kind, text |-> rows[i].text,
                                          revision |-> rows[i].revision, status |-> rows[i].status]]
<1>1. Unindexed \subseteq Id /\ \A i \in Unindexed : Exists(i)  BY DEF Unindexed
<1>2. DOMAIN read = Unindexed /\ \A i \in Unindexed : read[i] \in Snapshot  BY <1>1, SnapshotType
<1>3. pending' = [pending EXCEPT ![x] = read]  OBVIOUS
<1>. HIDE DEF read
<1>4. DOMAIN pending' = Indexer /\ pending'[x] = read
      /\ \A y \in Indexer : y # x => pending'[y] = pending[y]
  BY <1>3
<1>5. ASSUME NEW y \in Indexer
      PROVE  DOMAIN pending'[y] \subseteq Id /\ \A i \in DOMAIN pending'[y] : pending'[y][i] \in Snapshot
  BY <1>1, <1>2, <1>4
<1>. QED  BY <1>4, <1>5

LEMMA DoneTypes ==
  ASSUME IndexTypes, NEW x \in Indexer, NEW i, Done(x, i)
  PROVE  /\ DOMAIN pending' = Indexer
         /\ \A y \in Indexer : /\ DOMAIN pending'[y] \subseteq DOMAIN pending[y]
                               /\ \A j \in DOMAIN pending'[y] : pending'[y][j] = pending[y][j]
         /\ i \notin DOMAIN pending'[x]
<1>. DEFINE rest == [j \in DOMAIN pending[x] \ {i} |-> pending[x][j]]
<1>1. pending' = [pending EXCEPT ![x] = rest]  BY DEF Done, Restrict
<1>2. DOMAIN rest = DOMAIN pending[x] \ {i} /\ \A j \in DOMAIN rest : rest[j] = pending[x][j]
  OBVIOUS
<1>. HIDE DEF rest
<1>. QED  BY <1>1, <1>2 DEF IndexTypes

LEMMA VectorType ==
  ASSUME NEW r \in Snapshot PROVE VectorOf(r) \in Vector \cup {NoVector}
BY DEF VectorOf, Snapshot, Vector

LEMMA IndexRowTypes ==
  ASSUME IndexTypes, NEW x \in Indexer, NEW i \in Id, IndexRow(x, i) PROVE IndexTypes'
<1>. USE DEF IndexRow, IndexTypes
<1>1. VectorOf(pending[x][i]) \in Vector \cup {NoVector}  BY VectorType
<1>2. vectors' \in [Id -> Vector \cup {NoVector}]  BY <1>1
<1>. QED  BY <1>2, DoneTypes

LEMMA IndexFailsTypes ==
  ASSUME IndexTypes, NEW x \in Indexer, NEW i \in Id, IndexFails(x, i) PROVE IndexTypes'
<1>. USE DEF IndexFails, IndexTypes
<1>1. faults' \in 0..MaxFaults  OBVIOUS
<1>. QED  BY <1>1, DoneTypes

LEMMA RestartTypes ==
  ASSUME IndexTypes, NEW x \in Indexer, IndexerRestarts(x) PROVE IndexTypes'
<1>. USE DEF IndexerRestarts, IndexTypes
<1>1. faults' \in 0..MaxFaults  OBVIOUS
<1>2. DOMAIN pending' = Indexer /\ DOMAIN pending'[x] = {}
      /\ \A y \in Indexer : y # x => pending'[y] = pending[y]
  BY NoPage
<1>. QED  BY <1>1, <1>2

LEMMA MemoryTypes ==
  ASSUME RowInv, IndexTypes, MemoryNext PROVE IndexTypes'
<1>1. CASE \E k \in Key, kind \in Written, text \in Texts : PutMemory(k, kind, text)
  BY <1>1 DEF PutMemory, IndexTypes
<1>2. CASE MemoryQuiet
  <2>1. UNCHANGED <<vectors, pending, faults>>  BY <1>2, MemoryQuietRows DEF RowInv
  <2>. QED  BY <2>1 DEF IndexTypes
<1>3. CASE \E x \in Indexer : \E i \in Id : IndexRow(x, i)  BY <1>3, IndexRowTypes
<1>4. CASE \E x \in Indexer : FindMemoriesPendingIndexing(x)  BY <1>4, FindTypes
<1>5. CASE \E x \in Indexer : IndexerRestarts(x)  BY <1>5, RestartTypes
<1>6. CASE \E x \in Indexer : \E i \in Id : IndexFails(x, i)  BY <1>6, IndexFailsTypes
<1>. QED  BY <1>1, <1>2, <1>3, <1>4, <1>5, <1>6, Zenon DEF MemoryNext, MemoryQuiet

-----------------------------------------------------------------------------
LEMMA TombstoneRow ==
  ASSUME NEW k \in Key
  PROVE  /\ Tombstone(k) \in AnyRow /\ Tombstone(k).status = "archived" /\ Tombstone(k).revision = 3
         /\ Tombstone(k).value = FALSE /\ Tombstone(k).text = FALSE
BY DEF Tombstone, AnyRow, Lifecycle

LEMMA InitRows == ASSUME Init PROVE RowInv
<1>. USE DEF Init
<1>1. PICK k \in Key : rows = [i \in Id |-> IF i \in Old THEN Tombstone(k) ELSE Unborn]  OBVIOUS
<1>2. Unborn \in Gone  BY DEF Gone
<1>3. \A i \in Id : rows[i] \in AnyRow \cup Gone  BY <1>1, <1>2, TombstoneRow
<1>4. RowTypes  BY <1>1, <1>3 DEF RowTypes
<1>5. \A i \in Id : Exists(i) => i \in Old /\ rows[i] = Tombstone(k)
  BY <1>1 DEF Exists, Unborn, Lifecycle
<1>6. OneActive  BY <1>5, TombstoneRow DEF OneActive, IsActive
<1>7. ASSUME NEW i \in Id, Exists(i)
      PROVE  rows[i].revision <= 2 * Cardinality(Born) - 1 + Bit(i \in moved) + Steps(rows[i])
  <2>1. rows[i] = Tombstone(k)  BY <1>5, <1>7
  <2>2. rows[i].revision = 3 /\ Steps(rows[i]) = 2
    <3>1. rows[i].revision = 3 /\ rows[i].status = "archived" /\ rows[i].value = FALSE
      BY <2>1, TombstoneRow
    <3>. QED  BY <3>1 DEF Steps, Bit
  <2>3. i \in Born  BY <2>1, TombstoneRow, RowFields DEF Born, Gone
  <2>4. Born \subseteq Id  BY DEF Born
  <2>5. IsFiniteSet(Born) /\ Cardinality(Born) \in Nat  BY <2>4, Counts
  <2>6. Cardinality(Born) # 0  BY <2>3, <2>5, FS_EmptySet
  <2>7. Bit(i \in moved) \in {0, 1}  BY BitType
  <2>. QED  BY <2>2, <2>5, <2>6, <2>7
<1>8. Bounded  BY <1>7 DEF Bounded
<1>9. MovedOK /\ SweptOK  BY FS_EmptySet DEF MovedOK, SweptOK
<1>. QED  BY <1>4, <1>6, <1>8, <1>9 DEF RowInv

LEMMA InitMig == ASSUME Init PROVE MigInv
<1>. USE DEF Init
<1>1. RowInv  BY InitRows
<1>2. IndexTypes
  <2>1. vectors \in [Id -> Vector \cup {NoVector}] /\ DOMAIN pending = Indexer /\ faults \in 0..MaxFaults
    OBVIOUS
  <2>2. \A x \in Indexer : DOMAIN pending[x] = {}  BY NoPage
  <2>. QED  BY <2>1, <2>2 DEF IndexTypes
<1>3. DOMAIN tasks = {}  BY NoPage
<1>4. TaskTypes
  <2>1. tasks = [n \in DOMAIN tasks |-> tasks[n]]  BY <1>3
  <2>. QED  BY <1>3, <2>1 DEF TaskTypes
<1>5. \A p \in Processor : ProcOK(p)  BY DEF ProcOK, Busy, At, Idle
<1>6. ChainGoesOn  BY DEF ChainGoesOn, Unfinished
<1>7. TaskInv  BY <1>4, <1>5, <1>6 DEF TaskInv
<1>. QED  BY <1>1, <1>2, <1>7 DEF MigInv

(* Steps that touch neither the rows nor what was moved and swept. *)
LEMMA SameRows ==
  ASSUME RowInv, UNCHANGED <<rows, migrated, moved, swept>> PROVE RowInv'
BY KeptRows, QuietEdges, QuietRows DEF RowInv, EdgesOnly

LEMMA SameIndex ==
  ASSUME IndexTypes, UNCHANGED <<vectors, pending>>, faults' \in 0..MaxFaults PROVE IndexTypes'
BY DEF IndexTypes

LEMMA SameTasks ==
  ASSUME TaskInv, UNCHANGED <<state, tasks, proc>> PROVE TaskInv'
<1>1. TaskTypes' /\ \A p \in Processor : ProcOK(p)'  BY DEF TaskInv, TaskTypes, ProcOK, Busy, At
<1>2. Doomed' = Doomed  BY DEF Doomed, At
<1>. QED  BY <1>1, <1>2 DEF TaskInv, ChainGoesOn

(* The move of a row: a step of the rows and a step of the batch. *)
LEMMA MigrateForm ==
  ASSUME TaskInv, RowTypes, NEW p \in Processor, MigrateOne(p)
  PROVE  \E i \in Id : /\ Exists(i) /\ rows[i].kind = Source
                       /\ rows' = [rows EXCEPT ![i] = Moved(rows[i])]
                       /\ moved' = moved \cup {i}
<1>1. Candidate(p) \in Id  BY CandidateInPage DEF MigrateOne
<1>. DEFINE i == Candidate(p)
<1>2. rows' = [rows EXCEPT ![i] = Moved(rows[i])]  BY DEF MigrateOne, Moved
<1>3. Exists(i) /\ rows[i].kind = Source /\ moved' = moved \cup {i}  BY DEF MigrateOne, SameRow
<1>. HIDE DEF i
<1>. QED  BY <1>1, <1>2, <1>3 DEF i

LEMMA MigrateMig ==
  ASSUME MigInv, NEW p \in Processor, MigrateOne(p) PROVE MigInv'
<1>1. RowInv'  BY MigrateForm, MoveRows DEF MigInv, RowInv, MigrateOne
<1>2. TaskInv'  BY AdvanceTasks DEF MigInv, MigrateOne
<1>3. IndexTypes'  BY SameIndex DEF MigInv, MigrateOne, IndexTypes
<1>. QED  BY <1>1, <1>2, <1>3 DEF MigInv

LEMMA SweepMig ==
  ASSUME MigInv, NEW p \in Processor, Sweep(p) PROVE MigInv'
<1>1. TaskInv' /\ SweptOK'  BY SweepTasks DEF MigInv
<1>2. UNCHANGED <<rows, vectors, pending, faults, migrated, moved>>  BY DEF Sweep, memoryVars
<1>3. IndexTypes'  BY <1>2 DEF MigInv, IndexTypes
<1>4. RowInv'
  BY <1>1, <1>2 DEF MigInv, RowInv, RowTypes, OneActive, IsActive, Bounded, MovedOK, Born, Exists
<1>. QED  BY <1>1, <1>3, <1>4 DEF MigInv

LEMMA OtherMig ==
  ASSUME MigInv, TaskInv', UNCHANGED <<rows, vectors, pending, migrated, moved, swept>>,
         faults' \in 0..MaxFaults
  PROVE  MigInv'
BY SameRows, SameIndex DEF MigInv

LEMMA ProcessMig ==
  ASSUME MigInv, NEW p \in Processor, Process(p) PROVE MigInv'
<1>. USE DEF memoryVars
<1>0. TaskInv /\ RowInv /\ faults \in 0..MaxFaults  BY DEF MigInv, IndexTypes
<1>1. CASE \E n \in DOMAIN tasks : ClaimReadyTask(p, n)
  BY <1>0, <1>1, ClaimTasks, OtherMig DEF ClaimReadyTask
<1>2. CASE Load(p)  BY <1>0, <1>2, LoadTasks, OtherMig DEF Load
<1>3. CASE PersistCanceled(p)  BY <1>0, <1>3, PersistCanceledTasks, OtherMig DEF PersistCanceled
<1>4. CASE PersistRunning(p)  BY <1>0, <1>4, PersistRunningTasks, OtherMig DEF PersistRunning
<1>5. CASE FindMemoriesToMigrate(p)  BY <1>0, <1>5, FindTasks, OtherMig DEF FindMemoriesToMigrate
<1>6. CASE CheckCanceled(p)  BY <1>0, <1>6, CheckTasks, OtherMig DEF CheckCanceled
<1>7. CASE SkipTombstone(p)  BY <1>0, <1>7, AdvanceTasks, OtherMig DEF SkipTombstone
<1>8. CASE MigrateOne(p)  BY <1>8, MigrateMig
<1>9. CASE MigrateConflict(p)  BY <1>0, <1>9, ConflictTasks, OtherMig DEF MigrateConflict
<1>10. CASE Enqueue(p)  BY <1>0, <1>10, EnqueueTasks, OtherMig DEF Enqueue
<1>11. CASE Sweep(p)  BY <1>11, SweepMig
<1>12. CASE DeleteTask(p)  BY <1>0, <1>12, DeleteTasks, OtherMig DEF DeleteTask
<1>13. CASE FailTask(p)  BY <1>0, <1>13, FailTasks, OtherMig DEF FailTask
<1>. QED
  BY <1>1, <1>2, <1>3, <1>4, <1>5, <1>6, <1>7, <1>8, <1>9, <1>10, <1>11, <1>12, <1>13, Zenon DEF Process

LEMMA NextMig ==
  ASSUME MigInv, [Next]_vars PROVE MigInv'
<1>. USE DEF memoryVars, migrationVars
<1>0. TaskInv /\ RowInv /\ IndexTypes /\ faults \in 0..MaxFaults  BY DEF MigInv, IndexTypes
<1>1. CASE MemoryNext /\ UNCHANGED migrationVars
  BY <1>0, <1>1, MemoryRows, MemoryTypes, SameTasks DEF MigInv
<1>2. CASE CreateMemoryKindMigrationAndTask
  BY <1>0, <1>2, CreateTasks, OtherMig DEF CreateMemoryKindMigrationAndTask
<1>3. CASE CancelRequested  BY <1>0, <1>3, CancelTasks, OtherMig DEF CancelRequested
<1>4. CASE \E n \in DOMAIN tasks : ClaimLapses(n)
  <2>1. faults' \in 0..MaxFaults  BY <1>0, <1>4 DEF ClaimLapses
  <2>. QED  BY <1>0, <1>4, <2>1, LapseTasks, OtherMig DEF ClaimLapses
<1>5. CASE \E p \in Processor : Process(p)  BY <1>5, ProcessMig
<1>6. CASE \E p \in Processor : MarkMigrationFailed(p)
  <2>1. faults' \in 0..MaxFaults  BY <1>0, <1>6 DEF MarkMigrationFailed
  <2>. QED  BY <1>0, <1>6, <2>1, MarkFailedTasks, OtherMig DEF MarkMigrationFailed
<1>7. CASE \E p \in Processor : ProcessorStops(p)
  <2>1. faults' \in 0..MaxFaults  BY <1>0, <1>7 DEF ProcessorStops
  <2>. QED  BY <1>0, <1>7, <2>1, StopTasks, OtherMig DEF ProcessorStops
<1>8. CASE \E p \in Processor : BatchFails(p)
  <2>1. faults' \in 0..MaxFaults  BY <1>0, <1>8 DEF BatchFails
  <2>. QED  BY <1>0, <1>8, <2>1, BatchFailsTasks, OtherMig DEF BatchFails
<1>9. CASE UNCHANGED vars  BY <1>0, <1>9, SameTasks, OtherMig DEF vars
<1>. QED  BY <1>1, <1>2, <1>3, <1>4, <1>5, <1>6, <1>7, <1>8, <1>9, Zenon DEF Next

LEMMA MigAlways == Spec => []MigInv
<1>1. Init => MigInv  BY InitMig
<1>2. MigInv /\ [Next]_vars => MigInv'  BY NextMig
<1>. QED  BY <1>1, <1>2, PTL DEF Spec

(* The tables hold what their schemas allow, no key has two active rows,   *)
(* and no revision passes four times the number of rows: a row is written  *)
(* above the one it replaces, moved, taken out of service and cleared once *)
(* each (PutMemory, MigrateMemoryKindCAS, the passes of the maintenance).  *)
THEOREM MigrationTypes == Spec => []TypeOK
<1>1. MigInv => TypeOK
  <2>. SUFFICES ASSUME MigInv PROVE TypeOK
    OBVIOUS
  <2>0. RowInv /\ TaskInv /\ IndexTypes  BY DEF MigInv
  <2>1. rows \in [Id -> Row \cup {Unborn, Deleted}]
    <3>1. ASSUME NEW i \in Id PROVE rows[i] \in Row \cup {Unborn, Deleted}
      <4>1. CASE Exists(i)
        <5>1. rows[i] \in AnyRow /\ rows[i].revision \in Revision  BY <2>0, <4>1, RevisionBound
        <5>. QED  BY <5>1 DEF AnyRow, Row
      <4>2. CASE ~Exists(i)  BY <2>0, <4>2, ExistsRow DEF RowInv, Gone
      <4>. QED  BY <4>1, <4>2
    <3>. QED  BY <2>0, <3>1 DEF RowInv, RowTypes
  <2>2. ASSUME NEW k \in Key PROVE Cardinality(Active(k)) <= 1
    <3>1. \A i, j \in Active(k) : i = j  BY <2>0 DEF RowInv, OneActive, IsActive, Active
    <3>2. CASE Active(k) = {}  BY <3>2, FS_EmptySet
    <3>3. CASE Active(k) # {}
      <4>1. PICK i : Active(k) = {i}  BY <3>1, <3>3
      <4>2. Cardinality({i}) = 1  BY FS_Singleton, Zenon
      <4>. QED  BY <4>1, <4>2
    <3>. QED  BY <3>2, <3>3
  <2>3. MemoryTypeOK  BY <2>0, <2>1, <2>2 DEF MemoryTypeOK, IndexTypes
  <2>4. migrated \in 0..MaxRows
    <3>1. moved \in SUBSET Id  BY <2>0 DEF RowInv, MovedOK, Born
    <3>. QED  BY <2>0, <3>1, Counts DEF RowInv, MovedOK
  <2>5. ASSUME NEW p \in Processor, Busy(p)
        PROVE  /\ proc[p].at \in Places /\ proc[p].task \in TaskName /\ proc[p].last \in {0} \cup Id
               /\ \A i \in DOMAIN proc[p].page : proc[p].page[i] \in Candidates
    <3>1. proc[p] \in Batch  BY <2>0, <2>5, BusyBatch
    <3>2. proc[p].page \in Pages  BY <3>1 DEF Batch
    <3>3. \A i \in DOMAIN proc[p].page : proc[p].page[i] \in Candidates  BY <3>2 DEF Pages
    <3>. QED  BY <3>1, <3>3 DEF Batch
  <2>. QED  BY <2>0, <2>3, <2>4, <2>5 DEF TypeOK, TaskInv, TaskTypes, Places
<1>. QED  BY <1>1, MigAlways, PTL

(* A migration that is not over always has a task, so some processor will  *)
(* take it on: a batch deletes its task only after it has enqueued another *)
(* under a name nobody had, or after the migration ended                   *)
(* (executeKindMigrationBatch, CreateMemoryKindMigrationTask, DeleteTask). *)
THEOREM MigrationKeepsATask == Spec => []ActiveHasTask
<1>1. MigInv => ActiveHasTask
  <2>. SUFFICES ASSUME MigInv, state \in Unfinished PROVE tasks # << >>
    BY DEF ActiveHasTask
  <2>1. DOMAIN tasks # {}  BY DEF MigInv, TaskInv, ChainGoesOn
  <2>. QED  BY <2>1, NoPage
<1>. QED  BY <1>1, MigAlways, PTL

(* migrated_count is the number of rows moved, for any number of           *)
(* processors that run the same task: the compare-and-set admits a row of  *)
(* the source kind only, and a moved row never has that kind again         *)
(* (MigrateMemoryKindCAS).                                                 *)
THEOREM MovesAreCounted == Spec => []CountIsExact
<1>1. MigInv => CountIsExact  BY DEF MigInv, RowInv, MovedOK, CountIsExact
<1>. QED  BY <1>1, MigAlways, PTL

(* A migration that succeeded left no row with a value behind among those  *)
(* its last sweep could see, wherever they stood relative to the cursors,  *)
(* and no later step brings one back (the verification sweep).             *)
THEOREM SuccessIsComplete == Spec => []NoRowLeftBehind
<1>1. MigInv => NoRowLeftBehind  BY DEF MigInv, RowInv, SweptOK, NoRowLeftBehind
<1>. QED  BY <1>1, MigAlways, PTL

-----------------------------------------------------------------------------
(* What a step may make of a row while the vectors and what the indexers   *)
(* have read stay as they are.                                             *)
Shift(r, s) ==
    \/ s = r
    \/ r = Unborn /\ s \in AnyRow
    \/ r \in AnyRow /\ s \in AnyRow /\ r.revision < s.revision
    \/ s = Deleted

LEMMA ShiftVectors ==
  ASSUME RowInv, IndexTypes, VectorInv, RowInv', \A i \in Id : Shift(rows[i], rows'[i]),
         UNCHANGED <<vectors, pending>>
  PROVE  VectorInv'
<1>0. RowTypes /\ RowTypes'  BY DEF RowInv
<1>1. ASSUME NEW i \in Id
      PROVE  /\ Exists(i) <=> rows[i] \in AnyRow
             /\ Exists(i)' <=> rows'[i] \in AnyRow
             /\ rows[i] \in AnyRow => rows[i] \notin Gone /\ rows[i].revision \in Nat
             /\ rows'[i] \in AnyRow => rows'[i] \notin Gone /\ rows'[i].revision \in Nat
  <2>1. rows'[i] \in AnyRow \cup Gone  BY <1>0 DEF RowTypes
  <2>2. rows'[i] \in AnyRow => Exists(i)'  BY DEF AnyRow, Exists
  <2>3. rows'[i] \in Gone => ~Exists(i)'  BY DEF Gone, Unborn, Deleted, Exists, Lifecycle
  <2>. QED  BY <1>0, <2>1, <2>2, <2>3, ExistsRow, RowFields
<1>2. Deleted # Unborn /\ {Deleted, Unborn} \subseteq Gone
  BY DEF Deleted, Unborn, Gone
<1>3. ASSUME NEW x \in Indexer, NEW i \in DOMAIN pending[x] PROVE i \in Born' /\ ReadOK(i, pending[x][i])'
  <2>1. i \in Id /\ pending[x][i] \in Snapshot  BY DEF IndexTypes
  <2>2. rows[i] # Unborn /\ ReadOK(i, pending[x][i])  BY DEF VectorInv, Born
  <2>3. Shift(rows[i], rows'[i])  BY <2>1
  <2>4. rows'[i] # Unborn  BY <1>1, <1>2, <2>1, <2>2, <2>3 DEF Shift
  <2>5. i \in Born'  BY <2>1, <2>4 DEF Born
  <2>6. ReadOK(i, pending[x][i])'
    <3>. SUFFICES ASSUME Exists(i)' PROVE ReadOK(i, pending[x][i])'
      BY DEF ReadOK
    <3>1. rows'[i] \in AnyRow  BY <1>1, <2>1
    <3>2. CASE rows'[i] = rows[i]  BY <2>2, <3>2 DEF ReadOK, Exists
    <3>3. CASE rows[i] \in AnyRow /\ rows[i].revision < rows'[i].revision
      <4>1. Exists(i) /\ rows[i].revision \in Nat /\ rows'[i].revision \in Nat  BY <1>1, <2>1, <3>1, <3>3
      <4>2. pending[x][i].revision \in Nat  BY <2>1 DEF Snapshot, Revision
      <4>3. pending[x][i].revision <= rows[i].revision  BY <2>2, <4>1 DEF ReadOK
      <4>4. pending[x][i].revision < rows'[i].revision  BY <3>3, <4>1, <4>2, <4>3
      <4>. QED  BY <4>1, <4>2, <4>4 DEF ReadOK
    <3>. QED  BY <1>1, <1>2, <2>1, <2>2, <2>3, <3>1, <3>2, <3>3 DEF Shift
  <2>. QED  BY <2>5, <2>6
<1>4. ASSUME NEW i \in Id, vectors[i] # NoVector
      PROVE  rows'[i] # Unborn /\ (Exists(i)' => /\ vectors[i].revision <= rows'[i].revision
                                                 /\ Found(i)' => vectors[i] = VectorOf(rows'[i]))
  <2>1. rows[i] # Unborn /\ (Exists(i) => /\ vectors[i].revision <= rows[i].revision
                                          /\ Found(i) => vectors[i] = VectorOf(rows[i]))
    BY <1>4 DEF VectorInv, VectorOK
  <2>2. Shift(rows[i], rows'[i])  OBVIOUS
  <2>3. vectors[i].revision \in Nat  BY <1>4 DEF IndexTypes, Vector, Revision
  <2>4. rows'[i] # Unborn  BY <1>1, <1>2, <2>1, <2>2 DEF Shift
  <2>5. CASE rows'[i] = rows[i]  BY <2>1, <2>4, <2>5 DEF Exists, Found
  <2>6. CASE rows[i] \in AnyRow /\ rows'[i] \in AnyRow /\ rows[i].revision < rows'[i].revision
    <3>1. Exists(i) /\ rows[i].revision \in Nat /\ rows'[i].revision \in Nat  BY <1>1, <2>6
    <3>2. vectors[i].revision < rows'[i].revision  BY <2>1, <2>3, <2>6, <3>1
    <3>3. ~Found(i)'  BY <2>3, <3>1, <3>2 DEF Found
    <3>. QED  BY <2>3, <2>4, <3>1, <3>2, <3>3
  <2>7. CASE rows'[i] = Deleted  BY <1>1, <1>2, <2>4, <2>7
  <2>. QED  BY <2>1, <2>2, <2>5, <2>6, <2>7 DEF Shift
<1>5. ASSUME NEW i \in Id PROVE VectorOK(i)'
  <2>1. vectors'[i] = vectors[i]  OBVIOUS
  <2>2. CASE vectors'[i] = NoVector  BY <2>2 DEF VectorOK
  <2>3. CASE vectors'[i] # NoVector
    <3>1. vectors[i] # NoVector  BY <2>1, <2>3
    <3>2. rows'[i] # Unborn /\ (Exists(i)' => /\ vectors'[i].revision <= rows'[i].revision
                                              /\ Found(i)' => vectors'[i] = VectorOf(rows'[i]))
      BY <1>4, <2>1, <3>1
    <3>. QED  BY <3>2 DEF VectorOK
  <2>. QED  BY <2>2, <2>3
<1>. QED  BY <1>3, <1>5 DEF VectorInv

LEMMA QuietShift ==
  ASSUME NEW r, NEW s, Quiet(r, s) PROVE Shift(r, s)
<1>1. CASE s = r  BY <1>1 DEF Shift
<1>2. CASE r \in AnyRow /\ TakenOut(r, s)
  <2>1. PICK reason \in Lifecycle \ {"active"} : s = TakeOut(r, reason)  BY <1>2 DEF TakenOut
  <2>2. s \in AnyRow /\ s.revision = r.revision + 1  BY <1>2, <2>1, TakeOutRow
  <2>3. r.revision < s.revision  BY <1>2, <2>2, RowFields
  <2>. QED  BY <1>2, <2>2, <2>3 DEF Shift
<1>3. CASE r \in AnyRow /\ Cleaned(r, s)
  <2>1. s \in AnyRow /\ s.revision = r.revision + 1  BY <1>3, ClearRow DEF Cleaned
  <2>2. r.revision < s.revision  BY <1>3, <2>1, RowFields
  <2>. QED  BY <1>3, <2>1, <2>2 DEF Shift
<1>4. CASE r \in AnyRow /\ Removed(r, s)  BY <1>4 DEF Shift, Removed
<1>. QED  BY <1>1, <1>2, <1>3, <1>4 DEF Quiet

LEMMA QuietVectors ==
  ASSUME RowInv, IndexTypes, VectorInv, RowInv', QuietOnly, UNCHANGED <<vectors, pending>>
  PROVE  VectorInv'
<1>1. \A i \in Id : Shift(rows[i], rows'[i])  BY QuietShift DEF QuietOnly
<1>. QED  BY <1>1, ShiftVectors

LEMMA PutVectors ==
  ASSUME RowInv, IndexTypes, VectorInv, RowInv', NEW k \in Key, NEW kind \in Written, NEW text \in Texts,
         PutMemory(k, kind, text)
  PROVE  VectorInv'
<1>1. PICK i \in Id :
        /\ rows[i] = Unborn
        /\ \E m : rows' = [j \in Id |->
             IF j = i THEN [key |-> k, kind |-> kind, text |-> text, status |-> "active",
                            revision |-> m, value |-> TRUE, indexed |-> FALSE]
             ELSE IF j \in Active(k) THEN TakeOut(rows[j], "superseded") ELSE rows[j]]
  <2>. DEFINE m == IF Active(k) = {} THEN 1 ELSE 1 + rows[CHOOSE j \in Active(k) : TRUE].revision
  <2>1. \E i \in Id :
        /\ rows[i] = Unborn
        /\ rows' = [j \in Id |->
             IF j = i THEN [key |-> k, kind |-> kind, text |-> text, status |-> "active",
                            revision |-> m, value |-> TRUE, indexed |-> FALSE]
             ELSE IF j \in Active(k) THEN TakeOut(rows[j], "superseded") ELSE rows[j]]
    BY DEF PutMemory
  <2>. HIDE DEF m
  <2>. QED  BY <2>1
<1>2. ASSUME NEW j \in Id PROVE Shift(rows[j], rows'[j])
  <2>1. CASE j = i
    <3>1. rows'[i].status = "active" /\ rows'[i].value = TRUE /\ rows'[i].indexed = FALSE  BY <1>1
    <3>2. Exists(i)'  BY <3>1 DEF Exists, Lifecycle
    <3>3. rows'[i] \in AnyRow \cup Gone  BY DEF RowInv, RowTypes
    <3>4. rows'[i] \notin Gone  BY <3>1 DEF Gone, Unborn, Deleted
    <3>. QED  BY <1>1, <2>1, <3>1, <3>3, <3>4 DEF Shift
  <2>2. CASE j # i
    <3>1. j \in Active(k) => rows[j] \in AnyRow /\ rows[j].status = "active"
      BY ExistsRow DEF Active, RowInv
    <3>2. Quiet(rows[j], rows'[j])  BY <1>1, <2>2, <3>1, QuietKinds
    <3>. QED  BY <3>2, QuietShift
  <2>. QED  BY <2>1, <2>2
<1>3. UNCHANGED <<vectors, pending>>  BY DEF PutMemory
<1>. QED  BY <1>2, <1>3, ShiftVectors

LEMMA MoveVectors ==
  ASSUME MigInv, VectorInv, RowInv', NEW p \in Processor, MigrateOne(p)
  PROVE  VectorInv'
<1>0. RowTypes /\ RowInv /\ TaskInv /\ IndexTypes  BY DEF MigInv, RowInv
<1>1. PICK i \in Id : /\ Exists(i) /\ rows[i].kind = Source
                      /\ rows' = [rows EXCEPT ![i] = Moved(rows[i])]
  BY <1>0, MigrateForm
<1>2. ASSUME NEW j \in Id PROVE Shift(rows[j], rows'[j])
  <2>1. CASE j = i
    <3>1. rows[i] \in AnyRow /\ rows'[i] = Moved(rows[i])  BY <1>0, <1>1, ExistsRow DEF RowTypes
    <3>2. /\ rows'[i] \in AnyRow /\ rows'[i].value = rows[i].value
          /\ rows'[i].revision = rows[i].revision + 1
          /\ rows'[i].status = rows[i].status /\ rows'[i].indexed = FALSE
      <4>1. PICK r \in AnyRow : r = rows[i]  BY <3>1
      <4>2. /\ Moved(r) \in AnyRow /\ Moved(r).value = r.value /\ Moved(r).revision = r.revision + 1
            /\ Moved(r).status = r.status /\ Moved(r).indexed = FALSE
        BY MovedRow
      <4>. QED  BY <3>1, <4>1, <4>2
    <3>3. rows[i].revision < rows'[i].revision  BY <3>1, <3>2, RowFields
    <3>. QED  BY <2>1, <3>1, <3>2, <3>3 DEF Shift
  <2>2. CASE j # i
    <3>1. rows'[j] = rows[j]  BY <1>0, <1>1, <2>2 DEF RowTypes
    <3>. QED  BY <3>1 DEF Shift
  <2>. QED  BY <2>1, <2>2
<1>3. UNCHANGED <<vectors, pending>>  BY DEF MigrateOne
<1>. QED  BY <1>0, <1>2, <1>3, ShiftVectors

(* The rows and the vectors stay, and less is left to process. *)
LEMMA ShrinkVectors ==
  ASSUME VectorInv, IndexTypes, UNCHANGED <<rows, vectors>>,
         \A y \in Indexer : /\ DOMAIN pending'[y] \subseteq DOMAIN pending[y]
                            /\ \A j \in DOMAIN pending'[y] : pending'[y][j] = pending[y][j]
  PROVE  VectorInv'
<1>1. ASSUME NEW y \in Indexer, NEW j \in DOMAIN pending'[y]
      PROVE  j \in Born' /\ ReadOK(j, pending[y][j])'
  <2>1. j \in DOMAIN pending[y] /\ pending'[y][j] = pending[y][j]  OBVIOUS
  <2>2. j \in Born /\ ReadOK(j, pending[y][j])  BY <2>1 DEF VectorInv
  <2>. QED  BY <2>1, <2>2 DEF Born, ReadOK, Exists
<1>2. \A i \in Id : VectorOK(i)'  BY DEF VectorInv, VectorOK, Found, Exists
<1>. QED  BY <1>1, <1>2 DEF VectorInv

(* What an indexer reads is current when it is read. *)
LEMMA FindVectors ==
  ASSUME RowInv, IndexTypes, VectorInv, NEW x \in Indexer, FindMemoriesPendingIndexing(x)
  PROVE  VectorInv'
<1>. DEFINE read == [i \in Unindexed |-> [kind |-> rows[i].kind, text |-> rows[i].text,
                                          revision |-> rows[i].revision, status |-> rows[i].status]]
<1>1. DOMAIN read = Unindexed
      /\ \A i \in Unindexed : /\ read[i].kind = rows[i].kind /\ read[i].text = rows[i].text
                              /\ read[i].revision = rows[i].revision /\ read[i].status = rows[i].status
  OBVIOUS
<1>2. pending' = [pending EXCEPT ![x] = read] /\ UNCHANGED <<rows, vectors>>
  BY DEF FindMemoriesPendingIndexing
<1>. HIDE DEF read
<1>3. pending'[x] = read /\ \A y \in Indexer : y # x => pending'[y] = pending[y]
  BY <1>2 DEF IndexTypes
<1>4. \A i \in Unindexed : i \in Id /\ Exists(i)  BY DEF Unindexed
<1>5. ASSUME NEW y \in Indexer, NEW i \in DOMAIN pending'[y]
      PROVE  i \in Born' /\ ReadOK(i, pending[y][i])'
  <2>1. CASE y = x
    <3>1. i \in Unindexed /\ i \in Id /\ Exists(i)  BY <1>1, <1>3, <1>4, <2>1
    <3>2. rows[i] \in AnyRow /\ rows[i] # Unborn
      BY <3>1, ExistsRow DEF RowInv, Gone
    <3>3. rows[i].revision \in Nat  BY <3>2, RowFields
    <3>4. i \in Born'  BY <1>2, <3>1, <3>2 DEF Born
    <3>5. PICK r : r = pending'[y][i]  OBVIOUS
    <3>6. r.revision = rows[i].revision /\ r.status = rows[i].status /\ r.text = rows[i].text
      BY <1>1, <1>3, <2>1, <3>1, <3>5
    <3>7. ReadOK(i, r)'  BY <1>2, <3>1, <3>3, <3>6 DEF ReadOK
    <3>. QED  BY <3>4, <3>5, <3>7 DEF ReadOK
  <2>2. CASE y # x
    <3>1. pending'[y] = pending[y]  BY <1>3, <2>2
    <3>2. i \in Born /\ ReadOK(i, pending[y][i])  BY <3>1 DEF VectorInv
    <3>. QED  BY <1>2, <3>1, <3>2 DEF Born, ReadOK, Exists
  <2>. QED  BY <2>1, <2>2
<1>6. \A i \in Id : VectorOK(i)'  BY <1>2 DEF VectorInv, VectorOK, Found, Exists
<1>. QED  BY <1>5, <1>6 DEF VectorInv

(* An indexer writes the vectors of what it has read, current or not, and   *)
(* whoever else has read the row; the mark is all that may change of it.    *)
LEMMA IndexVectors ==
  ASSUME RowInv, IndexTypes, VectorInv, NEW x \in Indexer, NEW i \in Id, IndexRow(x, i)
  PROVE  VectorInv'
<1>. USE DEF IndexRow
<1>0. RowTypes  BY DEF RowInv
<1>1. PICK r \in Snapshot : r = pending[x][i]  BY DEF IndexTypes
<1>2. ReadOK(i, r) /\ rows[i] # Unborn  BY <1>1 DEF VectorInv, Born
<1>3. vectors'[i] = VectorOf(r) /\ \A j \in Id : j # i => vectors'[j] = vectors[j]
  BY <1>1 DEF IndexTypes
<1>4. \A y \in Indexer : /\ DOMAIN pending'[y] \subseteq DOMAIN pending[y]
                         /\ \A j \in DOMAIN pending'[y] : pending'[y][j] = pending[y][j]
  BY DoneTypes
<1>5. \A j \in Id : j # i => rows'[j] = rows[j]  BY <1>0 DEF SetIndexed, RowTypes
<1>6. /\ rows'[i] # Unborn
      /\ Exists(i)' <=> Exists(i)
      /\ Exists(i) => /\ rows'[i].kind = rows[i].kind /\ rows'[i].text = rows[i].text
                      /\ rows'[i].revision = rows[i].revision /\ rows'[i].status = rows[i].status
  <2>1. CASE rows'[i] = rows[i]  BY <1>2, <2>1 DEF Exists
  <2>2. CASE Exists(i) /\ rows'[i] = [rows[i] EXCEPT !.indexed = TRUE]
    <3>1. rows[i] \in AnyRow  BY <1>0, <2>2, ExistsRow
    <3>2. rows'[i] \in AnyRow /\ rows'[i].kind = rows[i].kind /\ rows'[i].text = rows[i].text
          /\ rows'[i].revision = rows[i].revision /\ rows'[i].status = rows[i].status
      BY <2>2, <3>1, MarkRow
    <3>3. rows'[i] \notin Gone /\ rows'[i].status \in Lifecycle  BY <3>2, RowFields
    <3>. QED  BY <2>2, <3>2, <3>3 DEF Gone, Exists
  <2>3. rows'[i] = rows[i] \/ (Exists(i) /\ rows'[i] = [rows[i] EXCEPT !.indexed = TRUE])
    BY <1>0 DEF SetIndexed, RowTypes
  <2>. QED  BY <2>1, <2>2, <2>3
<1>7. ASSUME NEW y \in Indexer, NEW j \in DOMAIN pending'[y]
      PROVE  j \in Born' /\ ReadOK(j, pending[y][j])'
  <2>1. j \in DOMAIN pending[y] /\ pending'[y][j] = pending[y][j] /\ j \in Id
    BY <1>4 DEF IndexTypes
  <2>2. j \in Born /\ ReadOK(j, pending[y][j])  BY <2>1 DEF VectorInv
  <2>3. CASE j # i
    <3>1. rows'[j] = rows[j]  BY <1>5, <2>1, <2>3
    <3>. QED  BY <2>1, <2>2, <3>1 DEF Born, ReadOK, Exists
  <2>4. CASE j = i
    <3>1. j \in Born'  BY <1>6, <2>1, <2>4 DEF Born
    <3>. QED  BY <1>6, <2>1, <2>2, <2>4, <3>1 DEF ReadOK
  <2>. QED  BY <2>3, <2>4
<1>8. ASSUME NEW j \in Id PROVE VectorOK(j)'
  <2>1. CASE j # i
    <3>1. rows'[j] = rows[j] /\ vectors'[j] = vectors[j]  BY <1>3, <1>5, <2>1
    <3>2. VectorOK(j)  BY DEF VectorInv
    <3>. QED  BY <3>1, <3>2 DEF VectorOK, Found, Exists
  <2>2. CASE j = i
    <3>1. ASSUME VectorOf(r) # NoVector, Exists(i)
          PROVE  /\ VectorOf(r).revision <= rows'[i].revision
                 /\ Found(i)' => VectorOf(r) = VectorOf(rows'[i])
      <4>1. VectorOf(r) = [kind |-> r.kind, revision |-> r.revision]  BY <3>1 DEF VectorOf
      <4>2. r.revision <= rows'[i].revision  BY <1>2, <1>6, <3>1 DEF ReadOK
      <4>3. ASSUME Found(i)' PROVE VectorOf(r) = VectorOf(rows'[i])
        <5>1. r.revision = rows[i].revision /\ r.kind = rows[i].kind
          BY <1>3, <1>6, <3>1, <4>1, <4>3 DEF Found
        <5>2. r.status = rows'[i].status /\ r.text = rows'[i].text
          BY <1>2, <1>6, <3>1, <5>1 DEF ReadOK
        <5>. QED  BY <1>6, <3>1, <5>1, <5>2 DEF VectorOf
      <4>. QED  BY <4>1, <4>2, <4>3
    <3>. QED  BY <1>3, <1>6, <2>2, <3>1 DEF VectorOK
  <2>. QED  BY <2>1, <2>2
<1>. QED  BY <1>7, <1>8 DEF VectorInv

LEMMA InitVectors == ASSUME Init PROVE VectorInv
<1>. USE DEF Init
<1>1. \A x \in Indexer : DOMAIN pending[x] = {}  BY NoPage
<1>2. \A i \in Id : VectorOK(i)  BY DEF VectorOK
<1>. QED  BY <1>1, <1>2 DEF VectorInv

LEMMA KeptVectors ==
  ASSUME VectorInv, IndexTypes, UNCHANGED <<rows, vectors, pending>> PROVE VectorInv'
BY ShrinkVectors

LEMMA MemoryVectors ==
  ASSUME RowInv, IndexTypes, VectorInv, RowInv', MemoryNext
  PROVE  VectorInv'
<1>1. CASE \E k \in Key, kind \in Written, text \in Texts : PutMemory(k, kind, text)
  BY <1>1, PutVectors
<1>2. CASE MemoryQuiet
  <2>1. QuietOnly /\ UNCHANGED <<vectors, pending>>  BY <1>2, MemoryQuietRows DEF RowInv
  <2>. QED  BY <2>1, QuietVectors
<1>3. CASE \E x \in Indexer : \E i \in Id : IndexRow(x, i)  BY <1>3, IndexVectors
<1>4. CASE \E x \in Indexer : FindMemoriesPendingIndexing(x)  BY <1>4, FindVectors
<1>5. CASE \E x \in Indexer : IndexerRestarts(x)
  <2>1. PICK x \in Indexer : IndexerRestarts(x)  BY <1>5
  <2>2. DOMAIN pending'[x] = {} /\ \A y \in Indexer : y # x => pending'[y] = pending[y]
    BY <2>1, NoPage DEF IndexerRestarts, IndexTypes
  <2>3. UNCHANGED <<rows, vectors>>  BY <2>1 DEF IndexerRestarts
  <2>. QED  BY <2>2, <2>3, ShrinkVectors
<1>6. CASE \E x \in Indexer : \E i \in Id : IndexFails(x, i)
  <2>1. PICK x \in Indexer, i \in Id : IndexFails(x, i)  BY <1>6
  <2>2. Done(x, i) /\ UNCHANGED <<rows, vectors>>  BY <2>1 DEF IndexFails
  <2>. QED  BY <2>2, DoneTypes, ShrinkVectors
<1>. QED  BY <1>1, <1>2, <1>3, <1>4, <1>5, <1>6, Zenon DEF MemoryNext, MemoryQuiet

LEMMA NextVectors ==
  ASSUME MigInv, VectorInv, [Next]_vars
  PROVE  VectorInv'
<1>0. MigInv' /\ RowInv /\ RowInv' /\ IndexTypes  BY NextMig DEF MigInv
<1>1. CASE MemoryNext  BY <1>0, <1>1, MemoryVectors
<1>2. CASE \E p \in Processor : MigrateOne(p)  BY <1>0, <1>2, MoveVectors
<1>3. CASE UNCHANGED <<rows, vectors, pending>>  BY <1>0, <1>3, KeptVectors
<1>4. CASE CreateMemoryKindMigrationAndTask \/ CancelRequested \/ \E n \in DOMAIN tasks : ClaimLapses(n)
  BY <1>3, <1>4 DEF CreateMemoryKindMigrationAndTask, CancelRequested, ClaimLapses, memoryVars
<1>5. CASE \E p \in Processor : MarkMigrationFailed(p) \/ ProcessorStops(p) \/ BatchFails(p)
  BY <1>3, <1>5 DEF MarkMigrationFailed, ProcessorStops, BatchFails
<1>6. ASSUME NEW p \in Processor, Process(p) PROVE VectorInv'
  <2>. USE DEF memoryVars
  <2>1. CASE \E n \in DOMAIN tasks : ClaimReadyTask(p, n)  BY <1>3, <2>1 DEF ClaimReadyTask
  <2>2. CASE Load(p) \/ PersistCanceled(p) \/ PersistRunning(p)
    BY <1>3, <2>2, Zenon DEF Load, PersistCanceled, PersistRunning
  <2>3. CASE FindMemoriesToMigrate(p) \/ CheckCanceled(p) \/ SkipTombstone(p) \/ MigrateConflict(p)
    BY <1>3, <2>3, Zenon DEF FindMemoriesToMigrate, CheckCanceled, SkipTombstone, MigrateConflict
  <2>4. CASE Enqueue(p) \/ Sweep(p) \/ DeleteTask(p) \/ FailTask(p)
    BY <1>3, <2>4, Zenon DEF Enqueue, Sweep, DeleteTask, FailTask
  <2>5. CASE MigrateOne(p)  BY <1>2, <2>5
  <2>. QED  BY <1>6, <2>1, <2>2, <2>3, <2>4, <2>5, Zenon DEF Process
<1>7. CASE UNCHANGED vars  BY <1>3, <1>7 DEF vars, memoryVars
<1>. QED  BY <1>1, <1>4, <1>5, <1>6, <1>7, Zenon DEF Next

(* Whatever the search finds is what the indexer would write for the row as *)
(* it is, for any number of indexers and processors: a change of the row    *)
(* raises its revision, so neither a vector nor anything an indexer has     *)
(* read is current unless kind and revision agree with the row              *)
(* (SearchMemoryVectors, SetMemoryKindIndexedAtCAS, MigrateMemoryKindCAS).  *)
THEOREM SearchIsCurrent == Spec => []SearchFindsCurrent
<1>1. Init => MigInv /\ VectorInv  BY InitMig, InitVectors
<1>2. MigInv /\ VectorInv /\ [Next]_vars => (MigInv /\ VectorInv)'  BY NextMig, NextVectors
<1>3. MigInv /\ VectorInv => SearchFindsCurrent
  <2>. SUFFICES ASSUME MigInv, VectorInv, NEW i \in Id, Found(i)
                PROVE  vectors[i] = VectorOf(rows[i])
    BY DEF SearchFindsCurrent
  <2>1. rows[i] \in AnyRow /\ Exists(i)  BY ExistsRow DEF Found, MigInv, RowInv
  <2>2. rows[i].revision # 0  BY <2>1 DEF AnyRow
  <2>3. vectors[i] # NoVector  BY <2>2 DEF Found, NoVector
  <2>. QED  BY <2>1, <2>3 DEF VectorInv, VectorOK
<1>. QED  BY <1>1, <1>2, <1>3, PTL DEF Spec
=============================================================================
