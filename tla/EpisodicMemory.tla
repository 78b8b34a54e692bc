--------------------------- MODULE EpisodicMemory ---------------------------
(***************************************************************************)
(* Episodic memories in the PostgreSQL store: the rows of the table        *)
(* memories, the rows of memory_vectors, the episodic indexer that copies  *)
(* the first into the second, and the maintenance service that expires,    *)
(* tombstones and deletes rows.                                            *)
(*                                                                         *)
(* A key has at most one active row.  A write archives that row and        *)
(* inserts another, so the history of a key is a set of rows.  Every       *)
(* change of a row increments its revision and clears indexed_at; the      *)
(* indexer reads the rows with indexed_at NULL, embeds their text outside  *)
(* any transaction, and replaces the row's vectors in one transaction that *)
(* sets indexed_at only if kind and revision are still those it read.      *)
(* The search joins vectors to rows on kind and revision, so a vector of   *)
(* another revision is never found.                                        *)
(*                                                                         *)
(* A write carries the identity and the revision of the active row it was  *)
(* authorised against and fails if the row is no longer that one, and the  *)
(* partial unique index admits one active row of a key: a write that       *)
(* succeeds has the effect of one step.  A write that fails changes        *)
(* nothing and is not a step.                                              *)
(***************************************************************************)
EXTENDS Integers, FiniteSets, Functions

CONSTANTS
    Key,          \* the pairs (namespace, key)
    Kind,         \* the registered memory kinds, "family/version"
    Written,      \* the kinds the writers select
    Texts,        \* a subset of BOOLEAN: may a write bring indexed content
    MaxRows,      \* bound: rows ever inserted
    Indexer,      \* the processes that run an indexer, one each
    MaxFaults     \* bound: failures (of an embedding, of a process, ...)

ASSUME RowsAssumption == MaxRows \in Nat
ASSUME WrittenAssumption == Written \subseteq Kind
ASSUME TextsAssumption == Texts \subseteq BOOLEAN
ASSUME FaultsAssumption == MaxFaults \in Nat

VARIABLES
    rows,         \* the table memories: row i is the i-th in the order of
                  \* (created_at, id), which is not the order of the commits
    vectors,      \* what memory_vectors holds for row i
    pending,      \* the rows an indexer has read and has not processed
    faults        \* failures so far

memoryVars == <<rows, vectors, pending, faults>>

Id == 1..MaxRows

\* A row not inserted yet, and one deleted.
Unborn  == [status |-> "unborn"]
Deleted == [status |-> "deleted"]

\* archived_at IS NULL, or archived_at with deleted_reason 0, 1, 2.
Lifecycle == {"active", "superseded", "archived", "expired"}

\* Each transition of a row happens once at most: inserted one above its
\* predecessor, then migrated, taken out of service, cleared.
Revision == 1..(4 * MaxRows)

Row == [key : Key, kind : Kind, text : BOOLEAN, revision : Revision,
        status : Lifecycle, value : BOOLEAN, indexed : BOOLEAN]

Vector == [kind : Kind, revision : Revision]
NoVector == [revision |-> 0]

\* What the indexer keeps of a row it has read.
Snapshot == [kind : Kind, text : BOOLEAN, revision : Revision, status : Lifecycle]

Exists(i) == rows[i].status \in Lifecycle
Active(k) == {i \in Id : Exists(i) /\ rows[i].status = "active" /\ rows[i].key = k}

(***************************************************************************)
(* Writes.                                                                 *)
(***************************************************************************)
\* Mutant: the statement that archives a row leaves its revision alone.
TakeOut_KeepsRevision(r, reason) == [r EXCEPT !.status = reason, !.indexed = FALSE]

\* SET archived_at, deleted_reason, indexed_at = NULL, revision = revision + 1
TakeOut(r, reason) ==
    [r EXCEPT !.status = reason, !.indexed = FALSE, !.revision = @ + 1]

\* Mutant: the write does not archive the row it replaces.
PutMemory_KeepsOld(k, kind, text) ==
    /\ \E i \in Id :
        /\ rows[i] = Unborn
        /\ rows' = [rows EXCEPT ![i] =
                      [key |-> k, kind |-> kind, text |-> text, status |-> "active",
                       revision |-> 1, value |-> TRUE, indexed |-> FALSE]]
    /\ UNCHANGED <<vectors, pending, faults>>

PutMemory(k, kind, text) ==
    /\ \E i \in Id :
        /\ rows[i] = Unborn
        /\ LET old == Active(k)
               new == [key |-> k, kind |-> kind, text |-> text, status |-> "active",
                       revision |-> IF old = {} THEN 1
                                    ELSE 1 + rows[CHOOSE j \in old : TRUE].revision,
                       value |-> TRUE, indexed |-> FALSE]
           IN  rows' = [j \in Id |-> IF j = i THEN new
                                     ELSE IF j \in old THEN TakeOut(rows[j], "superseded")
                                     ELSE rows[j]]
    /\ UNCHANGED <<vectors, pending, faults>>

ArchiveMemory(k) ==
    /\ Active(k) # {}
    /\ rows' = [j \in Id |-> IF j \in Active(k) THEN TakeOut(rows[j], "archived") ELSE rows[j]]
    /\ UNCHANGED <<vectors, pending, faults>>

\* An administrator deletes a row by its id, whatever its state.  Its vectors stay.
AdminForceDeleteMemory(i) ==
    /\ Exists(i)
    /\ rows' = [rows EXCEPT ![i] = Deleted]
    /\ UNCHANGED <<vectors, pending, faults>>

(***************************************************************************)
(* Maintenance, one action per pass.  Every replica runs the passes, so    *)
(* they come in any order.  The limits of the passes exceed MaxRows.       *)
(***************************************************************************)
\* Pass 1.  Which of the active rows have a TTL that elapsed is open.
ExpireMemories(due) ==
    /\ due # {}
    /\ \A i \in due : Exists(i) /\ rows[i].status = "active"
    /\ rows' = [i \in Id |-> IF i \in due THEN TakeOut(rows[i], "expired") ELSE rows[i]]
    /\ UNCHANGED <<vectors, pending, faults>>

EvictableUpdates == {i \in Id : Exists(i) /\ rows[i].status = "superseded" /\ rows[i].indexed}

\* Pass 2A.
HardDeleteEvictableUpdates ==
    /\ EvictableUpdates # {}
    /\ rows' = [i \in Id |-> IF i \in EvictableUpdates THEN Deleted ELSE rows[i]]
    /\ UNCHANGED <<vectors, pending, faults>>

Cleared == {i \in Id : /\ Exists(i) /\ rows[i].status \in {"archived", "expired"}
                       /\ rows[i].indexed /\ rows[i].value}

\* Pass 2B.  indexed_content stays.
TombstoneDeletedMemories ==
    /\ Cleared # {}
    /\ rows' = [i \in Id |->
                  IF i \in Cleared
                  THEN [rows[i] EXCEPT !.value = FALSE, !.indexed = FALSE, !.revision = @ + 1]
                  ELSE rows[i]]
    /\ UNCHANGED <<vectors, pending, faults>>

\* Pass 3.  Which tombstones are older than the retention is open.
HardDeleteExpiredTombstones(old) ==
    /\ old # {}
    /\ \A i \in old : /\ Exists(i) /\ ~rows[i].value
                      /\ rows[i].status \in {"archived", "expired"}
    /\ rows' = [i \in Id |-> IF i \in old THEN Deleted ELSE rows[i]]
    /\ UNCHANGED <<vectors, pending, faults>>

(***************************************************************************)
(* The indexer.  Its mutex admits one cycle at a time in a process; two    *)
(* replicas run two indexers.                                              *)
(***************************************************************************)
Unindexed == {i \in Id : Exists(i) /\ ~rows[i].indexed}

FindMemoriesPendingIndexing(x) ==
    /\ pending[x] = <<>>
    /\ Unindexed # {}
    /\ pending' = [pending EXCEPT ![x] = [i \in Unindexed |->
                      [kind |-> rows[i].kind, text |-> rows[i].text,
                       revision |-> rows[i].revision, status |-> rows[i].status]]]
    /\ UNCHANGED <<rows, vectors, faults>>

\* Only superseded and expired rows lose their vectors; a row without text,
\* or in a deployment without an embedder, has none.
VectorOf(r) ==
    IF r.status \in {"superseded", "expired"} \/ ~r.text THEN NoVector
    ELSE [kind |-> r.kind, revision |-> r.revision]

\* SetMemoryKindIndexedAtCAS: no row is updated unless kind and revision match.
SetIndexed(i, r) ==
    IF Exists(i) /\ rows[i].revision = r.revision /\ rows[i].kind = r.kind
    THEN [rows EXCEPT ![i].indexed = TRUE] ELSE rows

Done(x, i) == pending' = [pending EXCEPT ![x] = Restrict(@, DOMAIN @ \ {i})]

\* One transaction.  A conflict of the compare-and-set is no error to it: the
\* vectors of the revision that was read are committed all the same.
IndexRow(x, i) ==
    /\ i \in DOMAIN pending[x]
    /\ vectors' = [vectors EXCEPT ![i] = VectorOf(pending[x][i])]
    /\ rows' = SetIndexed(i, pending[x][i])
    /\ Done(x, i)
    /\ UNCHANGED faults

\* The embedder fails or answers with the wrong number of vectors, or the
\* transaction fails: the row is left for a later cycle.
IndexFails(x, i) ==
    /\ i \in DOMAIN pending[x]
    /\ faults < MaxFaults
    /\ faults' = faults + 1
    /\ Done(x, i)
    /\ UNCHANGED <<rows, vectors>>

\* SearchMemoryVectors joins the vectors to the rows on kind and revision.
Found(i) ==
    Exists(i) /\ vectors[i].revision = rows[i].revision /\ vectors[i].kind = rows[i].kind

\* The process stops; its successor starts with nothing read.
IndexerRestarts(x) ==
    /\ pending[x] # <<>>
    /\ faults < MaxFaults
    /\ faults' = faults + 1
    /\ pending' = [pending EXCEPT ![x] = <<>>]
    /\ UNCHANGED <<rows, vectors>>

MemoryNext ==
    \/ \E k \in Key, kind \in Written, text \in Texts : PutMemory(k, kind, text)
    \/ \E k \in Key : ArchiveMemory(k)
    \/ \E i \in Id : AdminForceDeleteMemory(i)
    \/ \E S \in SUBSET Id : ExpireMemories(S) \/ HardDeleteExpiredTombstones(S)
    \/ HardDeleteEvictableUpdates
    \/ TombstoneDeletedMemories
    \/ \E x \in Indexer :
          \/ FindMemoriesPendingIndexing(x)
          \/ IndexerRestarts(x)
          \/ \E i \in Id : IndexRow(x, i) \/ IndexFails(x, i)

-----------------------------------------------------------------------------
(***************************************************************************)
(* Properties.                                                             *)
(***************************************************************************)
\* Every table holds what its schema allows, and no key has two active rows.
MemoryTypeOK ==
    /\ rows \in [Id -> Row \cup {Unborn, Deleted}]
    /\ vectors \in [Id -> Vector \cup {NoVector}]
    /\ \A x \in Indexer : /\ DOMAIN pending[x] \subseteq Id
                          /\ \A i \in DOMAIN pending[x] : pending[x][i] \in Snapshot
    /\ faults \in 0..MaxFaults
    /\ \A k \in Key : Cardinality(Active(k)) <= 1

\* Whatever the search finds is what the indexer would write for the row as it
\* is: never a superseded or expired row, and never text of another state, though
\* several indexers embed outside any transaction and one that lost the
\* compare-and-set has committed its vectors all the same.  The search relies on
\* it (episodic_store.go:856, "SQL JOIN already enforced revision and schema
\* freshness"), and so every statement that changes a row has to raise its
\* revision.  That a row marked indexed is found at all does not follow: a slower
\* indexer may put back the vectors of an older revision.
SearchFindsCurrent ==
    \A i \in Id : Found(i) => vectors[i] = VectorOf(rows[i])
=============================================================================
