---------------------------- MODULE KindMigration ----------------------------
(***************************************************************************)
(* A migration of memories from one kind to another, run by the background *)
(* task processors over the rows of EpisodicMemory while these are         *)
(* written, archived, expired, indexed and deleted.                        *)
(*                                                                         *)
(* The migration is a record with a state and a chain of tasks.  A task    *)
(* scans one page of source rows above its cursor, moves each row with a   *)
(* compare-and-set, and enqueues its successor before it is deleted.  At   *)
(* the end of the rows one transaction sweeps the table again from its     *)
(* start: rows that became visible below the cursor send the chain back to *)
(* the start, otherwise the migration has succeeded.                       *)
(*                                                                         *)
(* The name of a task is unique, and the names after X and restart from X  *)
(* recur.  A duplicate aborts the transaction that inserts it, so although *)
(* CreateMemoryKindMigrationTask drops the error, the commit reports it    *)
(* and the task that was executed is tried again.                          *)
(***************************************************************************)
EXTENDS EpisodicMemory

CONSTANTS
    Source, Target,   \* the kinds of the migration
    Processor,        \* task processors, one per process
    PageSize,         \* migrationBatchSize
    Old               \* the rows that are tombstones of the source kind at the start

ASSUME KindsAssumption == {Source, Target} \subseteq Kind /\ Source # Target
ASSUME OldAssumption == Old \subseteq 1..MaxRows
ASSUME PageAssumption == PageSize \in Nat \ {0}

VARIABLES
    state,        \* the state of the migration, "none" before it is created
    migrated,     \* migrated_count
    tasks,        \* the tasks of the migration: name -> "ready" or "claimed"
    proc,         \* what a processor is doing
    moved,        \* ghost: the rows that were moved
    swept         \* ghost: the rows the last sweep read

migrationVars == <<state, migrated, tasks, proc, moved, swept>>
vars == <<memoryVars, migrationVars>>

Unfinished == {"queued", "running", "canceling"}
Terminal == {"succeeded", "failed", "canceled"}

\* Task names.  The body of a task holds its cursor: the row after which it
\* scans, 0 for the first task and for a restart.
First == <<"first", 0>>
After(i) == <<"after", i>>
Restart(i) == <<"restart", i>>
TaskName == {First} \cup {After(i) : i \in Id} \cup {Restart(i) : i \in {0} \cup Id}
Cursor(n) == IF n[1] = "after" THEN n[2] ELSE 0

\* What a batch keeps of a row it has scanned; its kind is Source.
Candidates == [revision : Revision, value : BOOLEAN]

\* A processor with a task: `holds` says whether the row of the task it claimed
\* still exists; `page` is what remains of the rows it scanned and `last` the
\* last row it has processed.
Idle == [at |-> "idle"]
At(p, place) == proc[p].at = place
Busy(p) == ~At(p, "idle")
Goto(p, place) == proc' = [proc EXCEPT ![p].at = place]

\* The batch is over, well or in error: what it had read is dropped.
End(p, place) == proc' = [proc EXCEPT ![p].at = place, ![p].page = <<>>, ![p].last = 0]

\* A row that was written, archived, indexed, cleared and indexed again.
Tombstone(k) == [key |-> k, kind |-> Source, text |-> FALSE, revision |-> 3,
                 status |-> "archived", value |-> FALSE, indexed |-> TRUE]

Init ==
    /\ \E k \in Key : rows = [i \in Id |-> IF i \in Old THEN Tombstone(k) ELSE Unborn]
    /\ vectors = [i \in Id |-> NoVector]
    /\ pending = [x \in Indexer |-> <<>>]
    /\ faults = 0
    /\ state = "none" /\ migrated = 0
    /\ tasks = <<>>
    /\ proc = [p \in Processor |-> Idle]
    /\ moved = {} /\ swept = {}

(***************************************************************************)
(* The administrator.                                                      *)
(***************************************************************************)
CreateMemoryKindMigrationAndTask ==
    /\ state = "none"
    /\ state' = "queued"
    /\ tasks' = [n \in {First} |-> "ready"]
    /\ UNCHANGED <<memoryVars, migrated, proc, moved, swept>>

CancelRequested ==
    /\ state \in {"queued", "running"}
    /\ state' = "canceling"
    /\ UNCHANGED <<memoryVars, migrated, tasks, proc, moved, swept>>

(***************************************************************************)
(* The task table.                                                         *)
(***************************************************************************)
ClaimReadyTask(p, n) ==
    /\ ~Busy(p)
    /\ n \in DOMAIN tasks /\ tasks[n] = "ready"
    /\ tasks' = [tasks EXCEPT ![n] = "claimed"]
    /\ proc' = [proc EXCEPT ![p] = [at |-> "load", task |-> n, holds |-> TRUE,
                                    page |-> <<>>, last |-> 0]]
    /\ UNCHANGED <<memoryVars, state, migrated, moved, swept>>

Holders(n) == {p \in Processor : Busy(p) /\ proc[p].holds /\ proc[p].task = n}

\* A claim lasts five minutes: one whose processor stopped lapses, and so may
\* one whose processor is slow.
ClaimLapses(n) ==
    /\ n \in DOMAIN tasks /\ tasks[n] = "claimed"
    /\ \/ Holders(n) = {} /\ UNCHANGED faults
       \/ Holders(n) # {} /\ faults < MaxFaults /\ faults' = faults + 1
    /\ tasks' = [tasks EXCEPT ![n] = "ready"]
    /\ UNCHANGED <<rows, vectors, pending, state, migrated, proc, moved, swept>>

\* The batch returned nil, or failed for good: the row of the task is deleted.
\* Another processor that claimed the same row now works for a task that is gone.
DeleteTask(p) ==
    /\ At(p, "done")
    /\ LET n == proc[p].task
       IN  /\ tasks' = IF proc[p].holds THEN Restrict(tasks, DOMAIN tasks \ {n}) ELSE tasks
           /\ proc' = [q \in Processor |->
                         IF q = p THEN Idle
                         ELSE IF proc[p].holds /\ q \in Holders(n)
                              THEN [proc[q] EXCEPT !.holds = FALSE]
                         ELSE proc[q]]
    /\ UNCHANGED <<memoryVars, state, migrated, moved, swept>>

\* Mutant: a batch that fails is not tried again.
FailTask_Drops(p) ==
    /\ At(p, "error")
    /\ tasks' = IF proc[p].holds THEN Restrict(tasks, DOMAIN tasks \ {proc[p].task}) ELSE tasks
    /\ proc' = [q \in Processor |->
                  IF q = p THEN Idle
                  ELSE IF proc[p].holds /\ q \in Holders(proc[p].task)
                       THEN [proc[q] EXCEPT !.holds = FALSE] ELSE proc[q]]
    /\ UNCHANGED <<memoryVars, state, migrated, moved, swept>>

\* The batch returned an error: the task is due again after a delay.
FailTask(p) ==
    /\ At(p, "error")
    /\ tasks' = IF proc[p].holds THEN [tasks EXCEPT ![proc[p].task] = "ready"] ELSE tasks
    /\ proc' = [proc EXCEPT ![p] = Idle]
    /\ UNCHANGED <<memoryVars, state, migrated, moved, swept>>

\* The process stops in the middle of a batch.
ProcessorStops(p) ==
    /\ Busy(p)
    /\ faults < MaxFaults
    /\ faults' = faults + 1
    /\ proc' = [proc EXCEPT ![p] = Idle]
    /\ UNCHANGED <<rows, vectors, pending, state, migrated, tasks, moved, swept>>

\* A datastore error anywhere in a batch: the transaction under way is rolled
\* back and the task is tried again.
BatchFails(p) ==
    /\ Busy(p) /\ ~At(p, "done") /\ ~At(p, "error")
    /\ faults < MaxFaults
    /\ faults' = faults + 1
    /\ End(p, "error")
    /\ UNCHANGED <<rows, vectors, pending, state, migrated, tasks, moved, swept>>

(***************************************************************************)
(* executeKindMigrationBatch.                                              *)
(***************************************************************************)
\* GetMemoryKindMigration, and where the batch goes from the state it read.
Load(p) ==
    /\ At(p, "load")
    /\ Goto(p, CASE state \in Terminal  -> "done"
                 [] state = "canceling" -> "cancel"
                 [] state = "queued"    -> "run"
                 [] state = "running"   -> "scan")
    /\ UNCHANGED <<memoryVars, state, migrated, tasks, moved, swept>>

\* UpdateMemoryKindMigrationState(canceled); the conflict, when another
\* processor has ended the migration since, is an error and a retry.
PersistCanceled(p) ==
    /\ At(p, "cancel")
    /\ IF state = "canceling"
       THEN state' = "canceled" /\ End(p, "done")
       ELSE UNCHANGED state /\ End(p, "error")
    /\ UNCHANGED <<memoryVars, migrated, tasks, moved, swept>>

\* UpdateMemoryKindMigrationState(running), guarded by queued; after a conflict
\* cancelMigrationIfRequested decides: stopped, or an error and a retry.
PersistRunning(p) ==
    /\ At(p, "run")
    /\ CASE state = "queued"    -> state' = "running"  /\ Goto(p, "scan")
         [] state = "canceling" -> state' = "canceled" /\ End(p, "done")
         [] state \in Terminal  -> UNCHANGED state     /\ End(p, "done")
         [] state = "running"   -> UNCHANGED state     /\ End(p, "error")
    /\ UNCHANGED <<memoryVars, migrated, tasks, moved, swept>>

\* Superseded, archived and value-less rows are candidates too.
OfSource == {i \in Id : Exists(i) /\ rows[i].kind = Source}
ToMigrate(after) == {i \in OfSource : i > after}

\* The first PageSize members of S in the order of (created_at, id).
Page(S) == {i \in S : Cardinality({j \in S : j < i}) < PageSize}

FindMemoriesToMigrate(p) ==
    /\ At(p, "scan")
    /\ LET found == Page(ToMigrate(Cursor(proc[p].task)))
           page  == [i \in found |-> [revision |-> rows[i].revision, value |-> rows[i].value]]
       IN  proc' = [proc EXCEPT ![p].at = IF page = <<>> THEN "sweep" ELSE "check",
                                ![p].page = page]
    /\ UNCHANGED <<memoryVars, state, migrated, tasks, moved, swept>>

\* cancelMigrationIfRequested, before each candidate.
CheckCanceled(p) ==
    /\ At(p, "check")
    /\ state' = IF state = "canceling" THEN "canceled" ELSE state
    /\ IF state \in Terminal \cup {"canceling"} THEN End(p, "done") ELSE Goto(p, "migrate")
    /\ UNCHANGED <<memoryVars, migrated, tasks, moved, swept>>

Candidate(p) == CHOOSE i \in DOMAIN proc[p].page : \A j \in DOMAIN proc[p].page : i <= j

\* The candidate is behind: on to the next one, or to the end of the page.
Advance(p) ==
    LET rest == Restrict(proc[p].page, DOMAIN proc[p].page \ {Candidate(p)})
    IN  proc' = [proc EXCEPT ![p].page = rest, ![p].last = Candidate(p),
                             ![p].at = IF rest = <<>> THEN "enqueue" ELSE "check"]

\* A candidate without a value cannot be projected; it keeps its kind.
SkipTombstone(p) ==
    /\ At(p, "migrate") /\ ~proc[p].page[Candidate(p)].value
    /\ Advance(p)
    /\ UNCHANGED <<memoryVars, state, migrated, tasks, moved, swept>>

\* What the compare-and-set of a row requires of it: kind and revision as scanned.
SameRow(i, r) == Exists(i) /\ rows[i].kind = Source /\ rows[i].revision = r.revision

\* The row moves and is counted in one transaction.
MigrateOne(p) ==
    /\ At(p, "migrate") /\ proc[p].page[Candidate(p)].value
    /\ LET i == Candidate(p)
       IN  /\ SameRow(i, proc[p].page[i])
           /\ rows' = [rows EXCEPT ![i].kind = Target, ![i].indexed = FALSE,
                                   ![i].revision = @ + 1]
           /\ moved' = moved \cup {i}
    /\ migrated' = migrated + 1
    /\ Advance(p)
    /\ UNCHANGED <<vectors, pending, faults, state, tasks, swept>>

\* Mutant: the counter is not in the transaction of the compare-and-set.
MigrateConflict_Counted(p) ==
    /\ At(p, "migrate") /\ proc[p].page[Candidate(p)].value
    /\ ~SameRow(Candidate(p), proc[p].page[Candidate(p)])
    /\ migrated' = migrated + 1
    /\ End(p, "error")
    /\ UNCHANGED <<memoryVars, state, tasks, moved, swept>>

\* The row changed since the scan: stop the page, keep the cursor, retry.
MigrateConflict(p) ==
    /\ At(p, "migrate") /\ proc[p].page[Candidate(p)].value
    /\ ~SameRow(Candidate(p), proc[p].page[Candidate(p)])
    /\ End(p, "error")
    /\ UNCHANGED <<memoryVars, state, migrated, tasks, moved, swept>>

\* The target is gone or does not compile, or a value cannot be decrypted, decoded
\* or projected: markMigrationFailed, which asks nothing of the state it overwrites.
MarkMigrationFailed(p) ==
    /\ At(p, "scan") \/ (At(p, "migrate") /\ proc[p].page[Candidate(p)].value)
    /\ faults < MaxFaults
    /\ faults' = faults + 1
    /\ state' = "failed"
    /\ End(p, "done")
    /\ UNCHANGED <<rows, vectors, pending, migrated, tasks, moved, swept>>

\* Mutant: a name in use counts as enqueued.
CreateTask_Ignores(p, n) ==
    /\ tasks' = IF n \in DOMAIN tasks THEN tasks
                ELSE [m \in DOMAIN tasks \cup {n} |-> IF m = n THEN "ready" ELSE tasks[m]]
    /\ End(p, "done")

\* CreateMemoryKindMigrationTask: a name in use aborts the transaction, which
\* the commit reports, and the batch ends in error.
CreateTask(p, n) ==
    IF n \in DOMAIN tasks
    THEN UNCHANGED tasks /\ End(p, "error")
    ELSE /\ tasks' = [m \in DOMAIN tasks \cup {n} |-> IF m = n THEN "ready" ELSE tasks[m]]
         /\ End(p, "done")

Enqueue(p) ==
    /\ At(p, "enqueue")
    /\ CreateTask(p, After(proc[p].last))
    /\ UNCHANGED <<memoryVars, state, migrated, moved, swept>>

\* Mutant: the sweep starts at the cursor of the task.
Replayable_AboveCursor(p) == {i \in ToMigrate(Cursor(proc[p].task)) : rows[i].value}

\* What the verification sweep finds: the source rows that have a value.
Replayable(p) == {i \in OfSource : rows[i].value}

\* The sweep and what follows from it, one transaction.  The statements of a
\* transaction see each other's past: a row committed between the last of them
\* and the commit counts as one inserted later.
Sweep(p) ==
    /\ At(p, "sweep")
    /\ CASE state \in Terminal ->
              UNCHANGED <<state, tasks, swept>> /\ End(p, "done")
         [] state = "canceling" ->
              state' = "canceled" /\ UNCHANGED <<tasks, swept>> /\ End(p, "done")
         [] state = "running" /\ Replayable(p) # {} ->
              CreateTask(p, Restart(Cursor(proc[p].task))) /\ UNCHANGED <<state, swept>>
         [] state = "running" /\ Replayable(p) = {} ->
              /\ state' = "succeeded"
              /\ swept' = {i \in Id : rows[i] # Unborn}
              /\ UNCHANGED tasks /\ End(p, "done")
    /\ UNCHANGED <<memoryVars, migrated, moved>>

Process(p) ==
    \/ \E n \in DOMAIN tasks : ClaimReadyTask(p, n)
    \/ Load(p) \/ PersistCanceled(p) \/ PersistRunning(p)
    \/ FindMemoriesToMigrate(p) \/ CheckCanceled(p)
    \/ SkipTombstone(p) \/ MigrateOne(p) \/ MigrateConflict(p)
    \/ Enqueue(p) \/ Sweep(p)
    \/ DeleteTask(p) \/ FailTask(p)

Next ==
    \/ MemoryNext /\ UNCHANGED migrationVars
    \/ CreateMemoryKindMigrationAndTask
    \/ CancelRequested
    \/ \E n \in DOMAIN tasks : ClaimLapses(n)
    \/ \E p \in Processor : \/ Process(p)
                            \/ MarkMigrationFailed(p)
                            \/ ProcessorStops(p)
                            \/ BatchFails(p)

Spec == Init /\ [][Next]_vars

\* The processors poll without end, and a claim nobody works for lapses.  Tasks
\* are claimed in the order they became due, so none is passed over for ever.
Fairness ==
    /\ \A p \in Processor : WF_vars(Process(p))
    /\ \A n \in TaskName : SF_vars(\E p \in Processor : ClaimReadyTask(p, n))
    /\ WF_vars(\E n \in DOMAIN tasks : Holders(n) = {} /\ ClaimLapses(n))

FairSpec == Spec /\ Fairness

-----------------------------------------------------------------------------
(***************************************************************************)
(* Properties.                                                             *)
(***************************************************************************)
\* The tables hold what their schemas allow, no key has two active rows
\* (PutMemory archives the row it replaces), and processors hold known tasks.
TypeOK ==
    /\ MemoryTypeOK
    /\ state \in {"none"} \cup Unfinished \cup Terminal
    /\ migrated \in 0..MaxRows
    /\ DOMAIN tasks \subseteq TaskName
    /\ \A n \in DOMAIN tasks : tasks[n] \in {"ready", "claimed"}
    /\ \A p \in Processor : Busy(p) =>
         /\ proc[p].at \in {"load", "cancel", "run", "scan", "check", "migrate",
                            "enqueue", "sweep", "done", "error"}
         /\ proc[p].task \in TaskName
         /\ proc[p].last \in {0} \cup Id
         /\ \A i \in DOMAIN proc[p].page : proc[p].page[i] \in Candidates

\* A migration that is not over has a task: however the chain is repeated,
\* restarted or run twice, some processor will take it on
\* (taskprocessor.go:581-597, 721-742, where the successor is enqueued).
ActiveHasTask == state \in Unfinished => tasks # <<>>

\* migrated_count is the number of rows that were moved, though pages are
\* retried and two processors may run one task (taskprocessor.go:694-699).
CountIsExact == migrated = Cardinality(moved)

\* After success no row the sweep could see has the source kind and a value: rows
\* committed below the cursor were not missed, and no later step brings one back.
NoRowLeftBehind ==
    state = "succeeded" => \A i \in swept : Exists(i) /\ rows[i].kind = Source => ~rows[i].value

\* A migration ends: it succeeds, fails or is canceled, through retries, claims
\* that lapse and processors that stop (taskprocessor.go:216-259, 718-743).
MigrationEnds == state = "queued" ~> state \in Terminal
=============================================================================
