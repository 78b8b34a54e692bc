--------------------------- MODULE AnalyticsExport ---------------------------
(***************************************************************************)
(* The ClickHouse analytics exporter: the processor runtime with its leased *)
(* checkpoint, the batches of the processor, and the tables they are        *)
(* written to.  Several exporter processes may run; the lease on the        *)
(* checkpoint names the one that works, but a lease may expire under a      *)
(* process that goes on.                                                    *)
(*                                                                         *)
(* An event is its number in commit order, and a cursor the number of the   *)
(* last event before it.  From a cursor the stream brings every later event *)
(* in order, or an invalidate; what retention does to it is EventStream's.  *)
(* The rows of a batch are told apart by the events they come from.         *)
(***************************************************************************)
EXTENDS Integers

CONSTANTS Process,          \* exporter processes
          MaxEvents,        \* bound: events in all
          MaxFaults,        \* bound: failures of processes, streams and writes
          MaxPauses,        \* bound: leases that expire under a process that goes on
          BatchEvents,      \* cfg.BatchEvents
          None

(* The value of a checkpoint: SafeCursor, Bootstrap.State,                  *)
(* BackfillStartCursor and BatchSequence; and a batch with its lifecycle    *)
(* rows, counted as often as they were received.                            *)
Value == [safe : Nat \cup {None}, boot : {"none", "scanning", "catchup", "complete"},
          from : Nat \cup {None}, seq : Nat]
Batch == [seq : Nat, events : SUBSET Nat, n : Nat, last : Nat \cup {None}]

VARIABLES
    committed,  \* the events so far are 1..committed
    faults, pauses,
    cp,         \* the row of admin_checkpoints
    proc,       \* Runtime and Processor
    lifecycle,  \* events with a row in lifecycle_events
    skipped     \* history: events a live marker moved the cursor past unread

vars == <<committed, faults, pauses, cp, proc, lifecycle, skipped>>
sink == <<lifecycle, skipped>>
env == <<committed, faults, pauses>>

(* The first checkpoint. *)
Fresh == [safe |-> None, boot |-> "none", from |-> None, seq |-> 0]

(* A process: what it would save and whether that differs from what it      *)
(* saved, whether it has read the newest revision, the generation of its    *)
(* lease, how far it has read the stream, and the batch it fills.           *)
Off == [pc |-> "off", next |-> "live", val |-> Fresh, dirty |-> FALSE, current |-> FALSE, gen |-> 0,
        pos |-> 0, marked |-> FALSE, pending |-> None]

Init ==
    /\ committed = 0 /\ faults = 0 /\ pauses = 0
    /\ cp = [value |-> None, gen |-> 0, owner |-> None, expired |-> FALSE]
    /\ proc = [p \in Process |-> Off]
    /\ lifecycle = {} /\ skipped = {}

-----------------------------------------------------------------------------
(* What the checkpoint table does. *)

Goes(p, w) == proc' = [proc EXCEPT ![p] = w]

LeaseFree == cp.owner = None \/ cp.expired

(* A write under a lease of this process: nobody has written since it last  *)
(* read or wrote, and nobody else holds a lease that runs.                  *)
MayPut(p) == proc[p].current /\ (LeaseFree \/ cp.owner = proc[p].gen)

(* What another process read is no longer the newest revision. *)
Put(p, w) ==
    /\ cp' = [cp EXCEPT !.value = w.val]
    /\ proc' = [q \in Process |-> IF q = p THEN w ELSE [proc[q] EXCEPT !.current = FALSE]]

(* Run returns: the process ends and its lease is released. *)
Return(p) ==
    /\ Goes(p, Off)
    /\ cp' = IF cp.owner = proc[p].gen THEN [cp EXCEPT !.owner = None, !.expired = FALSE] ELSE cp

(* The process goes on to w and saves it if it differs from what is saved;  *)
(* a conflict ends the process.                                             *)
SaveAs(p, w) ==
    IF w.val = proc[p].val /\ ~proc[p].dirty THEN Goes(p, w) /\ UNCHANGED cp
    ELSE IF MayPut(p) THEN Put(p, [w EXCEPT !.dirty = FALSE])
    ELSE Return(p)

-----------------------------------------------------------------------------
(* Run: find the checkpoint or write the first one, acquire the lease, and  *)
(* load what the checkpoint says by then.                                   *)

Start(p) ==
    /\ proc[p].pc = "off" /\ cp.value = None
    /\ Goes(p, [proc[p] EXCEPT !.pc = "put"])
    /\ UNCHANGED <<env, cp, sink>>

(* This first write asks for no revision: it overwrites whatever another    *)
(* process has saved, unless that one holds a lease.                        *)
PutInitial(p) ==
    /\ proc[p].pc = "put"
    /\ IF LeaseFree THEN Put(p, [Off EXCEPT !.pc = "acquire"]) ELSE Return(p)
    /\ UNCHANGED <<env, sink>>

(* A process that finds a checkpoint comes here at once. *)
AcquireLease(p) ==
    /\ proc[p].pc \in {"off", "acquire"} /\ cp.value # None
    /\ LeaseFree
    /\ cp' = [cp EXCEPT !.gen = @ + 1, !.owner = cp.gen + 1, !.expired = FALSE]
    /\ Goes(p, [proc[p] EXCEPT !.pc = "load", !.gen = cp.gen + 1])
    /\ UNCHANGED <<env, sink>>

AcquireConflict(p) ==
    /\ proc[p].pc = "acquire"
    /\ ~LeaseFree
    /\ Return(p)
    /\ UNCHANGED <<env, sink>>

(* SetLeaseGeneration starts the batch sequence again. *)
Load(p) ==
    /\ proc[p].pc = "load"
    /\ Goes(p, [proc[p] EXCEPT !.pc = "boot", !.val = [cp.value EXCEPT !.seq = 0],
                               !.dirty = cp.value.seq # 0, !.current = TRUE])
    /\ UNCHANGED <<env, cp, sink>>

-----------------------------------------------------------------------------
(* Bootstrap: a scan of the current state from a cursor that is saved       *)
(* before anything is read; a later run continues from that cursor.         *)

Resume(p) ==
    /\ proc[p].pc = "boot"
    /\ proc[p].val.boot \in {"catchup", "complete"}
    /\ Goes(p, [proc[p] EXCEPT !.pc = "live", !.pos = proc[p].val.safe])
    /\ UNCHANGED <<env, cp, sink>>

BeginScan(p) ==
    /\ proc[p].pc = "boot"
    /\ proc[p].val.boot \notin {"catchup", "complete"}
    /\ SaveAs(p, [proc[p] EXCEPT !.pc = "boundary", !.val.boot = "scanning"])
    /\ UNCHANGED <<env, sink>>

(* The high-water cursor that the stream's markers carry is the greatest    *)
(* number in the outbox: no less than what was sent, but a committed event  *)
(* may have no number yet, and a numbered one may not be announced yet.     *)
HighWater(sent) == sent..committed

CaptureBoundary(p) ==
    /\ proc[p].pc = "boundary"
    /\ IF proc[p].val.from # None THEN Goes(p, [proc[p] EXCEPT !.pc = "snapshot"]) /\ UNCHANGED cp
       ELSE \E h \in HighWater(0) :
              SaveAs(p, [proc[p] EXCEPT !.pc = "snapshot", !.val.from = h])
    /\ UNCHANGED <<env, sink>>

NewBatch(p) == [seq |-> proc[p].val.seq + 1, events |-> {}, n |-> 0, last |-> None]

(* What exists by then, if anything, in a batch that moves no cursor. *)
WriteBackfillPage(p) ==
    /\ proc[p].pc = "snapshot"
    /\ \/ Goes(p, [proc[p] EXCEPT !.pc = "catchup"])
       \/ Goes(p, [proc[p] EXCEPT !.pc = "tables", !.next = "catchup", !.dirty = TRUE,
                                  !.val.seq = proc[p].val.seq + 1, !.pending = NewBatch(p)])
    /\ UNCHANGED <<env, cp, sink>>

EndScan(p) ==
    LET from == proc[p].val.from IN
    /\ proc[p].pc = "catchup"
    /\ SaveAs(p, [proc[p] EXCEPT !.pc = "live", !.val.boot = "catchup", !.val.safe = from, !.pos = from])
    /\ UNCHANGED <<env, sink>>

-----------------------------------------------------------------------------
(* Consume: the event joins the batch, and a full batch is flushed. *)

AppendEvent(b, e) ==
    [b EXCEPT !.events = b.events \cup {e}, !.n = b.n + 1, !.last = e]

HandleEvent(p) ==
    LET w == proc[p]
        e == w.pos + 1
        b == AppendEvent(IF w.pending = None THEN NewBatch(p) ELSE w.pending, e)
        after == [w EXCEPT !.pos = e, !.pending = b, !.val.seq = b.seq]
    IN /\ w.pc = "live" /\ w.pos < committed
       /\ IF b.n < BatchEvents THEN SaveAs(p, after)
          ELSE Goes(p, [after EXCEPT !.pc = "lifecycle"]) /\ UNCHANGED cp
       /\ UNCHANGED <<env, sink>>

(* The marker of the live phase: events up to its cursor may reach this     *)
(* process only after it.  It is taken to be safe if nothing is pending.    *)
HandleLiveMarker(p) ==
    LET w == [proc[p] EXCEPT !.marked = TRUE] IN
    /\ w.pc = "live" /\ ~proc[p].marked
    /\ IF w.pending # None THEN SaveAs(p, w) /\ UNCHANGED skipped
       ELSE \E h \in HighWater(w.pos) :
              /\ SaveAs(p, [w EXCEPT !.val.safe = h, !.val.boot = "complete"])
              /\ skipped' = skipped \cup ((w.pos + 1)..h)
    /\ UNCHANGED <<env, lifecycle>>

(* The ticker: Flush, then save. *)
Tick(p) ==
    /\ proc[p].pc = "live" /\ proc[p].pending # None
    /\ Goes(p, [proc[p] EXCEPT !.pc = "lifecycle"])
    /\ UNCHANGED <<env, cp, sink>>

(* WriteBatch: one table after the other, and all of them again until every *)
(* write is acknowledged; only then does the cursor move.                   *)
WriteLifecycle(p) ==
    /\ proc[p].pc = "lifecycle"
    /\ lifecycle' = lifecycle \cup proc[p].pending.events
    /\ Goes(p, [proc[p] EXCEPT !.pc = "tables"])
    /\ UNCHANGED <<env, cp, skipped>>

WriteTables(p) ==
    LET w == proc[p]
        last == w.pending.last
        safe == IF last = None THEN w.val.safe ELSE last
    IN
    /\ w.pc = "tables"
    /\ Goes(p, [w EXCEPT !.pc = "save", !.pending = None, !.dirty = TRUE, !.val.safe = safe])
    /\ UNCHANGED <<env, cp, sink>>

Save(p) ==
    /\ proc[p].pc = "save"
    /\ SaveAs(p, [proc[p] EXCEPT !.pc = proc[p].next, !.next = "live"])
    /\ UNCHANGED <<env, sink>>

Ends(p) ==
    /\ proc[p].pc = "return"
    /\ Return(p)
    /\ UNCHANGED <<env, sink>>

-----------------------------------------------------------------------------
(* What goes wrong. *)

Fault == faults < MaxFaults /\ faults' = faults + 1 /\ UNCHANGED pauses

Running(p) == proc[p].pc # "off"

(* A dead owner's lease runs out; so may that of a process that is paused   *)
(* or cannot reach the server.                                              *)
LeaseExpires ==
    /\ cp.owner # None /\ ~cp.expired
    /\ cp' = [cp EXCEPT !.expired = TRUE]
    /\ pauses' = IF \E p \in Process : Running(p) /\ proc[p].gen = cp.owner THEN pauses + 1 ELSE pauses
    /\ pauses' <= MaxPauses
    /\ UNCHANGED <<committed, faults, proc, sink>>

(* A renewal fails: whatever is being done is cancelled. *)
LeaseLost(p) ==
    /\ Running(p) /\ proc[p].gen # 0
    /\ cp.owner # proc[p].gen \/ cp.expired
    /\ Return(p)
    /\ UNCHANGED <<env, sink>>

(* Recv returns io.EOF: the stream is opened again after the cursor saved   *)
(* last, and the batch stays.                                               *)
StreamBreaks(p) ==
    /\ proc[p].pc = "live"
    /\ Fault
    /\ Goes(p, [proc[p] EXCEPT !.pos = proc[p].val.safe, !.marked = FALSE])
    /\ UNCHANGED <<committed, cp, sink>>

(* Any other error of Recv, and an invalidate (errBackfillRequired), end    *)
(* Run without a flush.                                                     *)
StreamFails(p) ==
    /\ proc[p].pc = "live"
    /\ Fault
    /\ Return(p)
    /\ UNCHANGED <<committed, sink>>

(* A write fails, or arrives and is not acknowledged: the whole batch again. *)
WriteUnacknowledged(p) ==
    /\ proc[p].pc = "tables"
    /\ Fault
    /\ Goes(p, [proc[p] EXCEPT !.pc = "lifecycle"])
    /\ UNCHANGED <<committed, cp, sink>>

(* A shutdown flushes and saves once more. *)
Shutdown(p) ==
    /\ proc[p].pc = "live"
    /\ Fault
    /\ Goes(p, [proc[p] EXCEPT !.pc = IF proc[p].pending = None THEN "save" ELSE "lifecycle",
                               !.next = "return"])
    /\ UNCHANGED <<committed, cp, sink>>

(* A bootstrap that loses its stream returns an error; a crash does not     *)
(* release the lease.                                                       *)
Dies(p) ==
    /\ Running(p)
    /\ Fault
    /\ \/ Goes(p, Off) /\ UNCHANGED cp
       \/ proc[p].pc \in {"boundary", "snapshot"} /\ Return(p)
    /\ UNCHANGED <<committed, sink>>

(* Memory Service commits a change. *)
Commit ==
    /\ committed < MaxEvents
    /\ committed' = committed + 1
    /\ UNCHANGED <<faults, pauses, cp, proc, sink>>

-----------------------------------------------------------------------------
Step(p) ==
    \/ Start(p) \/ PutInitial(p) \/ AcquireLease(p) \/ AcquireConflict(p) \/ Load(p)
    \/ Resume(p) \/ BeginScan(p) \/ CaptureBoundary(p) \/ WriteBackfillPage(p) \/ EndScan(p)
    \/ HandleEvent(p) \/ HandleLiveMarker(p) \/ Tick(p)
    \/ WriteLifecycle(p) \/ WriteTables(p) \/ Save(p) \/ Ends(p) \/ LeaseLost(p)

Next ==
    \/ \E p \in Process : \/ Step(p) \/ StreamBreaks(p) \/ StreamFails(p)
                          \/ WriteUnacknowledged(p) \/ Shutdown(p) \/ Dies(p)
    \/ LeaseExpires
    \/ Commit

Spec == Init /\ [][Next]_vars

-----------------------------------------------------------------------------
SafeCursor == IF cp.value = None \/ cp.value.safe = None THEN 0 ELSE cp.value.safe

(* Every event after the state the export began with, and up to the saved   *)
(* cursor, has its row in lifecycle_events, whoever wrote it and however    *)
(* often it was tried: the safe cursor is "the newest source cursor for     *)
(* which every required ClickHouse write has been acknowledged" (404, the   *)
(* exporter's design), and "pendingCursor never becomes SafeCursor until    *)
(* every table write has been acknowledged" (processor.go).  The live       *)
(* marker of Handle breaks it.                                              *)
NoEventLost ==
    SafeCursor > 0 => (cp.value.from + 1)..SafeCursor \subseteq lifecycle

(* Nothing else does: an event up to the saved cursor without a row is one  *)
(* that a live marker moved the cursor past (flushLocked, Bootstrap, save,  *)
(* AdminPutCheckpointCAS).                                                  *)
OnlyMarkersSkip ==
    SafeCursor > 0 => (cp.value.from + 1)..SafeCursor \subseteq lifecycle \cup skipped
=============================================================================
