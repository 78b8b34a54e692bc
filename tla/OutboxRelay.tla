---------------------------- MODULE OutboxRelay ----------------------------
(***************************************************************************)
(* The PostgreSQL outbox and its relay: events are inserted without a      *)
(* cursor by the transactions they belong to; one instance at a time reads *)
(* the write-ahead log through a replication slot, gives each event its    *)
(* event_seq in commit order and announces it on the event bus.            *)
(*                                                                         *)
(* An event is named by its position in commit order, counted from the     *)
(* creation of the slot: what was committed before is in the table, but    *)
(* the slot does not deliver it.  Leadership is an advisory lock  *)
(* on one connection, the slot is held by another, and a leader that has   *)
(* lost either learns of it late, so two leaders may be at work at once.   *)
(***************************************************************************)
EXTENDS Integers, FiniteSets

CONSTANTS Instances,       \* processes that run the relay
          MaxEvents,       \* bound: events committed in all
          MaxTxEvents,     \* bound: events of one transaction
          MaxFaults,       \* bound: lost connections, errors, crashes
          None

ASSUME RelayAssumption ==
    /\ None \notin Instances
    /\ MaxEvents \in Nat /\ MaxTxEvents \in Nat /\ MaxFaults \in Nat

VARIABLES
    early,      \* events committed before the slot was created
    committed,  \* events 1 .. committed are in the log the slot delivers
    bounds,     \* positions in the log at which a transaction ends, and 0
    seq,        \* event_seq of each event, 0 for NULL; kept when the row is evicted
    evicted,    \* events whose row has been deleted
    created,    \* whether the replication slot exists
    confirmed,  \* confirmed_flush_lsn of the replication slot
    lock,       \* who holds the advisory lock
    slot,       \* whose connection streams from the slot
    relay,      \* the relay goroutine of each instance
    sent,       \* history: events 1 .. sent have been announced
    emitted,    \* history: the event announced last
    faults      \* failures so far

vars == <<early, committed, bounds, seq, evicted, created, confirmed, lock, slot, relay,
          sent, emitted, faults>>
feed == <<sent, emitted>>
log == <<early, committed, bounds>>
table == <<log, seq, evicted>>
server == <<created, confirmed>>

Events == 1..MaxEvents

Relay == [pc : {"candidate", "locked", "replicating", "receive", "publish"},
          pos : 0..MaxEvents,    \* processedLSN: everything up to here is announced
          end : 0..MaxEvents,    \* end of the transaction being announced
          done : 0..MaxEvents,   \* announced up to here
          upTo : 0..MaxEvents,   \* after a disconnect: the log that had been received
          last : Nat]            \* lastEventSeq

Candidate == [pc |-> "candidate", pos |-> 0, end |-> 0, done |-> 0, upTo |-> 0, last |-> 0]

(* Every variable has its shape, and the log ends with a whole transaction. *)
TypeOK ==
    /\ early \in 0..MaxEvents /\ created \in BOOLEAN
    /\ committed \in 0..MaxEvents
    /\ bounds \subseteq 0..committed /\ {0, committed} \subseteq bounds
    /\ seq \in [Events -> Nat]
    /\ evicted \subseteq 1..committed
    /\ confirmed \in bounds
    /\ lock \in Instances \cup {None}
    /\ slot \in Instances \cup {None}
    /\ relay \in [Instances -> Relay]
    /\ sent \in 0..committed /\ emitted \in 0..committed
    /\ faults \in 0..MaxFaults

Init ==
    /\ early = 0 /\ created = FALSE
    /\ committed = 0 /\ bounds = {0}
    /\ seq = [k \in Events |-> 0]
    /\ evicted = {}
    /\ confirmed = 0
    /\ lock = None /\ slot = None
    /\ relay = [i \in Instances |-> Candidate]
    /\ sent = 0 /\ emitted = 0
    /\ faults = 0

Rows == (1..committed) \ evicted

Largest(m, S) == m \in S /\ \A x \in S : x <= m

(* MAX(event_seq) is taken over the rows that are left, 0 without any. *)
EventSeqs == {seq[k] : k \in Rows} \cup {0}

Set(i, r) == relay' = [relay EXCEPT ![i] = r]
Fault == faults < MaxFaults /\ faults' = faults + 1

-----------------------------------------------------------------------------
(* A write transaction commits with the n events AppendOutboxEvents put in. *)
AppendOutboxEvents(n) ==
    /\ early + committed + n <= MaxEvents
    /\ \/ ~created /\ early' = early + n /\ UNCHANGED <<committed, bounds>>
       \/ /\ created
          /\ committed' = committed + n
          /\ bounds' = bounds \cup {committed + n}
          /\ UNCHANGED early
    /\ UNCHANGED <<seq, evicted, server, lock, slot, relay, feed, faults>>

(* EvictOutboxEventsBefore deletes by created_at, which each instance takes *)
(* from its own clock, so any row may be the oldest.  Nothing in it looks   *)
(* at the relay.                                                            *)
EvictOutboxEventsBefore(k) ==
    /\ k \in Rows
    /\ evicted' = evicted \cup {k}
    /\ UNCHANGED <<log, seq, server, lock, slot, relay, feed, faults>>

-----------------------------------------------------------------------------
(* Becoming the leader.  The lock and the replication connection are        *)
(* separate sessions; the slot streams to one connection at a time.         *)

(* The lock is free. *)
TryAcquireLeaderLock(i) ==
    /\ relay[i].pc = "candidate"
    /\ lock = None
    /\ lock' = i
    /\ Set(i, [Candidate EXCEPT !.pc = "locked"])
    /\ UNCHANGED <<table, server, slot, feed, faults>>

(* The lock belongs to a session, which may take it again.  A leader that   *)
(* stops returns the session to the pool of its process, lock and all       *)
(* (sql.Conn.Close); the process takes up where it left if the pool happens *)
(* to hand out that session.                                                *)
TryAcquirePooled(i) ==
    /\ relay[i].pc = "candidate"
    /\ lock = i
    /\ Set(i, [Candidate EXCEPT !.pc = "locked"])
    /\ UNCHANGED <<table, server, lock, slot, feed, faults>>

(* ensureReplicationSlot: the first leader of all creates the slot, at the  *)
(* end of the log.                                                          *)
CreateReplicationSlot(i) ==
    /\ relay[i].pc = "locked"
    /\ ~created
    /\ created' = TRUE
    /\ UNCHANGED <<table, confirmed, lock, slot, relay, feed, faults>>

(* Mutant: replication starts at the end of the log. *)
StartReplication_AtEnd(i) ==
    /\ relay[i].pc = "locked"
    /\ created /\ slot = None
    /\ slot' = i
    /\ Set(i, [Candidate EXCEPT !.pc = "replicating", !.pos = committed])
    /\ UNCHANGED <<table, server, lock, feed, faults>>

(* It goes on from what was confirmed. *)
StartReplication(i) ==
    /\ relay[i].pc = "locked"
    /\ created /\ slot = None
    /\ slot' = i
    /\ Set(i, [Candidate EXCEPT !.pc = "replicating", !.pos = confirmed])
    /\ UNCHANGED <<table, server, lock, feed, faults>>

(* The slot is still in use by a leader that lost only its lock. *)
StartFails(i) ==
    /\ relay[i].pc = "locked"
    /\ slot # None
    /\ Set(i, Candidate)
    /\ UNCHANGED <<table, server, lock, slot, feed, faults>>

LoadLastEventSeq(i) ==
    /\ relay[i].pc = "replicating"
    /\ \E m \in EventSeqs : /\ Largest(m, EventSeqs)
                           /\ Set(i, [relay[i] EXCEPT !.pc = "receive", !.last = m])
    /\ UNCHANGED <<table, server, lock, slot, feed, faults>>

-----------------------------------------------------------------------------
(* Relaying one transaction: materializeAndPublishBatch.                    *)

(* What the leader can read: the log, or what arrived before it lost the    *)
(* connection to the slot.                                                  *)
Received(i) == IF slot = i THEN committed ELSE relay[i].upTo

(* The next transaction of the log after position p. *)
NextTx(p, e) == e \in bounds /\ e > p /\ \A b \in bounds : b > p => e <= b

(* Mutant: the UPDATE lacks its condition event_seq IS NULL. *)
Assigned_Renumbers(p, e, last) ==
    [k \in Events |-> IF k \in ((p + 1)..e) \ evicted THEN last + (k - p) ELSE seq[k]]

(* event_seq of the events p + 1 .. e: a row that has one keeps it. *)
Assigned(p, e, last) ==
    [k \in Events |->
       IF k \in ((p + 1)..e) \ evicted /\ seq[k] = 0 THEN last + (k - p) ELSE seq[k]]

(* nextEventSeq: past what the batch could have taken and past what is stored. *)
NextEventSeq(m, p, e, last) ==
    Largest(m, {last + (e - p)} \cup {Assigned(p, e, last)[k] : k \in (p + 1)..e})

(* The unique index refuses a number that another row has. *)
Clash(p, e, last) ==
    \E k \in ((p + 1)..e) \ evicted, j \in Rows : seq[k] = 0 /\ seq[j] = last + (k - p)

(* A row that is gone reads as NULL, which is found out after the UPDATE. *)
Incomplete(p, e) == (p + 1)..e \cap evicted # {}

(* One UPDATE gives the rows their numbers. *)
Materialize(i) ==
    LET r == relay[i] IN
    \E e \in bounds :
        /\ r.pc = "receive"
        /\ NextTx(r.pos, e) /\ e <= Received(i)
        /\ ~Clash(r.pos, e, r.last) /\ ~Incomplete(r.pos, e)
        /\ seq' = Assigned(r.pos, e, r.last)
        /\ \E m \in {r.last + (e - r.pos)} \cup {Assigned(r.pos, e, r.last)[k] : k \in (r.pos + 1)..e} :
              /\ NextEventSeq(m, r.pos, e, r.last)
              /\ Set(i, [r EXCEPT !.pc = "publish", !.end = e, !.done = r.pos, !.last = m])
        /\ UNCHANGED <<log, evicted, server, lock, slot, feed, faults>>

(* Mutant: processedLSN advances with every event. *)
Publish_AdvancesEach(i) ==
    LET k == relay[i].done + 1
    IN /\ relay[i].pc = "publish"
       /\ emitted' = k
       /\ sent' = IF k > sent THEN k ELSE sent
       /\ Set(i, [relay[i] EXCEPT !.pc = "receive", !.pos = k, !.done = k])
       /\ UNCHANGED <<table, server, lock, slot, faults>>

(* Mutant: a publication that fails is passed over. *)
Publish_ErrorIgnored(i) ==
    LET r == relay[i]
        k == r.done + 1
    IN /\ r.pc = "publish"
       /\ \/ emitted' = k /\ sent' = IF k > sent THEN k ELSE sent
          \/ UNCHANGED feed
       /\ Set(i, IF k = r.end THEN [r EXCEPT !.pc = "receive", !.pos = r.end, !.done = k]
                 ELSE [r EXCEPT !.done = k])
       /\ UNCHANGED <<table, server, lock, slot, faults>>

(* The events of the batch are announced one by one; after the last one     *)
(* processedLSN is the end of the transaction.                              *)
Publish(i) ==
    LET r == relay[i]
        k == r.done + 1
    IN /\ r.pc = "publish"
       /\ emitted' = k
       /\ sent' = IF k > sent THEN k ELSE sent
       /\ Set(i, IF k = r.end THEN [r EXCEPT !.pc = "receive", !.pos = r.end, !.done = k]
                 ELSE [r EXCEPT !.done = k])
       /\ UNCHANGED <<table, server, lock, slot, faults>>

(* Between two messages the leader tells the slot how far it is, now and then. *)
SendStandbyStatusUpdate(i) ==
    /\ relay[i].pc = "receive"
    /\ slot = i
    /\ relay[i].pos > confirmed
    /\ confirmed' = relay[i].pos
    /\ UNCHANGED <<table, created, lock, slot, relay, feed, faults>>

-----------------------------------------------------------------------------
(* Failures. *)

(* The server drops the replication connection; the leader finds out when   *)
(* it has read what arrived before.                                         *)
ReplicationLost(i) ==
    /\ Fault
    /\ slot = i
    /\ slot' = None
    /\ Set(i, [relay[i] EXCEPT !.upTo = committed])
    /\ UNCHANGED <<table, server, lock, feed>>

(* The session that holds the advisory lock ends; nobody tells the leader. *)
LockLost(i) ==
    /\ Fault
    /\ lock = i
    /\ lock' = None
    /\ UNCHANGED <<table, server, slot, relay, feed>>

(* The pool closes a session that it keeps idle. *)
SessionCloses(i) ==
    /\ relay[i].pc = "candidate"
    /\ lock = i
    /\ lock' = None
    /\ UNCHANGED <<table, server, slot, relay, feed, faults>>

(* runLeader returns: the replication connection is closed, the session     *)
(* with the lock goes back to the pool.                                     *)
Stop(i) ==
    /\ slot' = IF slot = i THEN None ELSE slot
    /\ Set(i, Candidate)
    /\ UNCHANGED <<log, evicted, server, lock, feed>>

(* Any statement or publication fails. *)
StopLeader(i) ==
    /\ Fault
    /\ relay[i].pc # "candidate"
    /\ Stop(i)
    /\ UNCHANGED seq

(* The process dies, and all its sessions with it. *)
Dies(i) ==
    /\ Fault
    /\ lock' = IF lock = i THEN None ELSE lock
    /\ slot' = IF slot = i THEN None ELSE slot
    /\ Set(i, Candidate)
    /\ UNCHANGED <<table, server, feed>>

(* The batch cannot be numbered: the UPDATE is refused, or it numbered the  *)
(* rows that are left and one is missing.                                   *)
MaterializeFails(i) ==
    LET r == relay[i] IN
    /\ r.pc = "receive"
    /\ \E e \in bounds :
         /\ NextTx(r.pos, e) /\ e <= Received(i)
         /\ \/ Clash(r.pos, e, r.last) /\ UNCHANGED seq
            \/ /\ ~Clash(r.pos, e, r.last) /\ Incomplete(r.pos, e)
               /\ seq' = Assigned(r.pos, e, r.last)
    /\ Stop(i)
    /\ UNCHANGED faults


(* The leader reads on a connection that is gone. *)
ReceiveFails(i) ==
    /\ relay[i].pc = "receive" /\ slot # i
    /\ \A e \in bounds : NextTx(relay[i].pos, e) => e > Received(i)
    /\ Stop(i)
    /\ UNCHANGED <<seq, faults>>

-----------------------------------------------------------------------------
Lead(i) == \/ TryAcquireLeaderLock(i) \/ CreateReplicationSlot(i)
           \/ StartReplication(i) \/ StartFails(i)
           \/ LoadLastEventSeq(i) \/ Materialize(i) \/ Publish(i)
           \/ MaterializeFails(i) \/ ReceiveFails(i)

Next ==
    \/ \E n \in 1..MaxTxEvents : AppendOutboxEvents(n)
    \/ \E k \in Events : EvictOutboxEventsBefore(k)
    \/ \E i \in Instances :
         \/ Lead(i) \/ TryAcquirePooled(i) \/ SendStandbyStatusUpdate(i)
         \/ ReplicationLost(i) \/ LockLost(i) \/ SessionCloses(i) \/ StopLeader(i) \/ Dies(i)

Spec == Init /\ [][Next]_vars

(* The candidate loop keeps trying and the leader's loop keeps running;      *)
(* failures come to an end (MaxFaults).  Nothing makes a pool hand out or    *)
(* close the session that kept the lock.                                     *)
FairSpec == Spec /\ \A i \in Instances : WF_vars(Lead(i))

-----------------------------------------------------------------------------
(* Among the rows there are, cursors grow in commit order, and none is given *)
(* before the cursors of all earlier commits, however many leaders overlap   *)
(* and whatever was evicted: replaying after a cursor yields all later       *)
(* commits that are left (enhancement 096, materializeEventSeqBatch).        *)
SeqFollowsCommits ==
    \A j, k \in Rows : j < k /\ seq[k] # 0 => seq[j] # 0 /\ seq[j] < seq[k]

(* The slot is never confirmed past an event that was not announced, so a   *)
(* new leader starts early enough (SendStandbyStatusUpdate).                *)
ConfirmedWasSent == confirmed <= sent

(* The relay implements the outbox's promise: stored before announced,      *)
(* announced in order with repetitions (runLeader).                         *)
StoredPrefix == Cardinality({k \in Events : \A j \in 1..k : seq[j] # 0})
Log == INSTANCE OutboxLog WITH stored <- StoredPrefix
ImplementsOutboxLog == Log!LogSpec

(* A row the slot will deliver again is gone, and no leader gets past it.    *)
Lost == \E k \in evicted : k > confirmed

(* The lock stays with a session of the pool that nobody uses. *)
Stranded == \E i \in Instances : lock = i /\ relay[i].pc = "candidate"

=============================================================================
