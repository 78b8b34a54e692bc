------------------------- MODULE OutboxRelay_proofs -------------------------
(***************************************************************************)
(* OutboxRelay for every set of instances and every bound: the types, what *)
(* the slot confirms, that cursors follow the commits, and that the relay  *)
(* implements OutboxLog.                                                   *)
(*                                                                         *)
(* The events 1 .. n have a cursor, and n is the end of a transaction: a    *)
(* leader numbers whole transactions, and it never starts behind one that  *)
(* has no cursors.  Beyond n only a transaction that has lost a row has     *)
(* cursors, and no leader gets past that one.  Whatever a leader has read   *)
(* or is about to announce lies within 1 .. n, so a second leader finds     *)
(* the rows of its batch all numbered or none.                              *)
(***************************************************************************)
EXTENDS OutboxRelay, FiniteSetTheorems, TLAPS

(* A leader has announced everything up to its position; the batch it is   *)
(* announcing is numbered, and it goes on where the announcements end.     *)
RelayOK(i, n) ==
    /\ relay[i].pos \in bounds /\ relay[i].pos <= sent
    /\ relay[i].pc = "publish" =>
         /\ relay[i].end \in bounds /\ relay[i].end <= n
         /\ relay[i].done <= sent /\ relay[i].done < relay[i].end

(* The transaction after n, which ends at e, has lost a row; what is left of *)
(* it has cursors.                                                           *)
Blocked(n, e) ==
    /\ NextTx(n, e) /\ Incomplete(n, e)
    /\ \A x \in (n + 1)..e : x \in evicted \/ seq[x] # 0

Tail(n) == \A k \in Events : k > n /\ seq[k] # 0 => \E e \in bounds : k <= e /\ Blocked(n, e)

(* The inductive invariant: the events up to n have a cursor. *)
Numbered(n) ==
    /\ TypeOK
    /\ n \in bounds
    /\ \A k \in Events : k <= n => seq[k] # 0
    /\ Tail(n)
    /\ confirmed <= sent /\ sent <= n
    /\ \A i \in Instances : RelayOK(i, n)

RelayInv == \E n \in Nat : Numbered(n)

(* Cursors follow the commits, and a leader's lastEventSeq is no smaller   *)
(* than the cursors of the rows left of what it has numbered.              *)
LastOK(i) ==
    /\ relay[i].pc = "receive" => \A k \in Rows : k <= relay[i].pos => seq[k] <= relay[i].last
    /\ relay[i].pc = "publish" => \A k \in Rows : k <= relay[i].end => seq[k] <= relay[i].last

Ordered == SeqFollowsCommits /\ \A i \in Instances : LastOK(i)

(* Abbreviations every leaf may expand. *)
USE RelayAssumption
USE DEF Events, Relay, Candidate, log, table, server, feed, Set, Fault

-----------------------------------------------------------------------------
(* What the types say of numbers. *)
LEMMA Ranges ==
  ASSUME TypeOK
  PROVE  /\ committed \in Nat /\ committed <= MaxEvents
         /\ 0 \in bounds
         /\ \A b \in bounds : b \in Nat /\ b <= committed /\ b \in 0..MaxEvents
         /\ confirmed \in bounds
         /\ sent \in Nat /\ sent <= committed
         /\ Rows \subseteq Events
         /\ \A k \in Events : k \in Nat /\ seq[k] \in Nat
         /\ \A m \in EventSeqs : m \in Nat
<1>1. committed \in Nat /\ committed <= MaxEvents  BY DEF TypeOK
<1>2. \A b \in bounds : b \in Nat /\ b <= committed /\ b \in 0..MaxEvents  BY <1>1 DEF TypeOK
<1>3. Rows \subseteq Events  BY <1>1 DEF Rows
<1>4. \A k \in Events : k \in Nat /\ seq[k] \in Nat  BY DEF TypeOK
<1>5. \A m \in EventSeqs : m \in Nat
  <2>. HIDE DEF Events
  <2>. QED  BY <1>3, <1>4 DEF EventSeqs
<1>. QED  BY <1>1, <1>2, <1>3, <1>4, <1>5 DEF TypeOK

(* At first nothing is committed and nothing is numbered. *)
LEMMA InitNumbered == Init => Numbered(0)
<1>. SUFFICES ASSUME Init PROVE Numbered(0)
  OBVIOUS
<1>. USE DEF Init
<1>1. Candidate \in Relay  OBVIOUS
<1>2. relay \in [Instances -> Relay]
  <2>. HIDE DEF Candidate, Relay
  <2>. QED  BY <1>1
<1>3. TypeOK
  <2>1. created \in BOOLEAN  OBVIOUS
  <2>2. /\ early \in 0..MaxEvents /\ committed \in 0..MaxEvents /\ faults \in 0..MaxFaults
        /\ bounds \subseteq 0..committed /\ {0, committed} \subseteq bounds
        /\ confirmed \in bounds /\ evicted \subseteq 1..committed
        /\ sent \in 0..committed /\ emitted \in 0..committed
    BY RelayAssumption
  <2>3. seq \in [Events -> Nat]  OBVIOUS
  <2>4. lock \in Instances \cup {None} /\ slot \in Instances \cup {None}  OBVIOUS
  <2>. HIDE DEF Init
  <2>. QED  BY <1>2, <2>1, <2>2, <2>3, <2>4 DEF TypeOK
<1>4. \A i \in Instances : RelayOK(i, 0)  BY DEF RelayOK
<1>5. Tail(0)  BY DEF Tail
<1>. QED  BY <1>3, <1>4, <1>5 DEF Numbered

(* A step that moves one instance, and neither numbers nor announces. *)
LEMMA LocalStep ==
  ASSUME NEW n \in Nat, Numbered(n), NEW i \in Instances, NEW r \in Relay,
         relay' = [relay EXCEPT ![i] = r],
         UNCHANGED <<early, committed, bounds, seq, evicted, confirmed, sent, emitted>>,
         created' \in BOOLEAN, lock' \in Instances \cup {None}, slot' \in Instances \cup {None},
         faults' \in 0..MaxFaults,
         r.pos \in bounds, r.pos <= sent,
         r.pc = "publish" => /\ relay[i].pc = "publish" /\ r.end = relay[i].end
                             /\ r.done = relay[i].done
  PROVE  Numbered(n)'
<1>. USE DEF Numbered
<1>1. relay' \in [Instances -> Relay]
  <2>. HIDE DEF Relay
  <2>. QED  BY DEF TypeOK
<1>2. TypeOK'  BY <1>1 DEF TypeOK
<1>3. ASSUME NEW j \in Instances PROVE RelayOK(j, n)'
  <2>1. CASE j = i
    <3>1. relay'[i] = r  BY DEF TypeOK
    <3>2. RelayOK(i, n)  OBVIOUS
    <3>. QED  BY <2>1, <3>1, <3>2 DEF RelayOK
  <2>2. CASE j # i
    <3>1. relay'[j] = relay[j]  BY <2>2 DEF TypeOK
    <3>2. RelayOK(j, n)  OBVIOUS
    <3>. QED  BY <3>1, <3>2 DEF RelayOK
  <2>. QED  BY <2>1, <2>2
<1>4. Tail(n)'  BY DEF Tail, Blocked, NextTx, Incomplete
<1>. QED  BY <1>2, <1>3, <1>4

(* Such a step keeps the order, if it keeps lastEventSeq or has stopped. *)
LEMMA LocalOrder ==
  ASSUME NEW n \in Nat, Numbered(n), Ordered, NEW i \in Instances, NEW r \in Relay,
         relay' = [relay EXCEPT ![i] = r],
         UNCHANGED <<committed, bounds, seq, evicted>>,
         r.pc = "receive" => \A k \in Rows : k <= r.pos => seq[k] <= r.last,
         r.pc = "publish" => \A k \in Rows : k <= r.end => seq[k] <= r.last
  PROVE  Ordered'
<1>. USE DEF Ordered
<1>1. Rows' = Rows  BY DEF Rows
<1>2. ASSUME NEW j \in Instances PROVE LastOK(j)'
  <2>1. CASE j = i
    <3>1. relay'[i] = r  BY DEF Numbered, TypeOK
    <3>. QED  BY <1>1, <2>1, <3>1 DEF LastOK
  <2>2. CASE j # i
    <3>1. relay'[j] = relay[j]  BY <2>2 DEF Numbered, TypeOK
    <3>2. LastOK(j)  OBVIOUS
    <3>. QED  BY <1>1, <3>1, <3>2 DEF LastOK
  <2>. QED  BY <2>1, <2>2
<1>. QED  BY <1>1, <1>2 DEF SeqFollowsCommits

-----------------------------------------------------------------------------
(* A commit adds events without a cursor. *)
LEMMA AppendKeeps ==
  ASSUME NEW n \in Nat, Numbered(n), NEW m \in 1..MaxTxEvents, AppendOutboxEvents(m)
  PROVE  Numbered(n)' /\ (Ordered => Ordered')
<1>1. TypeOK /\ n \in bounds /\ Tail(n)  BY DEF Numbered
<1>2. UNCHANGED <<seq, evicted, created, confirmed, lock, slot, relay, sent, emitted, faults>>
  BY DEF AppendOutboxEvents
<1>3. /\ early \in Nat /\ committed \in Nat /\ bounds \subseteq bounds'
      /\ committed' \in Nat /\ committed <= committed'
      /\ \A b \in bounds' : b \in bounds \/ b > committed
  <2>1. CASE UNCHANGED <<committed, bounds>>  BY <1>1, <2>1 DEF TypeOK
  <2>2. CASE committed' = committed + m /\ bounds' = bounds \cup {committed + m}
    BY <1>1, <2>2 DEF TypeOK
  <2>. QED  BY <2>1, <2>2 DEF AppendOutboxEvents
<1>4. TypeOK'
  <2>1. committed' \in 0..MaxEvents /\ early' \in 0..MaxEvents
    <3>1. CASE early' = early + m /\ UNCHANGED <<committed, bounds>>
      BY <1>1, <3>1, RelayAssumption DEF TypeOK, AppendOutboxEvents
    <3>2. CASE committed' = committed + m /\ UNCHANGED early
      BY <1>1, <3>2, RelayAssumption DEF TypeOK, AppendOutboxEvents
    <3>. QED  BY <3>1, <3>2 DEF AppendOutboxEvents
  <2>2. bounds' \subseteq 0..committed' /\ {0, committed'} \subseteq bounds'
    <3>1. CASE UNCHANGED <<committed, bounds>>  BY <1>1, <3>1 DEF TypeOK
    <3>2. CASE committed' = committed + m /\ bounds' = bounds \cup {committed + m}
      BY <1>1, <1>3, <3>2 DEF TypeOK
    <3>. QED  BY <3>1, <3>2 DEF AppendOutboxEvents
  <2>. QED  BY <1>1, <1>2, <1>3, <2>1, <2>2 DEF TypeOK
<1>5. \A i \in Instances : RelayOK(i, n)'  BY <1>2, <1>3 DEF Numbered, RelayOK
<1>6. Tail(n)'
  <2>. SUFFICES ASSUME NEW k \in Events, k > n, seq'[k] # 0
               PROVE  \E e \in bounds' : k <= e /\ Blocked(n, e)'
    BY DEF Tail
  <2>1. PICK e \in bounds : k <= e /\ Blocked(n, e)  BY <1>1, <1>2 DEF Tail
  <2>2. \A b \in bounds' : b > n => e <= b
    <3>1. e \in Nat /\ e <= committed  BY <1>1, Ranges
    <3>. QED  BY <1>3, <2>1, <3>1, <1>4 DEF Blocked, NextTx, TypeOK
  <2>3. Blocked(n, e)'  BY <1>2, <1>3, <2>1, <2>2 DEF Blocked, NextTx, Incomplete
  <2>. QED  BY <1>3, <2>1, <2>3
<1>7. Numbered(n)'  BY <1>2, <1>3, <1>4, <1>5, <1>6 DEF Numbered
<1>8. ASSUME Ordered PROVE Ordered'
  <2>1. \A k \in Rows' : k \in Rows \/ (k \in Events /\ k > committed)
    <3>1. Rows' \subseteq Events  BY <1>4 DEF Rows, TypeOK
    <3>. QED  BY <1>2, <1>3, <3>1 DEF Rows
  <2>2. \A k \in Events : k > committed => seq[k] = 0
    <3>. SUFFICES ASSUME NEW k \in Events, k > committed, seq[k] # 0 PROVE FALSE
      OBVIOUS
    <3>1. n <= committed /\ \A b \in bounds : b \in Nat /\ b <= committed  BY <1>1, Ranges
    <3>2. k > n  BY <1>3, <3>1
    <3>3. PICK e \in bounds : k <= e  BY <1>1, <3>2 DEF Tail
    <3>. QED  BY <1>3, <3>1, <3>3
  <2>3. SeqFollowsCommits'
    <3>. SUFFICES ASSUME NEW j \in Rows', NEW k \in Rows', j < k, seq'[k] # 0
                 PROVE  seq'[j] # 0 /\ seq'[j] < seq'[k]
      BY DEF SeqFollowsCommits
    <3>1. k \in Rows  BY <1>2, <2>1, <2>2
    <3>2. j \in Rows  BY <1>1, <1>3, <2>1, <3>1, Ranges DEF Rows
    <3>. QED  BY <1>2, <1>8, <3>1, <3>2 DEF Ordered, SeqFollowsCommits
  <2>4. ASSUME NEW i \in Instances PROVE LastOK(i)'
    <3>1. LastOK(i) /\ relay[i] \in Relay  BY <1>1, <1>8 DEF Ordered, TypeOK
    <3>2. relay[i].pos <= committed /\ (relay[i].pc = "publish" => relay[i].end <= committed)
      BY <1>1, Ranges DEF Numbered, RelayOK
    <3>3. relay[i].pos \in Nat /\ relay[i].end \in Nat  BY <3>1
    <3>4. \A k \in Rows' : k <= committed => k \in Rows  BY <1>3, <2>1
    <3>5. Rows' \subseteq Nat  BY <1>3 DEF Rows
    <3>6. \A k \in Rows' : /\ k <= relay[i].pos => k <= committed
                           /\ relay[i].pc = "publish" /\ k <= relay[i].end => k <= committed
      <4>. TAKE k \in Rows'
      <4>1. k \in Nat /\ committed \in Nat  BY <1>3, <3>5
      <4>2. k <= relay[i].pos => k <= committed  BY <3>2, <3>3, <4>1
      <4>3. relay[i].pc = "publish" /\ k <= relay[i].end => k <= committed  BY <3>2, <3>3, <4>1
      <4>. QED  BY <4>2, <4>3
    <3>7. ASSUME relay[i].pc = "receive", NEW k \in Rows', k <= relay[i].pos
          PROVE  seq[k] <= relay[i].last
      <4>1. k \in Rows  BY <3>4, <3>6, <3>7
      <4>. QED  BY <3>1, <3>7, <4>1 DEF LastOK
    <3>8. ASSUME relay[i].pc = "publish", NEW k \in Rows', k <= relay[i].end
          PROVE  seq[k] <= relay[i].last
      <4>1. k \in Rows  BY <3>4, <3>6, <3>8
      <4>. QED  BY <3>1, <3>8, <4>1 DEF LastOK
    <3>9. relay' = relay /\ seq' = seq  BY <1>2
    <3>. QED  BY <3>7, <3>8, <3>9 DEF LastOK
  <2>. QED  BY <2>3, <2>4 DEF Ordered
<1>. QED  BY <1>7, <1>8

(* An eviction leaves the order of what is left. *)
LEMMA EvictKeeps ==
  ASSUME NEW n \in Nat, Numbered(n), NEW x \in Events, EvictOutboxEventsBefore(x)
  PROVE  Numbered(n)' /\ (Ordered => Ordered')
<1>. USE DEF EvictOutboxEventsBefore
<1>1. TypeOK' /\ evicted \subseteq evicted'  BY DEF Numbered, TypeOK, Rows
<1>2. \A i \in Instances : RelayOK(i, n)'  BY DEF Numbered, RelayOK
<1>3. Tail(n)'
  <2>. SUFFICES ASSUME NEW k \in Events, k > n, seq'[k] # 0
               PROVE  \E e \in bounds' : k <= e /\ Blocked(n, e)'
    BY DEF Tail
  <2>1. PICK e \in bounds : k <= e /\ Blocked(n, e)  BY DEF Numbered, Tail
  <2>2. Blocked(n, e)'  BY <1>1, <2>1 DEF Blocked, NextTx, Incomplete
  <2>. QED  BY <2>1, <2>2
<1>4. Numbered(n)'  BY <1>1, <1>2, <1>3 DEF Numbered
<1>5. Rows' \subseteq Rows  BY <1>1 DEF Rows
<1>6. Ordered => Ordered'  BY <1>5 DEF Ordered, SeqFollowsCommits, LastOK
<1>. QED  BY <1>4, <1>6

(* Becoming the leader, and stopping. *)
LEMMA ElectionKeeps ==
  ASSUME NEW n \in Nat, Numbered(n), NEW i \in Instances,
         \/ TryAcquireLeaderLock(i) \/ TryAcquirePooled(i)
         \/ StartReplication(i) \/ StartFails(i)
         \/ ReceiveFails(i) \/ StopLeader(i) \/ Dies(i)
  PROVE  Numbered(n)' /\ (Ordered => Ordered')
<1>. DEFINE Moves(r) == relay' = [relay EXCEPT ![i] = r]
<1>0. TypeOK /\ 0 \in bounds /\ 0 <= sent /\ confirmed \in bounds /\ confirmed <= sent /\ confirmed \in 0..MaxEvents
  <2>1. TypeOK /\ confirmed <= sent  BY DEF Numbered
  <2>. QED  BY <2>1, Ranges
<1>1. \E r \in Relay : /\ Moves(r) /\ r.pc \in {"candidate", "locked", "replicating"}
                       /\ r.pos \in bounds /\ r.pos <= sent
  <2>. DEFINE c == Candidate
              l == [Candidate EXCEPT !.pc = "locked"]
              s == [Candidate EXCEPT !.pc = "replicating", !.pos = confirmed]
  <2>1. c \in Relay /\ c.pc = "candidate" /\ c.pos = 0  OBVIOUS
  <2>2. l \in Relay /\ l.pc = "locked" /\ l.pos = 0  OBVIOUS
  <2>3. s \in Relay /\ s.pc = "replicating" /\ s.pos = confirmed
    <3>1. Candidate \in Relay /\ confirmed \in 0..MaxEvents  BY <1>0
    <3>. HIDE DEF Candidate
    <3>. QED  BY <3>1
  <2>4. Moves(c) \/ Moves(l) \/ Moves(s)
    BY DEF TryAcquireLeaderLock, TryAcquirePooled, StartReplication, StartFails,
           ReceiveFails, StopLeader, Dies, Stop
  <2>. HIDE DEF c, l, s, Moves
  <2>. QED  BY <1>0, <2>1, <2>2, <2>3, <2>4
<1>2. /\ UNCHANGED <<early, committed, bounds, seq, evicted, confirmed, sent, emitted>>
      /\ created' \in BOOLEAN
      /\ lock' \in Instances \cup {None} /\ slot' \in Instances \cup {None}
      /\ faults' \in 0..MaxFaults
  BY <1>0 DEF TypeOK, TryAcquireLeaderLock, TryAcquirePooled, StartReplication, StartFails,
              ReceiveFails, StopLeader, Dies, Stop
<1>3. PICK r \in Relay : /\ Moves(r) /\ r.pc \in {"candidate", "locked", "replicating"}
                         /\ r.pos \in bounds /\ r.pos <= sent
  BY <1>1
<1>. HIDE DEF Relay
<1>4. Numbered(n)'  BY <1>2, <1>3, LocalStep
<1>5. Ordered => Ordered'  BY <1>2, <1>3, LocalOrder
<1>. QED  BY <1>4, <1>5

(* The leader starts with the largest cursor there is. *)
LEMMA LoadKeeps ==
  ASSUME NEW n \in Nat, Numbered(n), NEW i \in Instances, LoadLastEventSeq(i)
  PROVE  Numbered(n)' /\ (Ordered => Ordered')
<1>. USE DEF LoadLastEventSeq
<1>1. PICK m \in EventSeqs : /\ Largest(m, EventSeqs)
                             /\ relay' = [relay EXCEPT ![i] = [relay[i] EXCEPT !.pc = "receive", !.last = m]]
  OBVIOUS
<1>. DEFINE r == [relay[i] EXCEPT !.pc = "receive", !.last = m]
<1>2. TypeOK /\ RelayOK(i, n)  BY DEF Numbered
<1>3. m \in Nat  BY <1>2, Ranges
<1>4. r \in Relay /\ r.pc = "receive" /\ r.pos = relay[i].pos /\ r.last = m
  BY <1>2, <1>3 DEF TypeOK
<1>5. r.pos \in bounds /\ r.pos <= sent  BY <1>2, <1>4 DEF RelayOK
<1>6. relay' = [relay EXCEPT ![i] = r]  BY <1>1
<1>7. /\ UNCHANGED <<early, committed, bounds, seq, evicted, confirmed, sent, emitted>>
      /\ created' \in BOOLEAN
      /\ lock' \in Instances \cup {None} /\ slot' \in Instances \cup {None} /\ faults' \in 0..MaxFaults
  BY <1>2 DEF TypeOK
<1>8. \A k \in Rows : seq[k] <= r.last  BY <1>1, <1>4 DEF Largest, EventSeqs
<1>. HIDE DEF r, Relay
<1>9. Numbered(n)'  BY <1>4, <1>5, <1>6, <1>7, LocalStep
<1>10. Ordered => Ordered'  BY <1>4, <1>6, <1>7, <1>8, LocalOrder
<1>. QED  BY <1>9, <1>10

(* The slot is created. *)
LEMMA CreateKeeps ==
  ASSUME NEW n \in Nat, Numbered(n), NEW i \in Instances, CreateReplicationSlot(i)
  PROVE  Numbered(n)' /\ (Ordered => Ordered')
<1>. USE DEF CreateReplicationSlot
<1>1. TypeOK'  BY DEF Numbered, TypeOK
<1>2. Tail(n)' /\ \A j \in Instances : RelayOK(j, n)'
  BY DEF Numbered, RelayOK, Tail, Blocked, NextTx, Incomplete
<1>3. Numbered(n)'  BY <1>1, <1>2 DEF Numbered
<1>4. Ordered => Ordered'  BY DEF Ordered, LastOK, Rows, SeqFollowsCommits
<1>. QED  BY <1>3, <1>4

(* Sessions that end without the leader's doing. *)
LEMMA SessionKeeps ==
  ASSUME NEW n \in Nat, Numbered(n), NEW i \in Instances,
         ReplicationLost(i) \/ LockLost(i) \/ SessionCloses(i)
  PROVE  Numbered(n)' /\ (Ordered => Ordered')
<1>. DEFINE r == [relay[i] EXCEPT !.upTo = committed]
<1>1. TypeOK /\ RelayOK(i, n)  BY DEF Numbered
<1>2. relay[i] \in Relay /\ committed \in 0..MaxEvents  BY <1>1 DEF TypeOK
<1>3. r \in Relay /\ r.pc = relay[i].pc /\ r.pos = relay[i].pos /\ r.end = relay[i].end
      /\ r.done = relay[i].done /\ r.last = relay[i].last
  BY <1>2
<1>4. CASE ReplicationLost(i)
  <2>1. relay' = [relay EXCEPT ![i] = r]  BY <1>4 DEF ReplicationLost
  <2>2. /\ UNCHANGED <<early, committed, bounds, seq, evicted, confirmed, sent, emitted>>
        /\ created' \in BOOLEAN
        /\ lock' \in Instances \cup {None} /\ slot' \in Instances \cup {None} /\ faults' \in 0..MaxFaults
    BY <1>1, <1>4 DEF TypeOK, ReplicationLost
  <2>3. r.pos \in bounds /\ r.pos <= sent  BY <1>1, <1>3 DEF RelayOK
  <2>. HIDE DEF r, Relay
  <2>4. Numbered(n)'  BY <1>3, <2>1, <2>2, <2>3, LocalStep
  <2>5. ASSUME Ordered PROVE Ordered'
    <3>1. LastOK(i)  BY <2>5 DEF Ordered
    <3>. QED  BY <1>3, <2>1, <2>2, <2>5, <3>1, LocalOrder DEF LastOK
  <2>. QED  BY <2>4, <2>5
<1>5. CASE LockLost(i) \/ SessionCloses(i)
  <2>1. /\ UNCHANGED <<early, committed, bounds, seq, evicted, created, confirmed, sent, emitted, relay, slot>>
        /\ lock' = None /\ faults' \in 0..MaxFaults
    BY <1>1, <1>5 DEF LockLost, SessionCloses, TypeOK
  <2>2. TypeOK'  BY <1>1, <2>1 DEF TypeOK
  <2>3. \A j \in Instances : RelayOK(j, n)'  BY <2>1 DEF Numbered, RelayOK
  <2>4. Ordered => Ordered'  BY <2>1 DEF Ordered, LastOK, Rows, SeqFollowsCommits
  <2>5. Tail(n)'  BY <2>1 DEF Numbered, Tail, Blocked, NextTx, Incomplete
  <2>. QED  BY <2>1, <2>2, <2>3, <2>4, <2>5 DEF Numbered
<1>. QED  BY <1>4, <1>5

-----------------------------------------------------------------------------
(* What a leader announces has a cursor and follows what was announced. *)
LEMMA PublishKeeps ==
  ASSUME NEW n \in Nat, Numbered(n), NEW i \in Instances, Publish(i)
  PROVE  /\ Numbered(n)' /\ (Ordered => Ordered')
         /\ emitted' \in 1..n /\ emitted' <= sent + 1
         /\ sent' = (IF emitted' > sent THEN emitted' ELSE sent) /\ UNCHANGED seq
<1>. DEFINE k == relay[i].done + 1
            r == IF k = relay[i].end
                 THEN [relay[i] EXCEPT !.pc = "receive", !.pos = relay[i].end, !.done = k]
                 ELSE [relay[i] EXCEPT !.done = k]
<1>1. TypeOK /\ RelayOK(i, n) /\ n \in bounds /\ sent <= n /\ confirmed <= sent  BY DEF Numbered
<1>2. relay[i] \in Relay /\ relay[i].pc = "publish"  BY <1>1 DEF TypeOK, Publish
<1>3. /\ relay[i].end \in bounds /\ relay[i].end <= n /\ relay[i].done <= sent
      /\ relay[i].done < relay[i].end /\ relay[i].pos \in bounds /\ relay[i].pos <= sent
  BY <1>1, <1>2 DEF RelayOK
<1>4. k \in 1..n /\ k <= sent + 1 /\ k <= relay[i].end /\ k \in 0..MaxEvents
  <2>1. relay[i].done \in Nat /\ relay[i].end \in Nat  BY <1>2
  <2>2. n <= MaxEvents /\ sent \in Nat  BY <1>1, Ranges
  <2>. QED  BY <1>3, <2>1, <2>2
<1>5. /\ emitted' = k /\ sent' = (IF k > sent THEN k ELSE sent)
      /\ relay' = [relay EXCEPT ![i] = r]
      /\ UNCHANGED <<early, committed, bounds, seq, evicted, created, confirmed, lock, slot, faults>>
  BY DEF Publish
<1>6. sent \in Nat /\ sent' \in Nat /\ sent <= sent' /\ sent' <= n /\ k <= sent' /\ n <= committed
  BY <1>1, <1>4, <1>5, Ranges
<1>7. /\ r \in Relay
      /\ r.pos = IF k = relay[i].end THEN k ELSE relay[i].pos
      /\ r.pc = (IF k = relay[i].end THEN "receive" ELSE "publish")
      /\ r.end = relay[i].end /\ r.done = k /\ r.last = relay[i].last
  BY <1>2, <1>4
<1>. HIDE DEF k, r
<1>8. TypeOK'
  <2>1. relay' \in [Instances -> Relay]
    <3>. HIDE DEF Relay
    <3>. QED  BY <1>1, <1>5, <1>7 DEF TypeOK
  <2>2. sent' \in 0..committed /\ emitted' \in 0..committed
    BY <1>1, <1>4, <1>5, <1>6, Ranges
  <2>. QED  BY <1>1, <1>5, <2>1, <2>2 DEF TypeOK
<1>9. ASSUME NEW j \in Instances PROVE RelayOK(j, n)'
  <2>1. CASE j = i
    <3>1. relay'[i] = r  BY <1>1, <1>5 DEF TypeOK
    <3>2. relay[i].pos \in Nat /\ relay[i].end \in Nat  BY <1>2
    <3>3. r.pos \in bounds /\ r.pos <= sent'  BY <1>3, <1>6, <1>7, <3>2
    <3>4. r.pc = "publish" => k < relay[i].end  BY <1>4, <1>7, <3>2
    <3>. QED  BY <1>3, <1>5, <1>6, <1>7, <2>1, <3>1, <3>3, <3>4 DEF RelayOK
  <2>2. CASE j # i
    <3>1. relay'[j] = relay[j] /\ relay[j] \in Relay  BY <1>1, <1>5, <2>2 DEF TypeOK
    <3>2. RelayOK(j, n)  BY DEF Numbered
    <3>3. relay[j].pos \in Nat /\ relay[j].done \in Nat  BY <3>1
    <3>. QED  BY <1>5, <1>6, <3>1, <3>2, <3>3 DEF RelayOK
  <2>. QED  BY <2>1, <2>2
<1>10. Numbered(n)'
  <2>1. confirmed \in Nat  BY <1>1, Ranges
  <2>2. \A x \in Events : x <= n => seq'[x] # 0  BY <1>5 DEF Numbered
  <2>3. confirmed' <= sent'  BY <1>1, <1>5, <1>6, <2>1
  <2>4. Tail(n)'  BY <1>5 DEF Numbered, Tail, Blocked, NextTx, Incomplete
  <2>. QED  BY <1>1, <1>5, <1>6, <1>8, <1>9, <2>2, <2>3, <2>4 DEF Numbered
<1>11. ASSUME Ordered PROVE Ordered'
  <2>1. LastOK(i)  BY <1>11 DEF Ordered
  <2>2. \A x \in Rows : x <= relay[i].end => seq[x] <= relay[i].last  BY <1>2, <2>1 DEF LastOK
  <2>3. r.pc = "receive" => r.pos = relay[i].end  BY <1>7
  <2>. HIDE DEF Relay
  <2>. QED  BY <1>5, <1>7, <1>11, <2>2, <2>3, LocalOrder
<1>. QED  BY <1>4, <1>5, <1>10, <1>11

(* The slot is told of what was announced. *)
LEMMA StatusKeeps ==
  ASSUME NEW n \in Nat, Numbered(n), NEW i \in Instances, SendStandbyStatusUpdate(i)
  PROVE  Numbered(n)' /\ (Ordered => Ordered')
<1>. USE DEF SendStandbyStatusUpdate
<1>1. TypeOK /\ RelayOK(i, n)  BY DEF Numbered
<1>2. confirmed' \in bounds /\ confirmed' <= sent  BY <1>1 DEF RelayOK
<1>3. TypeOK'  BY <1>1, <1>2 DEF TypeOK
<1>4. \A j \in Instances : RelayOK(j, n)'  BY DEF Numbered, RelayOK
<1>5. Tail(n)'  BY DEF Numbered, Tail, Blocked, NextTx, Incomplete
<1>6. Numbered(n)'  BY <1>2, <1>3, <1>4, <1>5 DEF Numbered
<1>7. Ordered => Ordered'  BY DEF Ordered, LastOK, Rows, SeqFollowsCommits
<1>. QED  BY <1>6, <1>7

-----------------------------------------------------------------------------
(* The UPDATE for the transaction that ends at e, successful or not. *)
Updates(i, e) ==
    /\ relay[i].pc = "receive"
    /\ NextTx(relay[i].pos, e)
    /\ seq' = Assigned(relay[i].pos, e, relay[i].last)
    /\ UNCHANGED <<early, committed, bounds, evicted>>

(* The events up to here have a cursor after a successful one. *)
Grown(n, e) == IF n < e THEN e ELSE n

(* A transaction is numbered as a whole: its rows all have a cursor, or the *)
(* leader is just behind the last one that has.                             *)
LEMMA WholeTransactions ==
  ASSUME NEW n \in Nat, Numbered(n), NEW i \in Instances, NEW e \in bounds, NextTx(relay[i].pos, e)
  PROVE  /\ relay[i] \in Relay /\ relay[i].pos \in bounds /\ relay[i].pos <= n
         /\ relay[i].pos < e /\ (n < e => n = relay[i].pos)
<1>1. TypeOK /\ RelayOK(i, n) /\ n \in bounds /\ sent <= n  BY DEF Numbered
<1>2. relay[i] \in Relay  BY <1>1 DEF TypeOK
<1>3. relay[i].pos \in bounds /\ relay[i].pos <= sent  BY <1>1 DEF RelayOK
<1>4. e > relay[i].pos /\ \A b \in bounds : b > relay[i].pos => e <= b  BY DEF NextTx
<1>5. relay[i].pos \in Nat /\ sent \in Nat /\ e \in Nat  BY <1>1, <1>3, Ranges
<1>6. relay[i].pos <= n /\ relay[i].pos < e  BY <1>1, <1>3, <1>4, <1>5
<1>7. n > relay[i].pos => e <= n  BY <1>1, <1>4
<1>8. n < e => n = relay[i].pos  BY <1>5, <1>6, <1>7
<1>. QED  BY <1>2, <1>3, <1>6, <1>8

(* Which cursors it gives: none is changed, and new ones go to the rows     *)
(* that are left of the first transaction without cursors.                  *)
LEMMA NewCursors ==
  ASSUME NEW n \in Nat, Numbered(n), NEW i \in Instances, NEW e \in bounds, Updates(i, e),
         NEW k \in Events
  PROVE  /\ seq[k] \in Nat /\ seq'[k] \in Nat
         /\ seq[k] # 0 => seq'[k] = seq[k]
         /\ seq[k] = 0 /\ seq'[k] # 0 =>
              /\ n = relay[i].pos /\ n < k /\ k <= e /\ k \notin evicted
              /\ seq'[k] = relay[i].last + (k - relay[i].pos)
         /\ relay[i].pos < k /\ k <= e /\ k \notin evicted => seq'[k] # 0
<1>1. TypeOK /\ (k <= n => seq[k] # 0)  BY DEF Numbered
<1>2. relay[i] \in Relay /\ relay[i].pos < e /\ relay[i].pos <= n /\ (n < e => n = relay[i].pos)
  BY WholeTransactions DEF Updates
<1>3. relay[i].pos \in Nat /\ relay[i].last \in Nat /\ e \in Nat /\ k \in Nat /\ k > 0 /\ seq[k] \in Nat
  BY <1>1, <1>2, Ranges
<1>4. seq'[k] = IF k \in ((relay[i].pos + 1)..e) \ evicted /\ seq[k] = 0
                THEN relay[i].last + (k - relay[i].pos) ELSE seq[k]
  BY DEF Updates, Assigned
<1>5. CASE k \in ((relay[i].pos + 1)..e) \ evicted /\ seq[k] = 0
  <2>1. seq'[k] = relay[i].last + (k - relay[i].pos)  BY <1>4, <1>5
  <2>2. n < k /\ k <= e /\ relay[i].pos < k  BY <1>1, <1>3, <1>5
  <2>3. n = relay[i].pos  BY <1>2, <1>3, <2>2
  <2>. QED  BY <1>3, <1>5, <2>1, <2>2, <2>3
<1>6. CASE ~(k \in ((relay[i].pos + 1)..e) \ evicted /\ seq[k] = 0)
  BY <1>3, <1>4, <1>6
<1>. QED  BY <1>5, <1>6

LEMMA SeqType ==
  ASSUME NEW n \in Nat, Numbered(n), NEW i \in Instances, NEW e \in bounds, Updates(i, e)
  PROVE  seq' \in [Events -> Nat]
<1>1. seq' = Assigned(relay[i].pos, e, relay[i].last)  BY DEF Updates
<1>2. DOMAIN seq' = Events /\ seq' = [k \in Events |-> seq'[k]]  BY <1>1 DEF Assigned
<1>. HIDE DEF Events
<1>. QED  BY <1>2, NewCursors

(* A transaction that is blocked stays so. *)
LEMMA BlockedStays ==
  ASSUME NEW n \in Nat, Numbered(n), NEW i \in Instances, NEW e \in bounds, Updates(i, e),
         NEW f \in bounds, Blocked(n, f)
  PROVE  Blocked(n, f)'
<1>1. TypeOK  BY DEF Numbered
<1>2. f \in Nat /\ f <= MaxEvents  BY <1>1, Ranges
<1>3. ASSUME NEW x \in (n + 1)..f PROVE x \in evicted \/ seq'[x] # 0
  <2>1. x \in Events  BY <1>2
  <2>. QED  BY <2>1, NewCursors DEF Blocked
<1>. QED  BY <1>3 DEF Blocked, NextTx, Incomplete, Updates

(* The order after the UPDATE: no row of the transaction had a cursor        *)
(* before, or all have theirs from another leader.                           *)
LEMMA UpdateOrder ==
  ASSUME NEW n \in Nat, Numbered(n), Ordered, NEW i \in Instances, NEW e \in bounds, Updates(i, e)
  PROVE  SeqFollowsCommits'
<1>. DEFINE p == relay[i].pos
            l == relay[i].last
<1>1. TypeOK /\ Tail(n)  BY DEF Numbered
<1>2. relay[i] \in Relay /\ p < e /\ p <= n  BY WholeTransactions DEF Updates
<1>3. Rows' = Rows /\ Rows \subseteq Events  BY <1>1, Ranges DEF Updates, Rows
<1>4. p \in Nat /\ l \in Nat /\ e \in Nat  BY <1>1, <1>2, Ranges
<1>5. \A x \in Rows : x <= p => seq[x] <= l  BY DEF Updates, Ordered, LastOK
<1>. SUFFICES ASSUME NEW j \in Rows, NEW k \in Rows, j < k, seq'[k] # 0
              PROVE  seq'[j] # 0 /\ seq'[j] < seq'[k]
  BY <1>3 DEF SeqFollowsCommits
<1>6. j \in Events /\ k \in Events /\ j \in Nat /\ k \in Nat /\ j \notin evicted /\ k \notin evicted
  BY <1>3 DEF Rows
<1>7. CASE seq[k] # 0
  <2>1. seq[j] # 0 /\ seq[j] < seq[k]  BY <1>7 DEF Ordered, SeqFollowsCommits
  <2>. QED  BY <1>6, <1>7, <2>1, NewCursors
<1>8. CASE seq[k] = 0
  <2>1. n = p /\ n < k /\ k <= e /\ seq'[k] = l + (k - p)  BY <1>6, <1>8, NewCursors
  <2>2. CASE j <= p
    <3>1. seq[j] # 0  BY <1>6, <2>1, <2>2 DEF Numbered
    <3>2. seq'[j] = seq[j] /\ seq[j] \in Nat /\ seq[j] <= l  BY <1>5, <1>6, <2>2, <3>1, NewCursors
    <3>. QED  BY <1>4, <1>6, <2>1, <3>1, <3>2
  <2>3. CASE j > p
    <3>1. j <= e  BY <1>4, <1>6, <2>1
    <3>2. seq[j] = 0
      <4>. SUFFICES ASSUME seq[j] # 0 PROVE FALSE
        OBVIOUS
      <4>1. PICK f \in bounds : j <= f /\ Blocked(n, f)  BY <1>1, <1>6, <2>1, <2>3 DEF Tail
      <4>2. e <= f /\ f \in Nat
        <5>1. n < f /\ \A b \in bounds : b > p => e <= b  BY <4>1 DEF Blocked, NextTx, Updates
        <5>. QED  BY <1>1, <2>1, <5>1, Ranges
      <4>3. k \in (n + 1)..f  BY <1>4, <1>6, <2>1, <4>2
      <4>. QED  BY <1>6, <1>8, <4>1, <4>3 DEF Blocked
    <3>3. seq'[j] # 0  BY <1>6, <2>3, <3>1, NewCursors
    <3>4. seq'[j] = l + (j - p)  BY <1>6, <3>2, <3>3, NewCursors
    <3>. QED  BY <1>4, <1>6, <2>1, <3>3, <3>4
  <2>. QED  BY <1>4, <1>6, <2>2, <2>3
<1>. QED  BY <1>7, <1>8

(* What the other leaders have read keeps its cursors. *)
LEMMA OthersLast ==
  ASSUME NEW n \in Nat, Numbered(n), Ordered, NEW i \in Instances, NEW e \in bounds, Updates(i, e),
         NEW j \in Instances, relay'[j] = relay[j]
  PROVE  LastOK(j)'
<1>1. TypeOK /\ sent <= n  BY DEF Numbered
<1>2. relay[j] \in Relay /\ relay[j].pos <= n /\ (relay[j].pc = "publish" => relay[j].end <= n)
  <2>1. relay[j] \in Relay /\ RelayOK(j, n)  BY <1>1 DEF TypeOK, Numbered
  <2>2. sent \in Nat /\ relay[j].pos \in Nat  BY <1>1, <2>1, Ranges
  <2>. QED  BY <1>1, <2>1, <2>2 DEF RelayOK
<1>3. relay[j].pos \in Nat /\ relay[j].end \in Nat  BY <1>2
<1>4. Rows' = Rows /\ Rows \subseteq Events  BY <1>1, Ranges DEF Updates, Rows
<1>5. \A k \in Rows : k <= n => seq'[k] = seq[k]
  <2>. SUFFICES ASSUME NEW k \in Rows, k <= n PROVE seq'[k] = seq[k]
    OBVIOUS
  <2>1. k \in Events /\ seq[k] # 0  BY <1>4 DEF Numbered
  <2>. QED  BY <2>1, NewCursors
<1>6. \A k \in Rows : /\ k <= relay[j].pos => k <= n
                      /\ relay[j].pc = "publish" /\ k <= relay[j].end => k <= n
  <2>1. \A k \in Rows : k \in Nat  BY <1>4
  <2>. QED  BY <1>2, <1>3, <2>1
<1>7. LastOK(j)  BY DEF Ordered
<1>. QED  BY <1>4, <1>5, <1>6, <1>7 DEF LastOK

-----------------------------------------------------------------------------
(* Materialize of the transaction that ends at e. *)
Numbers(i, e) ==
    LET r == relay[i] IN
    /\ r.pc = "receive"
    /\ NextTx(r.pos, e) /\ e <= Received(i)
    /\ ~Clash(r.pos, e, r.last) /\ ~Incomplete(r.pos, e)
    /\ seq' = Assigned(r.pos, e, r.last)
    /\ \E m \in {r.last + (e - r.pos)} \cup {Assigned(r.pos, e, r.last)[k] : k \in (r.pos + 1)..e} :
          /\ NextEventSeq(m, r.pos, e, r.last)
          /\ Set(i, [r EXCEPT !.pc = "publish", !.end = e, !.done = r.pos, !.last = m])
    /\ UNCHANGED <<log, evicted, server, lock, slot, feed, faults>>

LEMMA NumbersKeeps ==
  ASSUME NEW n \in Nat, Numbered(n), NEW i \in Instances, NEW e \in bounds, Numbers(i, e)
  PROVE  Numbered(Grown(n, e))' /\ (Ordered => Ordered')
<1>. DEFINE g == Grown(n, e)
            p == relay[i].pos
            l == relay[i].last
<1>0. Updates(i, e)  BY DEF Numbers, Updates
<1>1. TypeOK /\ n \in bounds /\ sent <= n /\ confirmed <= sent /\ Tail(n)  BY DEF Numbered
<1>2. relay[i] \in Relay /\ p < e /\ p \in bounds /\ p <= n /\ (n < e => n = p)
  BY <1>0, WholeTransactions DEF Updates
<1>3. n \in Nat /\ e \in 0..MaxEvents /\ sent \in Nat /\ p \in Nat /\ l \in Nat  BY <1>1, <1>2, Ranges
<1>4. g \in bounds /\ g \in Nat /\ n <= g /\ e <= g /\ sent <= g  BY <1>1, <1>3 DEF Grown
<1>5. PICK m : /\ m \in {l + (e - p)} \cup {seq'[k] : k \in (p + 1)..e}
               /\ \A x \in {l + (e - p)} \cup {seq'[k] : k \in (p + 1)..e} : x <= m
               /\ relay' = [relay EXCEPT ![i] =
                     [relay[i] EXCEPT !.pc = "publish", !.end = e, !.done = p, !.last = m]]
  BY DEF Numbers, NextEventSeq, Largest
<1>6. m \in Nat
  <2>1. CASE m = l + (e - p)  BY <1>2, <1>3, <2>1
  <2>2. CASE \E k \in (p + 1)..e : m = seq'[k]
    <3>1. PICK k \in (p + 1)..e : m = seq'[k]  BY <2>2
    <3>2. k \in Events  BY <1>2, <1>3
    <3>. QED  BY <1>0, <3>1, <3>2, NewCursors
  <2>. QED  BY <1>5, <2>1, <2>2
<1>. DEFINE r == [relay[i] EXCEPT !.pc = "publish", !.end = e, !.done = p, !.last = m]
<1>7. r \in Relay /\ r.pc = "publish" /\ r.end = e /\ r.done = p /\ r.pos = p /\ r.last = m
  BY <1>2, <1>3, <1>6
<1>8. relay' = [relay EXCEPT ![i] = r]  BY <1>5
<1>9. UNCHANGED <<early, committed, bounds, evicted, created, confirmed, lock, slot, sent, emitted, faults>>
  BY DEF Numbers
<1>10. \A k \in (p + 1)..e : k \notin evicted  BY DEF Numbers, Incomplete
<1>. HIDE DEF r, g, p, l
<1>11. TypeOK'
  <2>1. relay' \in [Instances -> Relay]
    <3>. HIDE DEF Relay
    <3>. QED  BY <1>1, <1>7, <1>8 DEF TypeOK
  <2>2. seq' \in [Events -> Nat]  BY <1>0, SeqType
  <2>. QED  BY <1>1, <1>9, <2>1, <2>2 DEF TypeOK
<1>12. ASSUME NEW j \in Instances PROVE RelayOK(j, g)'
  <2>1. CASE j = i
    <3>1. relay'[i] = r  BY <1>1, <1>8 DEF TypeOK
    <3>2. p <= sent  BY DEF Numbered, RelayOK, p
    <3>. QED  BY <1>2, <1>4, <1>7, <1>9, <2>1, <3>1, <3>2 DEF RelayOK
  <2>2. CASE j # i
    <3>1. relay'[j] = relay[j] /\ relay[j] \in Relay  BY <1>1, <1>8, <2>2 DEF TypeOK
    <3>2. RelayOK(j, n)  BY DEF Numbered
    <3>3. relay[j].end \in Nat  BY <3>1
    <3>. QED  BY <1>3, <1>4, <1>9, <3>1, <3>2, <3>3 DEF RelayOK
  <2>. QED  BY <2>1, <2>2
<1>13. ASSUME NEW k \in Events, k <= g PROVE seq'[k] # 0
  <2>1. CASE k <= n
    <3>1. seq[k] # 0  BY <2>1 DEF Numbered
    <3>. QED  BY <1>0, <3>1, NewCursors
  <2>2. CASE n < k
    <3>1. k \in (p + 1)..e /\ p < k /\ k <= e  BY <1>2, <1>3, <1>13, <2>2 DEF g, Grown
    <3>2. k \notin evicted  BY <1>10, <3>1
    <3>. QED  BY <1>0, <3>1, <3>2, NewCursors DEF p
  <2>. QED  BY <1>3, <2>1, <2>2
<1>14. Tail(g)'
  <2>. SUFFICES ASSUME NEW k \in Events, k > g, seq'[k] # 0
               PROVE  \E f \in bounds : k <= f /\ Blocked(g, f)'
    BY <1>9 DEF Tail
  <2>1. k > n /\ ~(k <= e)  BY <1>3, <1>4
  <2>2. seq[k] # 0  BY <1>0, <2>1, NewCursors
  <2>3. PICK f \in bounds : k <= f /\ Blocked(n, f)  BY <1>1, <2>1, <2>2 DEF Tail
  <2>4. Blocked(n, f)'  BY <1>0, <2>3, BlockedStays
  <2>5. CASE n < e
    <3>1. n = p  BY <1>2, <2>5
    <3>2. e \in bounds /\ e > n /\ f \in Nat  BY <1>1, <2>5, Ranges
    <3>3. f <= e  BY <2>3, <3>2 DEF Blocked, NextTx
    <3>. QED  BY <1>3, <2>1, <2>3, <3>2, <3>3
  <2>6. CASE ~(n < e)
    <3>1. g = n  BY <2>6 DEF g, Grown
    <3>. QED  BY <2>3, <2>4, <3>1
  <2>. QED  BY <2>5, <2>6
<1>15. Numbered(g)'  BY <1>1, <1>4, <1>9, <1>11, <1>12, <1>13, <1>14 DEF Numbered
<1>16. ASSUME Ordered PROVE Ordered'
  <2>1. SeqFollowsCommits'  BY <1>0, <1>16, UpdateOrder
  <2>2. ASSUME NEW j \in Instances PROVE LastOK(j)'
    <3>1. CASE j # i
      <4>1. relay'[j] = relay[j]  BY <1>1, <1>8, <3>1 DEF TypeOK
      <4>. QED  BY <1>0, <1>16, <4>1, OthersLast
    <3>2. CASE j = i
      <4>1. relay'[i] = r  BY <1>1, <1>8 DEF TypeOK
      <4>2. Rows' = Rows /\ Rows \subseteq Events  BY <1>1, <1>9, Ranges DEF Rows
      <4>3. \A x \in Rows : x <= p => seq[x] <= l  BY <1>16 DEF Numbers, Ordered, LastOK, p, l
      <4>4. ASSUME NEW k \in Rows, k <= e PROVE seq'[k] <= m
        <5>1. k \in Events /\ k \in Nat /\ k > 0  BY <4>2
        <5>2. CASE k <= p
          <6>1. k <= n  BY <1>2, <1>3, <5>1, <5>2
          <6>2. seq[k] # 0  BY <5>1, <6>1 DEF Numbered
          <6>3. seq'[k] = seq[k] /\ seq[k] \in Nat  BY <1>0, <5>1, <6>2, NewCursors
          <6>4. seq[k] <= l /\ l + (e - p) <= m  BY <1>5, <4>3, <5>2
          <6>. QED  BY <1>2, <1>3, <1>6, <6>3, <6>4
        <5>3. CASE k > p
          <6>1. k \in (p + 1)..e  BY <1>3, <4>4, <5>1, <5>3
          <6>. QED  BY <1>5, <6>1
        <5>. QED  BY <1>3, <5>1, <5>2, <5>3
      <4>. QED  BY <1>7, <3>2, <4>1, <4>2, <4>4 DEF LastOK
    <3>. QED  BY <3>1, <3>2
  <2>. QED  BY <2>1, <2>2 DEF Ordered
<1>. QED  BY <1>15, <1>16 DEF g

(* A batch that cannot be numbered: nothing happens, or the rows that are    *)
(* left of it get their cursors and it blocks the relay.                     *)
LEMMA FailKeeps ==
  ASSUME NEW n \in Nat, Numbered(n), NEW i \in Instances, MaterializeFails(i)
  PROVE  Numbered(n)' /\ (Ordered => Ordered')
<1>1. TypeOK /\ Tail(n)  BY DEF Numbered
<1>2. /\ relay' = [relay EXCEPT ![i] = Candidate]
      /\ UNCHANGED <<early, committed, bounds, evicted, created, confirmed, lock, sent, emitted, faults>>
      /\ slot' \in Instances \cup {None}
  BY <1>1 DEF MaterializeFails, Stop, TypeOK
<1>3. Candidate \in Relay /\ Candidate.pc = "candidate" /\ Candidate.pos = 0  OBVIOUS
<1>4. 0 \in bounds /\ 0 <= sent  BY <1>1, Ranges
<1>5. CASE UNCHANGED seq
  <2>1. created' \in BOOLEAN /\ lock' \in Instances \cup {None} /\ faults' \in 0..MaxFaults
    BY <1>1, <1>2 DEF TypeOK
  <2>. HIDE DEF Candidate, Relay
  <2>2. Numbered(n)'  BY <1>2, <1>3, <1>4, <1>5, <2>1, LocalStep
  <2>3. Ordered => Ordered'  BY <1>2, <1>3, <1>5, LocalOrder
  <2>. QED  BY <2>2, <2>3
<1>6. ASSUME NEW e \in bounds, NextTx(relay[i].pos, e), Incomplete(relay[i].pos, e),
             seq' = Assigned(relay[i].pos, e, relay[i].last)
      PROVE  Numbered(n)' /\ (Ordered => Ordered')
  <2>. DEFINE p == relay[i].pos
  <2>0. Updates(i, e)  BY <1>2, <1>6 DEF Updates, MaterializeFails
  <2>1. relay'[i] = Candidate /\ \A j \in Instances : j # i => relay'[j] = relay[j]
    BY <1>1, <1>2 DEF TypeOK
  <2>2. TypeOK'
    <3>1. relay' \in [Instances -> Relay]
      <4>. HIDE DEF Candidate, Relay
      <4>. QED  BY <1>1, <1>2, <1>3 DEF TypeOK
    <3>2. seq' \in [Events -> Nat]  BY <2>0, SeqType
    <3>. QED  BY <1>1, <1>2, <3>1, <3>2 DEF TypeOK
  <2>3. ASSUME NEW j \in Instances PROVE RelayOK(j, n)'
    <3>1. CASE j = i  BY <1>2, <1>3, <1>4, <2>1, <3>1 DEF RelayOK
    <3>2. CASE j # i
      <4>1. relay'[j] = relay[j] /\ RelayOK(j, n)  BY <2>1, <3>2 DEF Numbered
      <4>. QED  BY <1>2, <4>1 DEF RelayOK
    <3>. QED  BY <3>1, <3>2
  <2>4. \A k \in Events : k <= n => seq'[k] # 0
    <3>. SUFFICES ASSUME NEW k \in Events, k <= n PROVE seq'[k] # 0
      OBVIOUS
    <3>1. seq[k] # 0  BY DEF Numbered
    <3>. QED  BY <2>0, <3>1, NewCursors
  <2>5. Tail(n)'
    <3>. SUFFICES ASSUME NEW k \in Events, k > n, seq'[k] # 0
                 PROVE  \E f \in bounds : k <= f /\ Blocked(n, f)'
      BY <1>2 DEF Tail
    <3>1. CASE seq[k] # 0
      <4>1. PICK f \in bounds : k <= f /\ Blocked(n, f)  BY <1>1, <3>1 DEF Tail
      <4>. QED  BY <2>0, <4>1, BlockedStays
    <3>2. CASE seq[k] = 0
      <4>1. n = p /\ k <= e  BY <2>0, <3>2, NewCursors
      <4>2. e \in Nat /\ e <= MaxEvents  BY <1>1, Ranges
      <4>3. ASSUME NEW x \in (n + 1)..e PROVE x \in evicted \/ seq'[x] # 0
        <5>1. x \in Events /\ p < x /\ x <= e  BY <4>1, <4>2
        <5>. QED  BY <2>0, <5>1, NewCursors
      <4>4. Blocked(n, e)'  BY <1>2, <1>6, <4>1, <4>3 DEF Blocked, NextTx, Incomplete
      <4>. QED  BY <4>1, <4>4
    <3>. QED  BY <3>1, <3>2
  <2>6. Numbered(n)'  BY <1>2, <2>2, <2>3, <2>4, <2>5 DEF Numbered
  <2>7. ASSUME Ordered PROVE Ordered'
    <3>1. SeqFollowsCommits'  BY <2>0, <2>7, UpdateOrder
    <3>2. ASSUME NEW j \in Instances PROVE LastOK(j)'
      <4>1. CASE j = i  BY <1>3, <2>1, <4>1 DEF LastOK
      <4>2. CASE j # i
        <5>1. relay'[j] = relay[j]  BY <2>1, <4>2
        <5>. QED  BY <2>0, <2>7, <5>1, OthersLast
      <4>. QED  BY <4>1, <4>2
    <3>. QED  BY <3>1, <3>2 DEF Ordered
  <2>. QED  BY <2>6, <2>7
<1>. QED  BY <1>5, <1>6 DEF MaterializeFails

-----------------------------------------------------------------------------
(* A step keeps the invariants; it numbers events, announces one of those   *)
(* that are numbered, or does neither.                                      *)
LEMMA StepKeeps ==
  ASSUME NEW n \in Nat, Numbered(n), [Next]_vars
  PROVE  \E m \in Nat :
           /\ Numbered(m)'
           /\ Ordered => Ordered'
           /\ \/ m >= n /\ UNCHANGED <<sent, emitted>>
              \/ /\ m = n /\ emitted' \in 1..n /\ emitted' <= sent + 1
                 /\ sent' = IF emitted' > sent THEN emitted' ELSE sent
                 /\ UNCHANGED seq
<1>. DEFINE Goal == \E m \in Nat :
           /\ Numbered(m)'
           /\ Ordered => Ordered'
           /\ \/ m >= n /\ UNCHANGED <<sent, emitted>>
              \/ /\ m = n /\ emitted' \in 1..n /\ emitted' <= sent + 1
                 /\ sent' = IF emitted' > sent THEN emitted' ELSE sent
                 /\ UNCHANGED seq
<1>1. ASSUME NEW k \in 1..MaxTxEvents, AppendOutboxEvents(k) PROVE Goal
  <2>1. UNCHANGED <<sent, emitted>>  BY <1>1 DEF AppendOutboxEvents
  <2>. QED  BY <1>1, <2>1, AppendKeeps
<1>2. ASSUME NEW k \in Events, EvictOutboxEventsBefore(k) PROVE Goal
  <2>1. UNCHANGED <<sent, emitted>>  BY <1>2 DEF EvictOutboxEventsBefore
  <2>. QED  BY <1>2, <2>1, EvictKeeps
<1>3. ASSUME NEW i \in Instances,
             \/ TryAcquireLeaderLock(i) \/ TryAcquirePooled(i)
             \/ StartReplication(i) \/ StartFails(i)
             \/ ReceiveFails(i) \/ StopLeader(i) \/ Dies(i)
      PROVE  Goal
  <2>1. UNCHANGED <<sent, emitted>>
    BY <1>3 DEF TryAcquireLeaderLock, TryAcquirePooled, StartReplication, StartFails,
                ReceiveFails, StopLeader, Dies, Stop
  <2>. QED  BY <1>3, <2>1, ElectionKeeps
<1>4. ASSUME NEW i \in Instances,
             LoadLastEventSeq(i) \/ CreateReplicationSlot(i) \/ MaterializeFails(i)
      PROVE  Goal
  <2>1. UNCHANGED <<sent, emitted>>
    BY <1>4 DEF LoadLastEventSeq, CreateReplicationSlot, MaterializeFails, Stop
  <2>. QED  BY <1>4, <2>1, LoadKeeps, CreateKeeps, FailKeeps
<1>5. ASSUME NEW i \in Instances, ReplicationLost(i) \/ LockLost(i) \/ SessionCloses(i) PROVE Goal
  <2>1. UNCHANGED <<sent, emitted>>  BY <1>5 DEF ReplicationLost, LockLost, SessionCloses
  <2>. QED  BY <1>5, <2>1, SessionKeeps
<1>6. ASSUME NEW i \in Instances, SendStandbyStatusUpdate(i) PROVE Goal
  <2>1. UNCHANGED <<sent, emitted>>  BY <1>6 DEF SendStandbyStatusUpdate
  <2>. QED  BY <1>6, <2>1, StatusKeeps
<1>7. ASSUME NEW i \in Instances, Publish(i) PROVE Goal  BY <1>7, PublishKeeps
<1>8. ASSUME NEW i \in Instances, Materialize(i) PROVE Goal
  <2>1. PICK e \in bounds : Numbers(i, e)  BY <1>8 DEF Materialize, Numbers
  <2>2. Numbered(Grown(n, e))'  BY <2>1, NumbersKeeps
  <2>3. Ordered => Ordered'  BY <2>1, NumbersKeeps
  <2>4. e \in Nat  BY Ranges DEF Numbered
  <2>5. Grown(n, e) \in Nat /\ Grown(n, e) >= n  BY <2>4 DEF Grown
  <2>6. UNCHANGED <<sent, emitted>>  BY <2>1 DEF Numbers
  <2>. QED  BY <2>2, <2>3, <2>5, <2>6
<1>9. ASSUME UNCHANGED vars PROVE Goal
  <2>1. Numbered(n)'
    BY <1>9 DEF vars, Numbered, TypeOK, RelayOK, Tail, Blocked, NextTx, Incomplete
  <2>2. Ordered => Ordered'  BY <1>9 DEF vars, Ordered, LastOK, Rows, SeqFollowsCommits
  <2>3. UNCHANGED <<sent, emitted>>  BY <1>9 DEF vars
  <2>. QED  BY <2>1, <2>2, <2>3
<1>. HIDE DEF Goal
<1>10. ASSUME \E k \in 1..MaxTxEvents : AppendOutboxEvents(k) PROVE Goal
  BY <1>1, <1>10, Zenon
<1>11. ASSUME \E k \in Events : EvictOutboxEventsBefore(k) PROVE Goal
  BY <1>2, <1>11, Zenon
<1>12. ASSUME NEW i \in Instances, Lead(i) PROVE Goal
  BY <1>3, <1>4, <1>7, <1>8, <1>12, Zenon DEF Lead
<1>13. ASSUME NEW i \in Instances,
              \/ TryAcquirePooled(i) \/ SendStandbyStatusUpdate(i)
              \/ ReplicationLost(i) \/ LockLost(i)
              \/ SessionCloses(i) \/ StopLeader(i) \/ Dies(i)
       PROVE  Goal
  BY <1>3, <1>5, <1>6, <1>13, Zenon
<1>14. Goal  BY <1>9, <1>10, <1>11, <1>12, <1>13, Zenon DEF Next
<1>. QED  BY <1>14 DEF Goal

LEMMA Invariance == Spec => []RelayInv
<1>1. Init => RelayInv  BY InitNumbered DEF RelayInv
<1>2. RelayInv /\ [Next]_vars => RelayInv'
  <2>. SUFFICES ASSUME RelayInv, [Next]_vars PROVE RelayInv'
    OBVIOUS
  <2>1. PICK n \in Nat : Numbered(n)  BY DEF RelayInv
  <2>. QED  BY <2>1, StepKeeps DEF RelayInv
<1>. QED  BY <1>1, <1>2, PTL DEF Spec

(* The relay's state keeps its types, whoever leads and whatever fails:     *)
(* positions are ends of transactions (runLeader).                          *)
THEOREM RelayTypes == Spec => []TypeOK
<1>1. RelayInv => TypeOK  BY DEF RelayInv, Numbered
<1>. QED  BY <1>1, Invariance, PTL

(* The slot is never confirmed past an event that was not announced         *)
(* (SendStandbyStatusUpdate).                                               *)
THEOREM ConfirmedIsSent == Spec => []ConfirmedWasSent
<1>1. RelayInv => ConfirmedWasSent  BY DEF RelayInv, Numbered, ConfirmedWasSent
<1>. QED  BY <1>1, Invariance, PTL

(* Among the rows there are, cursors grow in commit order without gaps,     *)
(* however many leaders overlap and whatever is evicted, numbered or not    *)
(* (materializeEventSeqBatch, EvictOutboxEventsBefore).                     *)
THEOREM CursorsFollowCommits == Spec => []SeqFollowsCommits
<1>. DEFINE Inv == RelayInv /\ Ordered
<1>1. Init => Inv
  <2>1. Init => Ordered  BY DEF Init, Ordered, LastOK, SeqFollowsCommits, Rows
  <2>. QED  BY <2>1, InitNumbered DEF RelayInv
<1>2. Inv /\ [Next]_vars => Inv'
  <2>. SUFFICES ASSUME Inv, [Next]_vars PROVE Inv'
    OBVIOUS
  <2>1. PICK n \in Nat : Numbered(n)  BY DEF RelayInv
  <2>. QED  BY <2>1, StepKeeps DEF RelayInv
<1>3. Inv => SeqFollowsCommits  BY DEF Ordered
<1>. QED  BY <1>1, <1>2, <1>3, PTL DEF Spec

-----------------------------------------------------------------------------
(* What is stored without a gap: all up to n, and it only grows. *)
LEMMA PrefixGrows ==
  ASSUME NEW f, NEW h, NEW n \in Nat, n <= MaxEvents,
         \A k \in Events : k <= n => h[k] # 0,
         \A k \in Events : f[k] # 0 => h[k] # 0
  PROVE  LET P(g) == {k \in Events : \A j \in 1..k : g[j] # 0}
         IN  /\ Cardinality(P(f)) \in Nat /\ Cardinality(P(h)) \in Nat
             /\ Cardinality(P(f)) <= Cardinality(P(h)) /\ n <= Cardinality(P(h))
<1>. DEFINE P(g) == {k \in Events : \A j \in 1..k : g[j] # 0}
            F == P(f)
            H == P(h)
<1>1. IsFiniteSet(Events)  BY FS_Interval
<1>2. F \subseteq Events /\ H \subseteq Events  OBVIOUS
<1>3. F \subseteq H
  <2>1. \A k \in Events : \A j \in 1..k : j \in Events  OBVIOUS
  <2>. QED  BY <2>1
<1>4. 1..n \subseteq H
  <2>1. \A k \in 1..n : k \in Events /\ \A j \in 1..k : j \in Events /\ j <= n  OBVIOUS
  <2>. QED  BY <2>1
<1>. HIDE DEF F, H, Events
<1>5. IsFiniteSet(F) /\ IsFiniteSet(H)  BY <1>1, <1>2, FS_Subset
<1>6. Cardinality(F) \in Nat /\ Cardinality(H) \in Nat  BY <1>5, FS_CardinalityType
<1>7. Cardinality(F) <= Cardinality(H)  BY <1>3, <1>5, FS_Subset
<1>8. Cardinality(1..n) = IF 1 > n THEN 0 ELSE n - 1 + 1  BY FS_Interval
<1>9. Cardinality(1..n) = n  BY <1>8
<1>10. n <= Cardinality(H)  BY <1>4, <1>5, <1>9, FS_Subset
<1>. QED  BY <1>6, <1>7, <1>10 DEF F, H

(* A step loses no cursor. *)
LEMMA CursorsStay ==
  ASSUME NEW n \in Nat, Numbered(n), [Next]_vars, NEW k \in Events, seq[k] # 0
  PROVE  seq'[k] # 0
<1>1. CASE UNCHANGED seq  BY <1>1
<1>2. ASSUME NEW i \in Instances, NEW e \in bounds, Updates(i, e) PROVE seq'[k] # 0
  BY <1>2, NewCursors
<1>3. ASSUME NEW i \in Instances, Materialize(i) PROVE seq'[k] # 0
  <2>1. PICK e \in bounds : Updates(i, e)  BY <1>3 DEF Materialize, Updates
  <2>. QED  BY <1>2, <2>1
<1>4. ASSUME NEW i \in Instances, MaterializeFails(i) PROVE seq'[k] # 0
  <2>1. UNCHANGED seq \/ \E e \in bounds : Updates(i, e)
    BY <1>4 DEF MaterializeFails, Updates, Stop
  <2>. QED  BY <1>1, <1>2, <2>1
<1>5. ASSUME ~UNCHANGED seq
      PROVE  \E i \in Instances : Materialize(i) \/ MaterializeFails(i)
  BY <1>5 DEF Next, vars, Lead, AppendOutboxEvents, EvictOutboxEventsBefore, TryAcquireLeaderLock,
              TryAcquirePooled, CreateReplicationSlot, StartReplication, StartFails,
              LoadLastEventSeq, Publish, ReceiveFails, SendStandbyStatusUpdate, ReplicationLost,
              LockLost, SessionCloses, StopLeader, Dies
<1>. QED  BY <1>1, <1>3, <1>4, <1>5

LEMMA StepRefines == RelayInv /\ [Next]_vars => [Log!LogNext]_Log!logVars
<1>. SUFFICES ASSUME RelayInv, [Next]_vars PROVE [Log!LogNext]_Log!logVars
  OBVIOUS
<1>1. PICK n \in Nat : Numbered(n)  BY DEF RelayInv
<1>2. PICK m \in Nat :
        /\ Numbered(m)'
        /\ \/ m >= n /\ UNCHANGED <<sent, emitted>>
           \/ /\ m = n /\ emitted' \in 1..n /\ emitted' <= sent + 1
              /\ sent' = IF emitted' > sent THEN emitted' ELSE sent
              /\ UNCHANGED seq
  BY <1>1, StepKeeps
<1>3. /\ StoredPrefix \in Nat /\ n <= StoredPrefix
      /\ StoredPrefix' \in Nat /\ StoredPrefix <= StoredPrefix'
  <2>1. TypeOK /\ n \in bounds /\ \A k \in Events : k <= n => seq[k] # 0  BY <1>1 DEF Numbered
  <2>2. n <= MaxEvents  BY <2>1, Ranges
  <2>3. \A k \in Events : seq[k] # 0 => seq'[k] # 0  BY <1>1, CursorsStay
  <2>4. n <= StoredPrefix  BY <2>1, <2>2, PrefixGrows DEF StoredPrefix
  <2>5. StoredPrefix \in Nat /\ StoredPrefix' \in Nat /\ StoredPrefix <= StoredPrefix'
    <3>1. 0 <= MaxEvents /\ \A k \in Events : k <= 0 => seq'[k] # 0  OBVIOUS
    <3>. QED  BY <2>3, <3>1, PrefixGrows DEF StoredPrefix
  <2>. QED  BY <2>4, <2>5
<1>4. CASE UNCHANGED <<sent, emitted>>
  <2>1. CASE StoredPrefix' = StoredPrefix  BY <1>4, <2>1 DEF Log!logVars
  <2>2. CASE StoredPrefix' # StoredPrefix
    <3>1. Log!Store  BY <1>3, <1>4, <2>2 DEF Log!Store
    <3>. QED  BY <3>1 DEF Log!LogNext
  <2>. QED  BY <2>1, <2>2
<1>5. CASE /\ emitted' \in 1..n /\ emitted' <= sent + 1
           /\ sent' = IF emitted' > sent THEN emitted' ELSE sent
           /\ UNCHANGED seq
  <2>1. StoredPrefix' = StoredPrefix  BY <1>5 DEF StoredPrefix
  <2>2. emitted' \in 1..StoredPrefix /\ emitted' <= StoredPrefix  BY <1>3, <1>5
  <2>3. Log!Announce(emitted')  BY <1>5, <2>1, <2>2 DEF Log!Announce
  <2>. QED  BY <2>2, <2>3 DEF Log!LogNext
<1>. QED  BY <1>2, <1>4, <1>5

(* The relay implements OutboxLog: an event is stored under its cursor      *)
(* before it is announced, and none is passed over (runLeader).             *)
THEOREM OutboxRefinement == Spec => ImplementsOutboxLog
<1>1. Init => Log!LogInit
  <2>. SUFFICES ASSUME Init PROVE Log!LogInit
    OBVIOUS
  <2>1. {k \in Events : \A j \in 1..k : seq[j] # 0} = {}
    <3>1. \A k \in Events : k \in 1..k /\ seq[k] = 0  BY DEF Init
    <3>. QED  BY <3>1
  <2>2. StoredPrefix = 0  BY <2>1, FS_EmptySet DEF StoredPrefix
  <2>. QED  BY <2>2 DEF Init, Log!LogInit
<1>. QED  BY <1>1, Invariance, StepRefines, PTL DEF Spec, ImplementsOutboxLog, Log!LogSpec
=============================================================================
