----------------------- MODULE AnalyticsExport_proofs -----------------------
(***************************************************************************)
(* The exporter for every number of processes, events and failures: what   *)
(* lies before the saved cursor is written or was skipped by a live        *)
(* marker.                                                                 *)
(*                                                                         *)
(* What lies before a process's cursor was written to lifecycle_events by  *)
(* somebody or skipped by a marker, and what it has read since is so or    *)
(* is in its batch.  This holds of a process that lost its lease too, so   *)
(* that nothing depends on who saves last.                                 *)
(***************************************************************************)
EXTENDS AnalyticsExport, TLAPS

NoneIsNew == None \notin Nat \cup Value \cup Batch

Checkpoint == [value : Value \cup {None}, gen : Nat, owner : Nat \cup {None}, expired : BOOLEAN]
Starting == {"off", "put", "acquire", "load"}
Writing == {"lifecycle", "tables", "save"}
Pcs == Starting \cup Writing \cup {"boot", "boundary", "snapshot", "catchup", "live", "return"}
Proc == [pc : Pcs, next : {"live", "catchup", "return"}, val : Value, dirty : BOOLEAN,
         current : BOOLEAN, gen : Nat, pos : Nat, marked : BOOLEAN, pending : Batch \cup {None}]

(* The phases of a process: a scan, with no cursor yet, and the stream. *)
Scanning(w) == w.pc \in {"boundary", "snapshot", "catchup"} \/ w.next = "catchup"
Streaming(w) == w.pc = "live" \/ (w.pc \in Writing /\ w.next # "catchup")

ValueOK(v) ==
    /\ v.safe # None <=> v.boot \in {"catchup", "complete"}
    /\ v.safe # None => v.from # None

(* Where a process has a batch, and a cursor. *)
Shape(w) ==
    /\ ValueOK(w.val)
    /\ w.pc \notin Writing => w.next = "live"
    /\ w.pc \notin {"live", "lifecycle", "tables"} => w.pending = None
    /\ w.pc \in {"lifecycle", "tables"} => w.pending # None
    /\ Scanning(w) => w.val.safe = None
    /\ w.pc \in {"snapshot", "catchup"} \/ w.next = "catchup" => w.val.from # None
    /\ w.next = "catchup" /\ w.pending # None => w.pending.last = None
    /\ Streaming(w) => w.val.safe # None

(* What the batch holds. *)
Held(w) == IF w.pending = None THEN {} ELSE w.pending.events

Covers(S, a, b) == \A k \in Nat : a < k /\ k <= b => k \in S

(* Every event up to the cursor is written; every event up to where the    *)
(* process reads, or up to the end of its batch, is written or held.       *)
Exported(v, lc) == v.safe # None => Covers(lc, v.from, v.safe)

Fed(w, lc) ==
    /\ Exported(w.val, lc)
    /\ Streaming(w) => Covers(lc \cup Held(w), w.val.from, w.pos)
    /\ w.pending # None /\ w.pending.last # None =>
         Covers(lc \cup Held(w), w.val.from, w.pending.last)
    /\ w.pc = "tables" => Held(w) \subseteq lc

Good(w, lc) ==
    /\ w \in Proc
    /\ Shape(w)
    /\ Fed(w, lc)

Accounted == lifecycle \cup skipped

ExportInv ==
    /\ NoneIsNew
    /\ committed \in Nat
    /\ cp \in Checkpoint
    /\ cp.value # None => ValueOK(cp.value) /\ Exported(cp.value, Accounted)
    /\ proc \in [Process -> Proc]
    /\ \A p \in Process : Good(proc[p], Accounted) /\ (proc[p].pc = "load" => cp.value # None)

-----------------------------------------------------------------------------
(* What a step leaves as it was. *)

LEMMA OffGood ==
  /\ Off.pc = "off"
  /\ \A lc : Good(Off, lc)
<1>1. Fresh \in Value  BY DEF Fresh, Value
<1>2. Off \in Proc  BY <1>1 DEF Off, Proc, Pcs, Starting
<1>3. Shape(Off) /\ \A lc : Fed(Off, lc)
  BY DEF Off, Fresh, Shape, ValueOK, Scanning, Streaming, Writing, Starting, Fed, Exported
<1>. QED  BY <1>2, <1>3 DEF Off, Good

LEMMA GoodGrows ==
  ASSUME NEW w, NEW lc, NEW lc2, Good(w, lc), lc \subseteq lc2 PROVE Good(w, lc2)
BY DEF Good, Fed, Exported, Covers

(* One process goes on, and the checkpoint keeps its value. *)
LEMMA GoesInv ==
  ASSUME ExportInv, NEW p \in Process, NEW w, Goes(p, w), Good(w, Accounted'),
         w.pc = "load" => cp.value # None,
         UNCHANGED committed, cp' \in Checkpoint, cp'.value = cp.value, Accounted \subseteq Accounted'
  PROVE  ExportInv'
<1>1. /\ proc \in [Process -> Proc] /\ w \in Proc
      /\ \A q \in Process : Good(proc[q], Accounted)
  BY DEF ExportInv, Good
<1>2. /\ proc' \in [Process -> Proc] /\ proc'[p] = w
      /\ \A q \in Process \ {p} : proc'[q] = proc[q]
  BY <1>1 DEF Goes
<1>3. cp'.value # None => ValueOK(cp'.value) /\ Exported(cp'.value, Accounted')
  BY DEF ExportInv, Exported, Covers
<1>4. ASSUME NEW q \in Process
      PROVE  Good(proc'[q], Accounted') /\ (proc'[q].pc = "load" => cp'.value # None)
  <2>1. CASE q = p  BY <1>2, <2>1
  <2>2. CASE q # p
    <3>1. proc'[q] = proc[q]  BY <1>2, <2>2
    <3>2. Good(proc[q], Accounted')  BY <1>1, GoodGrows
    <3>. QED  BY <3>1, <3>2 DEF ExportInv
  <2>. QED  BY <2>1, <2>2
<1>. QED  BY <1>2, <1>3, <1>4 DEF ExportInv

(* A process ends. *)
LEMMA EndsInv ==
  ASSUME ExportInv, NEW p \in Process, Goes(p, Off), UNCHANGED committed,
         Accounted \subseteq Accounted', cp' \in Checkpoint, cp'.value = cp.value
  PROVE  ExportInv'
<1>1. Good(Off, Accounted') /\ Off.pc # "load"  BY OffGood
<1>. QED  BY <1>1, GoesInv

LEMMA ReturnInv ==
  ASSUME ExportInv, NEW p \in Process, Return(p), UNCHANGED committed, Accounted \subseteq Accounted'
  PROVE  ExportInv'
<1>1. cp \in Checkpoint  BY DEF ExportInv
<1>2. cp' \in Checkpoint /\ cp'.value = cp.value  BY <1>1 DEF Return, Checkpoint
<1>. QED  BY <1>2, EndsInv DEF Return

(* A process writes the checkpoint: the others have read an older one. *)
LEMMA PutInv ==
  ASSUME ExportInv, NEW p \in Process, NEW w, Put(p, w), Good(w, Accounted'), w.pc # "load",
         UNCHANGED committed, Accounted \subseteq Accounted'
  PROVE  ExportInv'
<1>1. /\ proc \in [Process -> Proc] /\ w \in Proc /\ cp \in Checkpoint /\ NoneIsNew
      /\ \A q \in Process : Good(proc[q], Accounted)
  BY DEF ExportInv, Good
<1>. DEFINE stale(q) == [proc[q] EXCEPT !.current = FALSE]
<1>2. /\ proc' = [q \in Process |-> IF q = p THEN w ELSE stale(q)]
      /\ cp' = [cp EXCEPT !.value = w.val]
  BY DEF Put
<1>3. w.val \in Value /\ w.val # None  BY <1>1 DEF Proc, NoneIsNew
<1>4. cp' \in Checkpoint /\ cp'.value = w.val  BY <1>1, <1>2, <1>3 DEF Checkpoint
<1>5. ValueOK(w.val) /\ Exported(w.val, Accounted')  BY DEF Good, Shape, Fed
<1>6. ASSUME NEW q \in Process
      PROVE  /\ stale(q) \in Proc
             /\ stale(q).pc = proc[q].pc /\ stale(q).next = proc[q].next
             /\ stale(q).val = proc[q].val /\ stale(q).pos = proc[q].pos
             /\ stale(q).pending = proc[q].pending
  <2>1. proc[q] \in Proc  BY <1>1
  <2>. QED  BY <2>1 DEF Proc
<1>7. /\ proc'[p] = w /\ \A q \in Process \ {p} : proc'[q] = stale(q)
      /\ proc' \in [Process -> Proc]
  BY <1>1, <1>2, <1>6
<1>. HIDE DEF stale
<1>8. ASSUME NEW q \in Process PROVE Good(stale(q), Accounted')
  <2>1. Good(proc[q], Accounted')  BY <1>1, GoodGrows
  <2>2. Shape(stale(q))  BY <1>6, <2>1 DEF Good, Shape, Scanning, Streaming
  <2>3. Fed(stale(q), Accounted')  BY <1>6, <2>1 DEF Good, Fed, Streaming, Held
  <2>. QED  BY <1>6, <2>2, <2>3 DEF Good
<1>9. \A q \in Process : Good(proc'[q], Accounted')  BY <1>7, <1>8
<1>. QED  BY <1>1, <1>3, <1>4, <1>5, <1>7, <1>9 DEF ExportInv

-----------------------------------------------------------------------------
(* A process goes on and touches nothing else. *)
LEMMA GoesOn ==
  ASSUME ExportInv, NEW p \in Process, NEW w, Goes(p, w), Good(w, Accounted'), w.pc # "load",
         UNCHANGED <<committed, cp>>, Accounted \subseteq Accounted'
  PROVE  ExportInv'
<1>1. cp' \in Checkpoint /\ cp'.value = cp.value  BY DEF ExportInv
<1>. QED  BY <1>1, GoesInv

LEMMA SaveAsInv ==
  ASSUME ExportInv, NEW p \in Process, NEW w, SaveAs(p, w), Good(w, Accounted'), w.pc # "load",
         UNCHANGED committed, Accounted \subseteq Accounted'
  PROVE  ExportInv'
<1>1. CASE Goes(p, w) /\ UNCHANGED cp  BY <1>1, GoesOn
<1>2. CASE Return(p)  BY <1>2, ReturnInv
<1>3. CASE Put(p, [w EXCEPT !.dirty = FALSE])
  <2>. DEFINE s == [w EXCEPT !.dirty = FALSE]
  <2>1. w \in Proc  BY DEF Good
  <2>2. /\ s \in Proc /\ s.pc = w.pc /\ s.next = w.next /\ s.val = w.val
        /\ s.pos = w.pos /\ s.pending = w.pending
    BY <2>1 DEF Proc
  <2>3. Put(p, s)  BY <1>3
  <2>. HIDE DEF s
  <2>4. Good(s, Accounted')
    <3>1. Shape(s)  BY <2>2 DEF Good, Shape, Scanning, Streaming
    <3>2. Fed(s, Accounted')  BY <2>2 DEF Good, Fed, Streaming, Held
    <3>. QED  BY <2>2, <3>1, <3>2 DEF Good
  <2>. QED  BY <2>2, <2>3, <2>4, PutInv
<1>. QED  BY <1>1, <1>2, <1>3 DEF SaveAs

LEMMA ProcFacts ==
  ASSUME ExportInv, NEW p \in Process
  PROVE  /\ proc[p] \in Proc /\ Shape(proc[p]) /\ Fed(proc[p], Accounted)
         /\ proc[p].pos \in Nat /\ proc[p].val \in Value /\ proc[p].pending \in Batch \cup {None}
<1>1. proc[p] \in Proc /\ Good(proc[p], Accounted)  BY DEF ExportInv
<1>2. /\ proc[p].pos \in Nat /\ proc[p].val \in Value /\ proc[p].pending \in Batch \cup {None}
  BY <1>1 DEF Proc
<1>. QED  BY <1>1, <1>2 DEF Good

-----------------------------------------------------------------------------
(* Starting. *)

LEMMA StartInv ==
  ASSUME ExportInv, NEW p \in Process, Start(p) PROVE ExportInv'
<1>. DEFINE q == proc[p]
            s == [q EXCEPT !.pc = "put"]
<1>1. q \in Proc /\ Shape(q) /\ q.pc = "off" /\ Fed(q, Accounted)  BY ProcFacts DEF Start
<1>2. /\ s \in Proc /\ s.pc = "put" /\ s.next = q.next /\ s.val = q.val
      /\ s.pos = q.pos /\ s.pending = q.pending
  BY <1>1 DEF Proc, Pcs, Starting
<1>3. Goes(p, s) /\ UNCHANGED <<committed, cp>> /\ Accounted' = Accounted
  BY DEF Start, env, sink, Accounted
<1>. HIDE DEF s
<1>4. Shape(s)  BY <1>1, <1>2 DEF Shape, Scanning, Streaming, Starting, Writing
<1>5. Fed(s, Accounted)  BY <1>1, <1>2 DEF Fed, Streaming, Held, Writing
<1>6. Good(s, Accounted') /\ s.pc # "load"  BY <1>2, <1>3, <1>4, <1>5 DEF Good
<1>. QED  BY <1>3, <1>6, GoesOn

LEMMA PutInitialInv ==
  ASSUME ExportInv, NEW p \in Process, PutInitial(p) PROVE ExportInv'
<1>1. UNCHANGED committed /\ Accounted' = Accounted  BY DEF PutInitial, env, sink, Accounted
<1>2. CASE Return(p)  BY <1>1, <1>2, ReturnInv
<1>3. CASE Put(p, [Off EXCEPT !.pc = "acquire"])
  <2>. DEFINE s == [Off EXCEPT !.pc = "acquire"]
  <2>1. /\ s \in Proc /\ s.pc = "acquire" /\ s.next = "live" /\ s.val = Fresh
        /\ s.pos = 0 /\ s.pending = None
    BY OffGood DEF Good, Off, Proc, Pcs, Starting
  <2>2. Put(p, s)  BY <1>3
  <2>. HIDE DEF s
  <2>3. Fresh.safe = None /\ Fresh.boot = "none"  BY DEF Fresh
  <2>4. Shape(s)  BY <2>1, <2>3 DEF Shape, ValueOK, Scanning, Streaming, Starting, Writing
  <2>5. Fed(s, Accounted)  BY <2>1, <2>3 DEF Fed, Exported, Streaming, Writing
  <2>6. Good(s, Accounted') /\ s.pc # "load"  BY <1>1, <2>1, <2>4, <2>5 DEF Good
  <2>. QED  BY <1>1, <2>2, <2>6, PutInv
<1>. QED  BY <1>2, <1>3 DEF PutInitial

LEMMA AcquireLeaseInv ==
  ASSUME ExportInv, NEW p \in Process, AcquireLease(p) PROVE ExportInv'
<1>. DEFINE q == proc[p]
            g == cp.gen + 1
            s == [q EXCEPT !.pc = "load", !.gen = g]
<1>1. /\ q \in Proc /\ Shape(q) /\ q.pc \in {"off", "acquire"} /\ Fed(q, Accounted)
      /\ cp \in Checkpoint /\ cp.value # None
  BY ProcFacts DEF AcquireLease, ExportInv
<1>2. g \in Nat  BY <1>1 DEF Checkpoint
<1>3. /\ Goes(p, s) /\ UNCHANGED committed /\ Accounted' = Accounted
      /\ cp' = [cp EXCEPT !.gen = g, !.owner = g, !.expired = FALSE]
  BY DEF AcquireLease, env, sink, Accounted
<1>. HIDE DEF g
<1>4. cp' \in Checkpoint /\ cp'.value = cp.value  BY <1>1, <1>2, <1>3 DEF Checkpoint
<1>5. /\ s \in Proc /\ s.pc = "load" /\ s.next = q.next /\ s.val = q.val
      /\ s.pos = q.pos /\ s.pending = q.pending
  BY <1>1, <1>2 DEF Proc, Pcs, Starting
<1>. HIDE DEF s
<1>6. Shape(s)  BY <1>1, <1>5 DEF Shape, Scanning, Streaming, Starting, Writing
<1>7. Fed(s, Accounted)  BY <1>1, <1>5 DEF Fed, Streaming, Held, Writing
<1>8. Good(s, Accounted')  BY <1>3, <1>5, <1>6, <1>7 DEF Good
<1>. QED  BY <1>1, <1>3, <1>4, <1>8, GoesInv

(* What is loaded is what was saved last. *)
LEMMA LoadInv ==
  ASSUME ExportInv, NEW p \in Process, Load(p) PROVE ExportInv'
<1>. DEFINE q == proc[p]
            v == [cp.value EXCEPT !.seq = 0]
            d == cp.value.seq # 0
            s == [q EXCEPT !.pc = "boot", !.val = v, !.dirty = d, !.current = TRUE]
<1>1. /\ q \in Proc /\ Shape(q) /\ q.pc = "load" /\ cp \in Checkpoint /\ cp.value # None
      /\ ValueOK(cp.value) /\ Exported(cp.value, Accounted)
  BY ProcFacts DEF Load, ExportInv
<1>2. cp.value \in Value /\ d \in BOOLEAN  BY <1>1 DEF Checkpoint
<1>3. v \in Value /\ v.safe = cp.value.safe /\ v.boot = cp.value.boot /\ v.from = cp.value.from
  BY <1>2 DEF Value
<1>4. Goes(p, s) /\ UNCHANGED <<committed, cp>> /\ Accounted' = Accounted
  BY DEF Load, env, sink, Accounted
<1>. HIDE DEF v, d
<1>5. /\ s \in Proc /\ s.pc = "boot" /\ s.next = q.next /\ s.val = v
      /\ s.pos = q.pos /\ s.pending = q.pending
  BY <1>1, <1>2, <1>3 DEF Proc, Pcs
<1>. HIDE DEF s
<1>6. q.next = "live" /\ q.pending = None  BY <1>1 DEF Shape, Writing
<1>7. Shape(s)  BY <1>1, <1>3, <1>5, <1>6 DEF Shape, ValueOK, Scanning, Streaming, Starting, Writing
<1>8. Fed(s, Accounted)  BY <1>1, <1>3, <1>5, <1>6 DEF Fed, Exported, Streaming, Writing
<1>9. Good(s, Accounted') /\ s.pc # "load"  BY <1>4, <1>5, <1>7, <1>8 DEF Good
<1>. QED  BY <1>4, <1>9, GoesOn

LEMMA ReturnsInv ==
  ASSUME ExportInv, NEW p \in Process, AcquireConflict(p) \/ Ends(p) \/ LeaseLost(p) \/ StreamFails(p)
  PROVE  ExportInv'
<1>1. Return(p) /\ UNCHANGED committed /\ Accounted' = Accounted
  BY DEF AcquireConflict, Ends, LeaseLost, StreamFails, env, sink, Accounted
<1>. QED  BY <1>1, ReturnInv

-----------------------------------------------------------------------------
(* Bootstrap. *)

LEMMA ResumeInv ==
  ASSUME ExportInv, NEW p \in Process, Resume(p) PROVE ExportInv'
<1>. DEFINE q == proc[p]
            s == [q EXCEPT !.pc = "live", !.pos = q.val.safe]
<1>1. /\ q \in Proc /\ Shape(q) /\ q.pc = "boot" /\ q.val.boot \in {"catchup", "complete"}
      /\ q.val \in Value /\ Fed(q, Accounted)
  BY ProcFacts DEF Resume
<1>2. q.val.safe # None /\ q.val.safe \in Nat  BY <1>1 DEF Shape, ValueOK, Value
<1>3. /\ s \in Proc /\ s.pc = "live" /\ s.next = q.next /\ s.val = q.val
      /\ s.pos = q.val.safe /\ s.pending = q.pending
  BY <1>1, <1>2 DEF Proc, Pcs
<1>4. Goes(p, s) /\ UNCHANGED <<committed, cp>> /\ Accounted' = Accounted
  BY DEF Resume, env, sink, Accounted
<1>. HIDE DEF s
<1>5. q.next = "live" /\ q.pending = None  BY <1>1 DEF Shape, Writing
<1>6. Shape(s)  BY <1>1, <1>2, <1>3, <1>5 DEF Shape, Scanning, Streaming, Starting, Writing
<1>7. Fed(s, Accounted)  BY <1>1, <1>2, <1>3, <1>5 DEF Fed, Exported, Covers, Held
<1>8. Good(s, Accounted') /\ s.pc # "load"  BY <1>3, <1>4, <1>6, <1>7 DEF Good
<1>. QED  BY <1>4, <1>8, GoesOn

LEMMA BeginScanInv ==
  ASSUME ExportInv, NEW p \in Process, BeginScan(p) PROVE ExportInv'
<1>. DEFINE q == proc[p]
            v == [q.val EXCEPT !.boot = "scanning"]
            s == [q EXCEPT !.pc = "boundary", !.val = v]
<1>1. /\ q \in Proc /\ Shape(q) /\ q.pc = "boot" /\ q.val.boot \notin {"catchup", "complete"}
      /\ q.val \in Value
  BY ProcFacts DEF BeginScan
<1>2. q.val.safe = None  BY <1>1 DEF Shape, ValueOK
<1>3. v \in Value /\ v.safe = None /\ v.boot = "scanning"  BY <1>1, <1>2 DEF Value
<1>4. SaveAs(p, s) /\ UNCHANGED committed /\ Accounted' = Accounted
  <2>1. s = [q EXCEPT !.pc = "boundary", !.val.boot = "scanning"]  BY <1>1 DEF Proc
  <2>. QED  BY <2>1 DEF BeginScan, env, sink, Accounted
<1>. HIDE DEF v
<1>5. /\ s \in Proc /\ s.pc = "boundary" /\ s.next = q.next /\ s.val = v
      /\ s.pos = q.pos /\ s.pending = q.pending
  BY <1>1, <1>3 DEF Proc, Pcs
<1>. HIDE DEF s
<1>6. q.next = "live" /\ q.pending = None  BY <1>1 DEF Shape, Writing
<1>7. Shape(s)  BY <1>3, <1>5, <1>6 DEF Shape, ValueOK, Scanning, Streaming, Starting, Writing
<1>8. Fed(s, Accounted)  BY <1>3, <1>5, <1>6 DEF Fed, Exported, Streaming, Writing
<1>9. Good(s, Accounted') /\ s.pc # "load"  BY <1>4, <1>5, <1>7, <1>8 DEF Good
<1>. QED  BY <1>4, <1>9, SaveAsInv

LEMMA CaptureBoundaryInv ==
  ASSUME ExportInv, NEW p \in Process, CaptureBoundary(p) PROVE ExportInv'
<1>. DEFINE q == proc[p]
<1>1. /\ q \in Proc /\ Shape(q) /\ q.pc = "boundary" /\ q.val \in Value
      /\ UNCHANGED committed /\ Accounted' = Accounted
  BY ProcFacts DEF CaptureBoundary, env, sink, Accounted
<1>2. q.next = "live" /\ q.pending = None /\ q.val.safe = None /\ ValueOK(q.val)
  BY <1>1 DEF Shape, Writing, Scanning
<1>3. ASSUME NEW v \in Value, NEW s \in Proc, v.safe = None, v.boot = q.val.boot, v.from # None,
             s.pc = "snapshot", s.next = q.next, s.val = v, s.pending = q.pending
      PROVE  Good(s, Accounted') /\ s.pc # "load"
  <2>1. Shape(s)  BY <1>2, <1>3 DEF Shape, ValueOK, Scanning, Streaming, Starting, Writing
  <2>2. Fed(s, Accounted')  BY <1>2, <1>3 DEF Fed, Exported, Streaming, Writing
  <2>. QED  BY <1>3, <2>1, <2>2 DEF Good
<1>4. CASE q.val.from # None
  <2>. DEFINE s == [q EXCEPT !.pc = "snapshot"]
  <2>1. Goes(p, s) /\ UNCHANGED cp  BY <1>4 DEF CaptureBoundary
  <2>2. /\ s \in Proc /\ s.pc = "snapshot" /\ s.next = q.next /\ s.val = q.val
        /\ s.pending = q.pending
    BY <1>1 DEF Proc, Pcs
  <2>. HIDE DEF s
  <2>3. Good(s, Accounted') /\ s.pc # "load"  BY <1>1, <1>2, <1>3, <1>4, <2>2
  <2>. QED  BY <1>1, <2>1, <2>3, GoesOn
<1>5. CASE q.val.from = None
  <2>0. PICK h \in HighWater(0) : SaveAs(p, [q EXCEPT !.pc = "snapshot", !.val.from = h])
    BY <1>5 DEF CaptureBoundary
  <2>. DEFINE v == [q.val EXCEPT !.from = h]
              s == [q EXCEPT !.pc = "snapshot", !.val = v]
  <2>1. h \in Nat /\ h # None  BY <2>0 DEF HighWater, ExportInv, NoneIsNew
  <2>2. v \in Value /\ v.safe = None /\ v.boot = q.val.boot /\ v.from # None
    BY <1>1, <1>2, <2>1 DEF Value
  <2>3. SaveAs(p, s)
    <3>1. s = [q EXCEPT !.pc = "snapshot", !.val.from = h]  BY <1>1 DEF Proc
    <3>. QED  BY <2>0, <3>1
  <2>. HIDE DEF v
  <2>4. /\ s \in Proc /\ s.pc = "snapshot" /\ s.next = q.next /\ s.val = v
        /\ s.pending = q.pending
    BY <1>1, <2>2 DEF Proc, Pcs
  <2>. HIDE DEF s
  <2>5. Good(s, Accounted') /\ s.pc # "load"  BY <1>3, <2>2, <2>4
  <2>. QED  BY <1>1, <2>3, <2>5, SaveAsInv
<1>. QED  BY <1>4, <1>5

LEMMA WriteBackfillPageInv ==
  ASSUME ExportInv, NEW p \in Process, WriteBackfillPage(p) PROVE ExportInv'
<1>. DEFINE q == proc[p]
            n == q.val.seq + 1
            b == [seq |-> n, events |-> {}, n |-> 0, last |-> None]
            v == [q.val EXCEPT !.seq = n]
            s == [q EXCEPT !.pc = "catchup"]
            t == [q EXCEPT !.pc = "tables", !.next = "catchup", !.dirty = TRUE, !.val = v, !.pending = b]
<1>1. /\ q \in Proc /\ Shape(q) /\ q.pc = "snapshot" /\ q.val \in Value
      /\ UNCHANGED <<committed, cp>> /\ Accounted' = Accounted
  BY ProcFacts DEF WriteBackfillPage, env, sink, Accounted
<1>2. /\ q.next = "live" /\ q.pending = None /\ q.val.safe = None /\ q.val.from # None
      /\ ValueOK(q.val)
  BY <1>1 DEF Shape, Writing, Scanning
<1>3. n \in Nat  BY <1>1 DEF Value
<1>4. b \in Batch /\ b.events = {} /\ b.last = None  BY <1>3 DEF Batch
<1>5. b # None  BY <1>4 DEF ExportInv, NoneIsNew
<1>6. v \in Value /\ v.safe = None /\ v.boot = q.val.boot /\ v.from = q.val.from
  BY <1>1, <1>2, <1>3 DEF Value
<1>7. Goes(p, s) \/ Goes(p, t)
  <2>1. b = NewBatch(p)  BY DEF NewBatch
  <2>2. t = [q EXCEPT !.pc = "tables", !.next = "catchup", !.dirty = TRUE,
                      !.val.seq = n, !.pending = b]
    BY <1>1 DEF Proc
  <2>. HIDE DEF t, b
  <2>. QED  BY <2>1, <2>2 DEF WriteBackfillPage
<1>. HIDE DEF v, b, n
<1>8. /\ s \in Proc /\ s.pc = "catchup" /\ s.next = q.next /\ s.val = q.val
      /\ s.pending = q.pending
  BY <1>1 DEF Proc, Pcs
<1>9. /\ t \in Proc /\ t.pc = "tables" /\ t.next = "catchup" /\ t.val = v /\ t.pending = b
  BY <1>1, <1>4, <1>6 DEF Proc, Pcs, Writing
<1>. HIDE DEF s, t
<1>10. Good(s, Accounted') /\ s.pc # "load"
  <2>1. Shape(s)  BY <1>2, <1>8 DEF Shape, Scanning, Streaming, Starting, Writing
  <2>2. Fed(s, Accounted')  BY <1>2, <1>8 DEF Fed, Exported, Streaming, Writing
  <2>. QED  BY <1>8, <2>1, <2>2 DEF Good
<1>11. Good(t, Accounted') /\ t.pc # "load"
  <2>1. ValueOK(v)  BY <1>2, <1>6 DEF ValueOK
  <2>2. Shape(t)
    BY <1>2, <1>4, <1>5, <1>6, <1>9, <2>1 DEF Shape, Scanning, Streaming, Starting, Writing
  <2>3. Fed(t, Accounted')
    BY <1>4, <1>5, <1>6, <1>9 DEF Fed, Exported, Streaming, Writing, Held
  <2>. QED  BY <1>9, <2>2, <2>3 DEF Good
<1>. QED  BY <1>1, <1>7, <1>10, <1>11, GoesOn

(* The stream begins where the scan began. *)
LEMMA EndScanInv ==
  ASSUME ExportInv, NEW p \in Process, EndScan(p) PROVE ExportInv'
<1>. DEFINE q == proc[p]
            from == q.val.from
            v == [q.val EXCEPT !.boot = "catchup", !.safe = from]
            s == [q EXCEPT !.pc = "live", !.val = v, !.pos = from]
<1>1. q \in Proc /\ Shape(q) /\ q.pc = "catchup" /\ q.val \in Value  BY ProcFacts DEF EndScan
<1>2. /\ q.next = "live" /\ q.pending = None /\ q.val.safe = None /\ from # None
      /\ from \in Nat
  BY <1>1 DEF Shape, Writing, Scanning, Value
<1>3. v \in Value /\ v.safe = from /\ v.boot = "catchup" /\ v.from = from
  BY <1>1, <1>2 DEF Value
<1>4. SaveAs(p, s) /\ UNCHANGED committed /\ Accounted' = Accounted
  <2>1. s = [q EXCEPT !.pc = "live", !.val.boot = "catchup", !.val.safe = from, !.pos = from]
    BY <1>1 DEF Proc
  <2>. QED  BY <2>1 DEF EndScan, env, sink, Accounted
<1>. HIDE DEF v, from
<1>5. /\ s \in Proc /\ s.pc = "live" /\ s.next = q.next /\ s.val = v
      /\ s.pos = from /\ s.pending = q.pending
  BY <1>1, <1>2, <1>3 DEF Proc, Pcs
<1>. HIDE DEF s
<1>6. Shape(s)  BY <1>2, <1>3, <1>5 DEF Shape, ValueOK, Scanning, Streaming, Starting, Writing
<1>7. \A S : Covers(S, from, from)  BY <1>2 DEF Covers
<1>8. Fed(s, Accounted')  BY <1>2, <1>3, <1>5, <1>7 DEF Fed, Exported
<1>9. Good(s, Accounted') /\ s.pc # "load"  BY <1>5, <1>6, <1>8 DEF Good
<1>. QED  BY <1>4, <1>9, SaveAsInv

-----------------------------------------------------------------------------
(* The stream. *)

(* An event joins the batch, and is the last of what was read. *)
LEMMA HandleEventInv ==
  ASSUME ExportInv, NEW p \in Process, HandleEvent(p) PROVE ExportInv'
<1>. DEFINE q == proc[p]
            e == q.pos + 1
            b == IF q.pending = None THEN NewBatch(p) ELSE q.pending
            grown == AppendEvent(b, e)
            v == [q.val EXCEPT !.seq = grown.seq]
<1>1. /\ q \in Proc /\ Shape(q) /\ q.pc = "live" /\ q.val \in Value /\ q.pos \in Nat
      /\ q.pending \in Batch \cup {None} /\ Fed(q, Accounted)
      /\ UNCHANGED committed /\ Accounted' = Accounted
  BY ProcFacts DEF HandleEvent, env, sink, Accounted
<1>2. e \in Nat /\ e # None  BY <1>1 DEF ExportInv, NoneIsNew
<1>3. b \in Batch /\ b.events = Held(q)
  <2>1. NewBatch(p) \in Batch /\ NewBatch(p).events = {}
    <3>1. q.val.seq + 1 \in Nat  BY <1>1 DEF Value
    <3>. QED  BY <3>1 DEF NewBatch, Batch
  <2>. QED  BY <1>1, <2>1 DEF Held
<1>4. q.next = "live" /\ q.val.safe # None /\ q.val.safe \in Nat /\ ValueOK(q.val)
      /\ q.val.from # None /\ q.val.from \in Nat
  BY <1>1 DEF Shape, Streaming, ValueOK, Writing, Value
<1>5. grown \in Batch /\ grown.events = Held(q) \cup {e} /\ grown.last = e
  <2>. HIDE DEF b, e
  <2>1. b.n + 1 \in Nat /\ b.events \cup {e} \in SUBSET Nat  BY <1>2, <1>3 DEF Batch
  <2>. QED  BY <1>2, <1>3, <2>1 DEF Batch, AppendEvent
<1>6. grown # None  BY <1>5 DEF ExportInv, NoneIsNew
<1>. DEFINE after == [q EXCEPT !.pos = e, !.pending = grown, !.val = v]
            full == [after EXCEPT !.pc = "lifecycle"]
<1>7. SaveAs(p, after) \/ (Goes(p, full) /\ UNCHANGED cp)
  <2>1. after = [q EXCEPT !.pos = e, !.pending = grown, !.val.seq = grown.seq]
    <3>. HIDE DEF grown, b, e
    <3>. QED  BY <1>1 DEF Proc
  <2>. QED  BY <2>1 DEF HandleEvent
<1>. HIDE DEF grown, b
<1>8. v \in Value /\ v.safe = q.val.safe /\ v.boot = q.val.boot /\ v.from = q.val.from
  <2>1. grown.seq \in Nat  BY <1>5 DEF Batch
  <2>. QED  BY <1>1, <2>1 DEF Value
<1>. HIDE DEF v
<1>9. /\ after \in Proc /\ after.pc = "live" /\ after.next = q.next /\ after.val = v
      /\ after.pos = e /\ after.pending = grown
  <2>. HIDE DEF e
  <2>. QED  BY <1>1, <1>2, <1>5, <1>8 DEF Proc
<1>10. /\ full \in Proc /\ full.pc = "lifecycle" /\ full.next = q.next /\ full.val = v
       /\ full.pos = e /\ full.pending = grown
  <2>. HIDE DEF e, after
  <2>. QED  BY <1>9 DEF Proc, Pcs, Writing
<1>. HIDE DEF after, full
<1>11. ASSUME NEW s \in Proc, s.pc \in {"live", "lifecycle"}, s.next = q.next, s.val = v,
              s.pos = e, s.pending = grown
       PROVE  Good(s, Accounted') /\ s.pc # "load"
  <2>1. Shape(s)
    BY <1>1, <1>4, <1>6, <1>8, <1>11 DEF Shape, ValueOK, Scanning, Streaming, Starting, Writing
  <2>2. Covers(Accounted \cup Held(q), q.val.from, q.pos) /\ Exported(q.val, Accounted)
    BY <1>1 DEF Fed, Streaming
  <2>3. Held(s) = Held(q) \cup {e}  BY <1>5, <1>6, <1>11 DEF Held
  <2>4. Covers(Accounted \cup Held(s), q.val.from, e)
    <3>1. \A k \in Nat : k <= e => k <= q.pos \/ k = e  BY <1>1
    <3>. HIDE DEF e
    <3>. QED  BY <2>2, <2>3, <3>1 DEF Covers
  <2>5. Exported(v, Accounted)  BY <1>8, <2>2 DEF Exported
  <2>6. Fed(s, Accounted)  BY <1>5, <1>8, <1>11, <2>4, <2>5 DEF Fed
  <2>. QED  BY <1>1, <1>11, <2>1, <2>6 DEF Good
<1>12. CASE SaveAs(p, after)
  <2>1. Good(after, Accounted') /\ after.pc # "load"  BY <1>9, <1>11
  <2>. QED  BY <1>1, <1>12, <2>1, SaveAsInv
<1>13. CASE Goes(p, full) /\ UNCHANGED cp
  <2>1. Good(full, Accounted') /\ full.pc # "load"  BY <1>10, <1>11
  <2>. QED  BY <1>1, <1>13, <2>1, GoesOn
<1>. QED  BY <1>7, <1>12, <1>13

(* The cursor moves to the marker's, if the batch is empty: what lies       *)
(* between it and where the process reads is skipped.                       *)
LEMMA HandleLiveMarkerInv ==
  ASSUME ExportInv, NEW p \in Process, HandleLiveMarker(p) PROVE ExportInv'
<1>. DEFINE q == proc[p]
            w == [q EXCEPT !.marked = TRUE]
<1>1. /\ q \in Proc /\ Shape(q) /\ q.val \in Value /\ q.pos \in Nat /\ committed \in Nat
      /\ Fed(q, Accounted) /\ UNCHANGED <<committed, lifecycle>>
  BY ProcFacts DEF HandleLiveMarker, env, ExportInv
<1>2. /\ w \in Proc /\ w.pc = q.pc /\ w.next = q.next /\ w.val = q.val
      /\ w.pos = q.pos /\ w.pending = q.pending
  BY <1>1 DEF Proc
<1>3. /\ w.pc = "live"
      /\ w.pending # None => SaveAs(p, w) /\ UNCHANGED skipped
      /\ w.pending = None => \E h \in HighWater(w.pos) :
              /\ SaveAs(p, [w EXCEPT !.val.safe = h, !.val.boot = "complete"])
              /\ skipped' = skipped \cup ((w.pos + 1)..h)
  BY DEF HandleLiveMarker
<1>. HIDE DEF w
<1>4. q.next = "live" /\ q.val.safe # None /\ q.val.safe \in Nat /\ ValueOK(q.val)
      /\ q.val.from # None /\ q.val.from \in Nat
  BY <1>1, <1>2, <1>3 DEF Shape, Streaming, ValueOK, Writing, Value
<1>5. CASE q.pending # None
  <2>1. SaveAs(p, w) /\ Accounted' = Accounted  BY <1>1, <1>2, <1>3, <1>5 DEF Accounted
  <2>2. Shape(w)  BY <1>1, <1>2 DEF Shape, Scanning, Streaming
  <2>3. Fed(w, Accounted)  BY <1>1, <1>2 DEF Fed, Streaming, Held
  <2>4. Good(w, Accounted') /\ w.pc # "load"  BY <1>2, <1>3, <2>1, <2>2, <2>3 DEF Good
  <2>. QED  BY <1>1, <2>1, <2>4, SaveAsInv
<1>6. CASE q.pending = None
  <2>1. PICK h \in HighWater(w.pos) :
              /\ SaveAs(p, [w EXCEPT !.val.safe = h, !.val.boot = "complete"])
              /\ skipped' = skipped \cup ((w.pos + 1)..h)
    BY <1>2, <1>3, <1>6
  <2>. DEFINE v == [q.val EXCEPT !.safe = h, !.boot = "complete"]
              s == [w EXCEPT !.val = v]
  <2>2. SaveAs(p, s)
    <3>1. s = [w EXCEPT !.val.safe = h, !.val.boot = "complete"]  BY <1>2 DEF Proc
    <3>. QED  BY <2>1, <3>1
  <2>3. h \in Nat /\ h # None  BY <1>1, <1>2, <2>1 DEF HighWater, ExportInv, NoneIsNew
  <2>4. v \in Value /\ v.safe = h /\ v.boot = "complete" /\ v.from = q.val.from
    BY <1>1, <2>3 DEF Value
  <2>. HIDE DEF v
  <2>5. /\ s \in Proc /\ s.pc = "live" /\ s.next = "live" /\ s.val = v
        /\ s.pos = q.pos /\ s.pending = None
    BY <1>2, <1>3, <1>4, <1>6, <2>4 DEF Proc
  <2>. HIDE DEF s
  <2>6. Shape(s)  BY <1>4, <2>3, <2>4, <2>5 DEF Shape, ValueOK, Scanning, Streaming, Starting, Writing
  <2>7. Accounted \subseteq Accounted' /\ \A k \in Nat : q.pos < k /\ k <= h => k \in Accounted'
    <3>1. lifecycle' = lifecycle /\ skipped' = skipped \cup ((q.pos + 1)..h)  BY <1>1, <1>2, <2>1
    <3>2. \A k \in Nat : q.pos < k /\ k <= h => k \in (q.pos + 1)..h  BY <1>1, <2>3
    <3>. QED  BY <3>1, <3>2 DEF Accounted
  <2>8. Covers(Accounted, q.val.from, q.pos)
    <3>1. Held(q) = {}  BY <1>6 DEF Held
    <3>2. Accounted \cup Held(q) = Accounted  BY <3>1
    <3>3. Covers(Accounted \cup Held(q), q.val.from, q.pos)  BY <1>1, <1>2, <1>3 DEF Fed, Streaming
    <3>. QED  BY <3>2, <3>3
  <2>9. Covers(Accounted', q.val.from, q.pos)  BY <2>7, <2>8 DEF Covers
  <2>10. Covers(Accounted', q.val.from, h)
    <3>1. \A k \in Nat : k <= h => k <= q.pos \/ (q.pos < k /\ k <= h)  BY <1>1, <2>3
    <3>. QED  BY <2>7, <2>9, <3>1 DEF Covers
  <2>11. Fed(s, Accounted')
    <3>1. Held(s) = {}  BY <2>5 DEF Held
    <3>2. Accounted' \cup Held(s) = Accounted'  BY <3>1
    <3>. QED  BY <2>4, <2>5, <2>9, <2>10, <3>2 DEF Fed, Exported
  <2>12. Good(s, Accounted') /\ s.pc # "load"  BY <2>5, <2>6, <2>11 DEF Good
  <2>. QED  BY <1>1, <2>2, <2>7, <2>12, SaveAsInv
<1>. QED  BY <1>5, <1>6

LEMMA TickInv ==
  ASSUME ExportInv, NEW p \in Process, Tick(p) PROVE ExportInv'
<1>. DEFINE q == proc[p]
            s == [q EXCEPT !.pc = "lifecycle"]
<1>1. q \in Proc /\ Shape(q) /\ q.pc = "live" /\ q.pending # None /\ Fed(q, Accounted)
  BY ProcFacts DEF Tick
<1>2. /\ s \in Proc /\ s.pc = "lifecycle" /\ s.next = q.next /\ s.val = q.val
      /\ s.pos = q.pos /\ s.pending = q.pending
  BY <1>1 DEF Proc, Pcs, Writing
<1>3. Goes(p, s) /\ UNCHANGED <<committed, cp>> /\ Accounted' = Accounted
  BY DEF Tick, env, sink, Accounted
<1>. HIDE DEF s
<1>4. q.next = "live"  BY <1>1 DEF Shape, Writing
<1>5. Shape(s)  BY <1>1, <1>2, <1>4 DEF Shape, Scanning, Streaming, Starting, Writing
<1>6. Fed(s, Accounted)  BY <1>1, <1>2 DEF Fed, Streaming, Held, Writing
<1>7. Good(s, Accounted') /\ s.pc # "load"  BY <1>2, <1>3, <1>5, <1>6 DEF Good
<1>. QED  BY <1>3, <1>7, GoesOn

(* The batch is written to one table. *)
LEMMA WriteLifecycleInv ==
  ASSUME ExportInv, NEW p \in Process, WriteLifecycle(p) PROVE ExportInv'
<1>. DEFINE q == proc[p]
            s == [q EXCEPT !.pc = "tables"]
<1>1. q \in Proc /\ Shape(q) /\ q.pc = "lifecycle" /\ Good(q, Accounted)
  BY ProcFacts DEF WriteLifecycle, Good
<1>2. /\ s \in Proc /\ s.pc = "tables" /\ s.next = q.next /\ s.val = q.val
      /\ s.pos = q.pos /\ s.pending = q.pending
  BY <1>1 DEF Proc, Pcs, Writing
<1>3. Goes(p, s) /\ UNCHANGED <<committed, cp>> /\ Accounted' = Accounted \cup q.pending.events
  BY DEF WriteLifecycle, env, Accounted
<1>. HIDE DEF s
<1>4. Held(s) \subseteq Accounted' /\ Accounted \subseteq Accounted' /\ Held(s) = Held(q)
  BY <1>2, <1>3 DEF Held
<1>5. Fed(q, Accounted')  BY <1>1, <1>4, GoodGrows DEF Good
<1>6. Shape(s)  BY <1>1, <1>2 DEF Shape, Scanning, Streaming, Starting, Writing
<1>7. Fed(s, Accounted')  BY <1>1, <1>2, <1>4, <1>5 DEF Fed, Streaming, Writing
<1>8. Good(s, Accounted') /\ s.pc # "load"  BY <1>2, <1>6, <1>7 DEF Good
<1>. QED  BY <1>3, <1>4, <1>8, GoesOn

(* The cursor moves to the end of a batch that is written. *)
LEMMA WriteTablesInv ==
  ASSUME ExportInv, NEW p \in Process, WriteTables(p) PROVE ExportInv'
<1>. DEFINE q == proc[p]
            b == q.pending
            safe == IF b.last = None THEN q.val.safe ELSE b.last
            v == [q.val EXCEPT !.safe = safe]
            s == [q EXCEPT !.pc = "save", !.pending = None, !.dirty = TRUE, !.val = v]
<1>1. /\ q \in Proc /\ Shape(q) /\ q.pc = "tables" /\ q.val \in Value /\ q.pos \in Nat
      /\ b \in Batch \cup {None} /\ Fed(q, Accounted)
      /\ UNCHANGED <<committed, cp>> /\ Accounted' = Accounted
  BY ProcFacts DEF WriteTables, env, sink, Accounted
<1>2. b # None /\ b \in Batch  BY <1>1 DEF Shape
<1>3. b.last \in Nat \cup {None} /\ q.val.safe \in Nat \cup {None} /\ q.val.from \in Nat \cup {None}
  BY <1>1, <1>2 DEF Batch, Value
<1>4. b.last # None => q.next # "catchup" /\ q.val.safe # None  BY <1>1, <1>2 DEF Shape, Streaming, Writing
<1>5. v \in Value /\ v.safe = safe /\ v.boot = q.val.boot /\ v.from = q.val.from
  <2>1. safe \in Nat \cup {None}  BY <1>3
  <2>. HIDE DEF safe, b
  <2>. QED  BY <1>1, <2>1 DEF Value
<1>6. Goes(p, s)
  <2>1. s = [q EXCEPT !.pc = "save", !.pending = None, !.dirty = TRUE, !.val.safe = safe]
    <3>. HIDE DEF safe
    <3>. QED  BY <1>1 DEF Proc
  <2>. QED  BY <2>1 DEF WriteTables
<1>7. safe # None <=> q.val.safe # None  BY <1>3, <1>4
<1>. HIDE DEF v
<1>8. /\ s \in Proc /\ s.pc = "save" /\ s.next = q.next /\ s.val = v
      /\ s.pos = q.pos /\ s.pending = None
  <2>. HIDE DEF safe, b
  <2>. QED  BY <1>1, <1>5 DEF Proc, Pcs, Writing
<1>. HIDE DEF s
<1>9. Shape(s)
  <2>. HIDE DEF safe
  <2>. QED  BY <1>1, <1>5, <1>7, <1>8 DEF Shape, ValueOK, Scanning, Streaming, Starting, Writing
<1>10. Fed(s, Accounted)
  <2>1. Accounted \cup Held(q) = Accounted  BY <1>1 DEF Fed
  <2>2. Accounted \cup Held(s) = Accounted  BY <1>8 DEF Held
  <2>3. b.last # None => Covers(Accounted, q.val.from, b.last)  BY <1>1, <1>2, <2>1 DEF Fed
  <2>4. Exported(v, Accounted)  BY <1>1, <1>5, <2>3 DEF Fed, Exported
  <2>5. Streaming(s) => Covers(Accounted, q.val.from, q.pos)
    BY <1>1, <1>8, <2>1 DEF Fed, Streaming, Writing
  <2>. HIDE DEF safe
  <2>. QED  BY <1>5, <1>8, <2>2, <2>4, <2>5 DEF Fed
<1>11. Good(s, Accounted') /\ s.pc # "load"  BY <1>1, <1>8, <1>9, <1>10 DEF Good
<1>. HIDE DEF safe, b
<1>. QED  BY <1>1, <1>6, <1>11, GoesOn

LEMMA SaveInv ==
  ASSUME ExportInv, NEW p \in Process, Save(p) PROVE ExportInv'
<1>. DEFINE q == proc[p]
            s == [q EXCEPT !.pc = q.next, !.next = "live"]
<1>1. q \in Proc /\ Shape(q) /\ q.pc = "save" /\ Fed(q, Accounted)  BY ProcFacts DEF Save
<1>2. q.next \in {"live", "catchup", "return"} /\ q.pending = None
  BY <1>1 DEF Proc, Shape
<1>3. /\ s \in Proc /\ s.pc = q.next /\ s.next = "live" /\ s.val = q.val
      /\ s.pos = q.pos /\ s.pending = q.pending
  BY <1>1, <1>2 DEF Proc, Pcs
<1>4. SaveAs(p, s) /\ UNCHANGED committed /\ Accounted' = Accounted
  BY DEF Save, env, sink, Accounted
<1>. HIDE DEF s
<1>5. Shape(s)  BY <1>1, <1>2, <1>3 DEF Shape, Scanning, Streaming, Starting, Writing
<1>6. Fed(s, Accounted)  BY <1>1, <1>2, <1>3 DEF Fed, Streaming, Held, Writing
<1>7. Good(s, Accounted') /\ s.pc # "load"  BY <1>2, <1>3, <1>4, <1>5, <1>6 DEF Good
<1>. QED  BY <1>4, <1>7, SaveAsInv

-----------------------------------------------------------------------------
(* What goes wrong, and what goes on outside. *)

(* The stream is read again from the saved cursor. *)
LEMMA StreamBreaksInv ==
  ASSUME ExportInv, NEW p \in Process, StreamBreaks(p) PROVE ExportInv'
<1>. DEFINE q == proc[p]
            s == [q EXCEPT !.pos = q.val.safe, !.marked = FALSE]
<1>1. q \in Proc /\ Shape(q) /\ q.pc = "live" /\ q.val \in Value /\ Fed(q, Accounted)
  BY ProcFacts DEF StreamBreaks
<1>2. q.val.safe # None /\ q.val.safe \in Nat  BY <1>1 DEF Shape, Streaming, Writing, Value
<1>3. /\ s \in Proc /\ s.pc = q.pc /\ s.next = q.next /\ s.val = q.val
      /\ s.pos = q.val.safe /\ s.pending = q.pending
  BY <1>1, <1>2 DEF Proc
<1>4. Goes(p, s) /\ UNCHANGED <<committed, cp>> /\ Accounted' = Accounted
  BY DEF StreamBreaks, sink, Accounted
<1>. HIDE DEF s
<1>5. Shape(s)  BY <1>1, <1>3 DEF Shape, Scanning, Streaming
<1>6. Fed(s, Accounted)  BY <1>1, <1>2, <1>3 DEF Fed, Exported, Covers, Held
<1>7. Good(s, Accounted') /\ s.pc # "load"  BY <1>1, <1>3, <1>4, <1>5, <1>6 DEF Good
<1>. QED  BY <1>4, <1>7, GoesOn

LEMMA WriteUnacknowledgedInv ==
  ASSUME ExportInv, NEW p \in Process, WriteUnacknowledged(p) PROVE ExportInv'
<1>. DEFINE q == proc[p]
            s == [q EXCEPT !.pc = "lifecycle"]
<1>1. q \in Proc /\ Shape(q) /\ q.pc = "tables" /\ Fed(q, Accounted)
  BY ProcFacts DEF WriteUnacknowledged
<1>2. /\ s \in Proc /\ s.pc = "lifecycle" /\ s.next = q.next /\ s.val = q.val
      /\ s.pos = q.pos /\ s.pending = q.pending
  BY <1>1 DEF Proc, Pcs, Writing
<1>3. Goes(p, s) /\ UNCHANGED <<committed, cp>> /\ Accounted' = Accounted
  BY DEF WriteUnacknowledged, sink, Accounted
<1>. HIDE DEF s
<1>4. Shape(s)  BY <1>1, <1>2 DEF Shape, Scanning, Streaming, Starting, Writing
<1>5. Fed(s, Accounted)  BY <1>1, <1>2 DEF Fed, Streaming, Held, Writing
<1>6. Good(s, Accounted') /\ s.pc # "load"  BY <1>2, <1>3, <1>4, <1>5 DEF Good
<1>. QED  BY <1>3, <1>6, GoesOn

LEMMA ShutdownInv ==
  ASSUME ExportInv, NEW p \in Process, Shutdown(p) PROVE ExportInv'
<1>. DEFINE q == proc[p]
            pc == IF q.pending = None THEN "save" ELSE "lifecycle"
            s == [q EXCEPT !.pc = pc, !.next = "return"]
<1>1. q \in Proc /\ Shape(q) /\ q.pc = "live" /\ Fed(q, Accounted)  BY ProcFacts DEF Shutdown
<1>2. /\ s \in Proc /\ s.pc = pc /\ s.next = "return" /\ s.val = q.val
      /\ s.pos = q.pos /\ s.pending = q.pending
  BY <1>1 DEF Proc, Pcs, Writing
<1>3. Goes(p, s) /\ UNCHANGED <<committed, cp>> /\ Accounted' = Accounted
  BY DEF Shutdown, sink, Accounted
<1>. HIDE DEF s
<1>4. Shape(s)  BY <1>1, <1>2 DEF Shape, Scanning, Streaming, Starting, Writing
<1>5. Fed(s, Accounted)  BY <1>1, <1>2 DEF Fed, Streaming, Held, Writing
<1>6. Good(s, Accounted') /\ s.pc # "load"  BY <1>2, <1>3, <1>4, <1>5 DEF Good
<1>. HIDE DEF pc
<1>. QED  BY <1>3, <1>6, GoesOn

LEMMA DiesInv ==
  ASSUME ExportInv, NEW p \in Process, Dies(p) PROVE ExportInv'
<1>1. UNCHANGED committed /\ Accounted' = Accounted  BY DEF Dies, sink, Accounted
<1>2. CASE Goes(p, Off) /\ UNCHANGED cp
  <2>1. cp' \in Checkpoint /\ cp'.value = cp.value  BY <1>2 DEF ExportInv
  <2>. QED  BY <1>1, <1>2, <2>1, EndsInv
<1>3. CASE Return(p)  BY <1>1, <1>3, ReturnInv
<1>. QED  BY <1>2, <1>3 DEF Dies

LEMMA LeaseExpiresInv ==
  ASSUME ExportInv, LeaseExpires PROVE ExportInv'
<1>1. /\ UNCHANGED <<committed, proc>> /\ Accounted' = Accounted
      /\ cp' = [cp EXCEPT !.expired = TRUE] /\ cp \in Checkpoint
  BY DEF LeaseExpires, sink, Accounted, ExportInv
<1>2. cp' \in Checkpoint /\ cp'.value = cp.value  BY <1>1 DEF Checkpoint
<1>. QED  BY <1>1, <1>2 DEF ExportInv

LEMMA CommitInv ==
  ASSUME ExportInv, Commit PROVE ExportInv'
<1>1. UNCHANGED <<cp, proc>> /\ Accounted' = Accounted /\ committed' = committed + 1
  BY DEF Commit, sink, Accounted
<1>. QED  BY <1>1 DEF ExportInv

-----------------------------------------------------------------------------
LEMMA InitInv == ASSUME NoneIsNew PROVE Init => ExportInv
<1>. SUFFICES ASSUME Init PROVE ExportInv
  OBVIOUS
<1>1. cp \in Checkpoint /\ cp.value = None /\ committed \in Nat  BY DEF Init, Checkpoint
<1>2. \A p \in Process : proc[p] = Off  BY DEF Init
<1>3. Good(Off, Accounted) /\ Off.pc = "off"  BY OffGood
<1>4. proc \in [Process -> Proc]  BY <1>3 DEF Init, Good
<1>. QED  BY <1>1, <1>2, <1>3, <1>4 DEF ExportInv

LEMMA NextInv ==
  ASSUME ExportInv, [Next]_vars PROVE ExportInv'
<1>1. CASE UNCHANGED vars
  <2>1. UNCHANGED <<committed, cp, proc>> /\ Accounted' = Accounted  BY <1>1 DEF vars, Accounted
  <2>. QED  BY <2>1 DEF ExportInv
<1>2. ASSUME NEW p \in Process, Step(p) PROVE ExportInv'
  BY <1>2, StartInv, PutInitialInv, AcquireLeaseInv, LoadInv, ReturnsInv,
     ResumeInv, BeginScanInv, CaptureBoundaryInv, WriteBackfillPageInv, EndScanInv,
     HandleEventInv, HandleLiveMarkerInv, TickInv,
     WriteLifecycleInv, WriteTablesInv, SaveInv DEF Step
<1>3. ASSUME NEW p \in Process, \/ StreamBreaks(p) \/ StreamFails(p)
                                \/ WriteUnacknowledged(p) \/ Shutdown(p) \/ Dies(p)
      PROVE  ExportInv'
  BY <1>3, StreamBreaksInv, ReturnsInv, WriteUnacknowledgedInv, ShutdownInv, DiesInv
<1>. QED  BY <1>1, <1>2, <1>3, LeaseExpiresInv, CommitInv DEF Next

(* However often processes crash, streams break, writes go unacknowledged,  *)
(* first checkpoints overwrite later ones and leases expire under a process *)
(* that goes on, every event between the cursor the scan began at and the   *)
(* saved cursor has its row in lifecycle_events, or is one that a live      *)
(* marker moved the cursor past: flushLocked moves it only after            *)
(* WriteBatch.                                                              *)
THEOREM EventsSkippedOnlyByMarkers ==
  ASSUME None \notin Nat \cup Value \cup Batch PROVE Spec => []OnlyMarkersSkip
<1>. USE DEF NoneIsNew
<1>1. Init => ExportInv  BY InitInv
<1>2. ExportInv /\ [Next]_vars => ExportInv'  BY NextInv
<1>3. ExportInv => OnlyMarkersSkip
  <2>. SUFFICES ASSUME ExportInv, SafeCursor > 0
               PROVE  (cp.value.from + 1)..SafeCursor \subseteq Accounted
    BY DEF OnlyMarkersSkip, Accounted
  <2>1. cp.value # None /\ cp.value.safe # None /\ SafeCursor = cp.value.safe
    BY DEF SafeCursor
  <2>2. cp.value \in Value  BY <2>1 DEF ExportInv, Checkpoint
  <2>3. ValueOK(cp.value) /\ Exported(cp.value, Accounted)  BY <2>1 DEF ExportInv
  <2>4. cp.value.from \in Nat /\ SafeCursor \in Nat  BY <2>1, <2>2, <2>3 DEF ValueOK, Value
  <2>5. Covers(Accounted, cp.value.from, SafeCursor)  BY <2>1, <2>3 DEF Exported
  <2>6. ASSUME NEW k \in (cp.value.from + 1)..SafeCursor PROVE k \in Accounted
    <3>1. k \in Nat /\ cp.value.from < k /\ k <= SafeCursor  BY <2>4
    <3>. QED  BY <2>5, <3>1 DEF Covers
  <2>. QED  BY <2>6
<1>. QED  BY <1>1, <1>2, <1>3, PTL DEF Spec
=============================================================================
