---------------------- MODULE ResponseResumer_proofs ----------------------
(***************************************************************************)
(* ResponseResumer for every set of instances, conversations, recordings   *)
(* and calls: the types, that a recording in progress is the one its       *)
(* instance's map holds, and that a replay loses nothing that is not       *)
(* behind a full read.                                                     *)
(*                                                                         *)
(* The map loses a recording in three ways: a successor replaces it, the   *)
(* sweep drops it, the instance restarts.  The successor and the restart   *)
(* complete it, and the sweep drops only what is complete (aged).          *)
(***************************************************************************)
EXTENDS ResponseResumer, TLAPS

Rec == [inst : Instances \cup {None}, conv : Convs \cup {None},
        size : 0..MaxTokens, complete : BOOLEAN, cancelled : BOOLEAN]
Stream == [pc : {"new", "created", "open", "ended"}, watches : Recs \cup {None},
           status : {"none", "SUCCESS", "CANCELLED", "ERROR"}]
Canceller == [pc : {"idle", "found", "closing", "accepted", "failed"}, rec : Recs \cup {None}]
Reader == [pc : {"idle", "ask", "lookup", "open", "reading", "done", "failed"},
           inst : Instances \cup {None}, conv : Convs \cup {None},
           rec : Recs \cup {None}, offset : 0..MaxTokens,
           seen : SUBSET Tokens, hops : 0..MaxHops]

(* A recording that was created knows its instance and its conversation. *)
Placed(x) == rec[x].inst \in Instances /\ rec[x].conv \in Convs

RecOK(x) ==
    /\ stream[x].pc = "new" => rec[x].inst = None /\ ~rec[x].complete /\ refresh[x] = "off"
    /\ stream[x].pc \in {"created", "open"} \/ refresh[x] # "off" => Placed(x)
    /\ InProgress(x) => Placed(x) /\ recordings[rec[x].inst][rec[x].conv] = x
    /\ x \in aged => rec[x].complete

(* The map and the replays know no recording that was not created. *)
MapOK == \A i \in Instances, c \in Convs :
           recordings[i][c] # None => stream[recordings[i][c]].pc # "new"

ReaderOK(q) ==
    /\ reader[q].pc # "idle" => reader[q].inst \in Instances /\ reader[q].conv \in Convs
    /\ reader[q].pc \in {"open", "reading", "done", "failed"} => stream[reader[q].rec].pc # "new"
    /\ reader[q].pc \in {"ask", "lookup", "open"} => reader[q].seen = {} /\ reader[q].offset = 0

ResumerInv ==
    /\ TypeOK
    /\ \A x \in Recs : RecOK(x)
    /\ MapOK
    /\ \A q \in Readers : ReaderOK(q)

(* What was passed over up to offset o lies behind a full read. *)
Behind(seen, o) ==
    \A t \in (1..o) \ seen :
        \E b \in 0..o : b + ReadCap < t /\ (b + 1)..(b + ReadCap) \subseteq seen

(* A replay is not ahead of the file, and at its end the file has stopped    *)
(* growing.                                                                  *)
ReplayOK(q) ==
    LET r == reader[q] IN
    /\ r.pc \in {"reading", "done", "failed"} =>
         r.offset <= rec[r.rec].size /\ Behind(r.seen, r.offset)
    /\ r.pc = "done" => rec[r.rec].complete /\ r.offset = rec[r.rec].size

ReplayInv == ResumerInv /\ \A q \in Readers : ReplayOK(q)

USE SizesAssumption, NoneAssumption

-----------------------------------------------------------------------------
(* TypeOK, variable by variable. *)
LEMMA Types ==
  TypeOK <=> /\ rec \in [Recs -> Rec]
             /\ stream \in [Recs -> Stream]
             /\ refresh \in [Recs -> {"off", "wait", "armed"}]
             /\ recordings \in [Instances -> [Convs -> Recs \cup {None}]]
             /\ locator \in [Convs -> Instances \cup {None}]
             /\ files \subseteq Recs /\ aged \subseteq Recs
             /\ canceller \in [Cancellers -> Canceller]
             /\ reader \in [Readers -> Reader]
             /\ \A q \in Readers : reader[q].pc \in {"open", "reading", "done", "failed"} => reader[q].rec \in Recs
             /\ \A k \in Cancellers : canceller[k].pc \in {"found", "closing"} => canceller[k].rec \in Recs
BY Zenon DEF TypeOK, Rec, Stream, Canceller, Reader

LEMMA InitInv == Init => ResumerInv
<1>. SUFFICES ASSUME Init PROVE ResumerInv
  OBVIOUS
<1>1. NewRec \in Rec  BY DEF NewRec, Rec
<1>2. NewStream \in Stream  BY DEF NewStream, Stream
<1>3. IdleCanceller \in Canceller  BY DEF IdleCanceller, Canceller
<1>4. IdleReader \in Reader  BY DEF IdleReader, Reader
<1>5. TypeOK
  <2>1. rec \in [Recs -> Rec] /\ stream \in [Recs -> Stream]
        /\ canceller \in [Cancellers -> Canceller] /\ reader \in [Readers -> Reader]
    BY <1>1, <1>2, <1>3, <1>4 DEF Init
  <2>. QED  BY <2>1, Types DEF Init, IdleReader, IdleCanceller
<1>6. \A x \in Recs : RecOK(x)
  BY DEF Init, NewRec, NewStream, RecOK, InProgress
<1>7. MapOK  BY DEF Init, MapOK
<1>8. \A q \in Readers : ReaderOK(q)  BY DEF Init, ReaderOK, IdleReader
<1>. QED  BY <1>5, <1>6, <1>7, <1>8 DEF ResumerInv

-----------------------------------------------------------------------------
(* What the sweep leaves. *)
LEMMA Sweep ==
  ASSUME ResumerInv, NEW i \in Instances
  PROVE  /\ SweptMap(i) \in [Instances -> [Convs -> Recs \cup {None}]]
         /\ SweptFiles(i) \subseteq Recs
         /\ \A j \in Instances, c \in Convs :
              \/ SweptMap(i)[j][c] = recordings[j][c]
              \/ SweptMap(i)[j][c] = None /\ recordings[j][c] \in aged
<1>. USE DEF ResumerInv
<1>1. recordings \in [Instances -> [Convs -> Recs \cup {None}]] /\ files \subseteq Recs  BY Types
<1>. QED  BY <1>1 DEF SweptMap, SweptFiles

(* A recording in progress outlives the sweep. *)
LEMMA SweepSpares ==
  ASSUME ResumerInv, NEW i \in Instances, NEW x \in Recs, InProgress(x)
  PROVE  SweptMap(i)[rec[x].inst][rec[x].conv] = x
<1>1. RecOK(x) /\ TypeOK  BY DEF ResumerInv
<1>2. x \notin aged  BY <1>1 DEF RecOK, InProgress
<1>3. Placed(x) /\ recordings[rec[x].inst][rec[x].conv] = x  BY <1>1 DEF RecOK
<1>. QED  BY <1>2, <1>3, Sweep DEF Placed

LEMMA Completed ==
  ASSUME ResumerInv, NEW S
  PROVE  /\ WithCompleted(S) \in [Recs -> Rec]
         /\ WithStopped(S) \in [Recs -> {"off", "wait", "armed"}]
         /\ \A y \in Recs :
              LET r == WithCompleted(S)[y] IN
              /\ r.inst = rec[y].inst /\ r.conv = rec[y].conv /\ r.size = rec[y].size
              /\ r.complete = (rec[y].complete \/ y \in S)
         /\ \A y \in Recs : WithStopped(S)[y] \in {"off", refresh[y]}
<1>1. rec \in [Recs -> Rec] /\ refresh \in [Recs -> {"off", "wait", "armed"}]
  BY Types DEF ResumerInv
<1>2. ASSUME NEW y \in Recs PROVE [rec[y] EXCEPT !.complete = TRUE] \in Rec
  BY <1>1 DEF Rec
<1>. QED  BY <1>1, <1>2 DEF WithCompleted, WithStopped, Rec

(* Replays and cancellations are untouched when no recording is forgotten. *)
LEMMA CallsKept ==
  ASSUME ResumerInv, UNCHANGED <<reader, canceller>>,
         \A y \in Recs : stream[y].pc # "new" => stream'[y].pc # "new"
  PROVE  \A q \in Readers : ReaderOK(q)'
<1>. SUFFICES ASSUME NEW q \in Readers PROVE ReaderOK(q)'
  OBVIOUS
<1>1. ReaderOK(q) /\ TypeOK  BY DEF ResumerInv
<1>. QED  BY <1>1, Types DEF ReaderOK

LEMMA TypesKept ==
  ASSUME ResumerInv, UNCHANGED <<reader, canceller>>,
         rec' \in [Recs -> Rec], stream' \in [Recs -> Stream],
         refresh' \in [Recs -> {"off", "wait", "armed"}],
         recordings' \in [Instances -> [Convs -> Recs \cup {None}]],
         locator' \in [Convs -> Instances \cup {None}],
         files' \subseteq Recs, aged' \subseteq Recs
  PROVE  TypeOK'
<1>1. TypeOK  BY DEF ResumerInv
<1>. HIDE DEF Rec, Stream
<1>2. /\ canceller' \in [Cancellers -> Canceller]
      /\ reader' \in [Readers -> Reader]
      /\ \A q \in Readers : reader'[q].pc \in {"open", "reading", "done", "failed"} => reader'[q].rec \in Recs
      /\ \A k \in Cancellers : canceller'[k].pc \in {"found", "closing"} => canceller'[k].rec \in Recs
  BY <1>1, Types
<1>. QED  BY <1>2 DEF TypeOK, Rec, Stream, Canceller, Reader

-----------------------------------------------------------------------------
(* The recording that is replaced is complete when the map forgets it. *)
LEMMA StartKeeps ==
  ASSUME ResumerInv, NEW x \in Recs, NEW i \in Instances, NEW c \in Convs, StartRecording(x, i, c)
  PROVE  ResumerInv'
<1>. DEFINE old == SweptMap(i)[i][c]
            fresh == [NewRec EXCEPT !.inst = i, !.conv = c]
<1>1. /\ rec \in [Recs -> Rec] /\ stream \in [Recs -> Stream] /\ aged \subseteq Recs
      /\ refresh \in [Recs -> {"off", "wait", "armed"}]
      /\ locator \in [Convs -> Instances \cup {None}]
  BY Types DEF ResumerInv
<1>2. /\ stream[x].pc = "new"
      /\ rec' = [WithCompleted({old}) EXCEPT ![x] = fresh]
      /\ refresh' = [WithStopped({old}) EXCEPT ![x] = "wait"]
      /\ recordings' = [SweptMap(i) EXCEPT ![i][c] = x]
      /\ locator' = [locator EXCEPT ![c] = i]
      /\ files' = SweptFiles(i) \cup {x}
      /\ stream' = [stream EXCEPT ![x].pc = "created"]
      /\ UNCHANGED <<aged, reader, canceller>>
  BY DEF StartRecording
<1>3. fresh \in Rec /\ fresh.inst = i /\ fresh.conv = c /\ fresh.complete = FALSE
  <2>1. NewRec \in Rec /\ NewRec.complete = FALSE  BY DEF NewRec, Rec
  <2>. QED  BY <2>1 DEF Rec
<1>. HIDE DEF old, fresh
<1>4. /\ stream' \in [Recs -> Stream] /\ stream'[x].pc = "created"
      /\ \A y \in Recs : y # x => stream'[y] = stream[y]
  BY <1>1, <1>2 DEF Stream
<1>5. TypeOK'
  <2>1. rec' \in [Recs -> Rec]  BY <1>2, <1>3, Completed
  <2>2. refresh' \in [Recs -> {"off", "wait", "armed"}]  BY <1>2, Completed
  <2>3. recordings' \in [Instances -> [Convs -> Recs \cup {None}]]  BY <1>2, Sweep
  <2>4. locator' \in [Convs -> Instances \cup {None}] /\ files' \subseteq Recs  BY <1>1, <1>2, Sweep
  <2>. QED  BY <1>1, <1>2, <1>4, <2>1, <2>2, <2>3, <2>4, TypesKept
<1>6. ASSUME NEW y \in Recs PROVE RecOK(y)'
  <2>1. RecOK(y)  BY DEF ResumerInv
  <2>2. CASE y = x
    <3>1. /\ rec'[y].inst = i /\ rec'[y].conv = c /\ rec'[y].complete = FALSE
          /\ recordings'[i][c] = x /\ stream'[y].pc = "created"
      BY <1>2, <1>3, <1>4, <2>2, Completed, Sweep
    <3>2. x \notin aged  BY <1>2, <2>1, <2>2 DEF RecOK
    <3>. QED  BY <1>2, <2>2, <3>1, <3>2 DEF RecOK, Placed, InProgress
  <2>3. CASE y # x
    <3>1. /\ rec'[y].inst = rec[y].inst /\ rec'[y].conv = rec[y].conv
          /\ rec'[y].complete = (rec[y].complete \/ y = old)
          /\ refresh'[y] \in {"off", refresh[y]} /\ stream'[y] = stream[y]
      BY <1>2, <1>4, <2>3, Completed
    <3>2. ASSUME InProgress(y)' PROVE Placed(y)' /\ recordings'[rec'[y].inst][rec'[y].conv] = y
      <4>1. InProgress(y) /\ y # old  BY <3>1, <3>2 DEF InProgress
      <4>2. SweptMap(i)[rec[y].inst][rec[y].conv] = y /\ Placed(y)
        BY <2>1, <4>1, SweepSpares DEF RecOK
      <4>3. rec[y].inst # i \/ rec[y].conv # c  BY <4>1, <4>2 DEF old
      <4>4. recordings'[rec[y].inst][rec[y].conv] = y  BY <1>2, <4>2, <4>3, Sweep DEF Placed
      <4>. QED  BY <3>1, <4>2, <4>4 DEF Placed
    <3>3. stream[y].pc = "new" => y # old
      <4>1. recordings[i][c] # None => stream[recordings[i][c]].pc # "new"  BY DEF ResumerInv, MapOK
      <4>. QED  BY <4>1, Sweep DEF old
    <3>. QED  BY <1>2, <2>1, <3>1, <3>2, <3>3 DEF RecOK, Placed
  <2>. QED  BY <2>2, <2>3
<1>7. MapOK'
  <2>. SUFFICES ASSUME NEW j \in Instances, NEW d \in Convs, recordings'[j][d] # None
                PROVE  stream'[recordings'[j][d]].pc # "new"
    BY DEF MapOK
  <2>1. recordings'[j][d] = x \/ recordings'[j][d] = recordings[j][d]  BY <1>2, Sweep
  <2>2. recordings[j][d] # None => recordings[j][d] \in Recs /\ stream[recordings[j][d]].pc # "new"
    BY Types DEF ResumerInv, MapOK
  <2>. QED  BY <1>4, <2>1, <2>2
<1>8. \A q \in Readers : ReaderOK(q)'  BY <1>2, <1>4, CallsKept
<1>. QED  BY <1>5, <1>6, <1>7, <1>8 DEF ResumerInv

(* So it is when creating its successor fails. *)
LEMMA StartFailsKeeps ==
  ASSUME ResumerInv, NEW x \in Recs, NEW i \in Instances, NEW c \in Convs, StartRecordingFails(x, i, c)
  PROVE  ResumerInv'
<1>. DEFINE old == SweptMap(i)[i][c]
<1>1. /\ rec \in [Recs -> Rec] /\ stream \in [Recs -> Stream] /\ aged \subseteq Recs
      /\ locator \in [Convs -> Instances \cup {None}]
  BY Types DEF ResumerInv
<1>2. /\ stream[x].pc = "new"
      /\ stream' = [stream EXCEPT ![x].pc = "ended", ![x].status = "ERROR"]
      /\ rec' = [WithCompleted({old}) EXCEPT ![x].complete = TRUE]
      /\ refresh' = WithStopped({old})
      /\ recordings' = SweptMap(i) \/ recordings' = [SweptMap(i) EXCEPT ![i][c] = None]
      /\ files' = SweptFiles(i)
      /\ UNCHANGED <<aged, reader, canceller>>
  BY DEF StartRecordingFails
<1>3. locator' \in [Convs -> Instances \cup {None}]
  BY <1>1 DEF StartRecordingFails, LocatorRemoved
<1>. HIDE DEF old
<1>4. /\ stream' \in [Recs -> Stream] /\ stream'[x].pc = "ended"
      /\ \A y \in Recs : y # x => stream'[y] = stream[y]
  BY <1>1, <1>2 DEF Stream
<1>5. /\ rec' \in [Recs -> Rec]
      /\ \A y \in Recs : /\ rec'[y].inst = rec[y].inst /\ rec'[y].conv = rec[y].conv
                          /\ rec'[y].complete = (rec[y].complete \/ y = old \/ y = x)
  <2>. DEFINE W == WithCompleted({old})
  <2>1. W \in [Recs -> Rec] /\ \A y \in Recs : /\ W[y].inst = rec[y].inst /\ W[y].conv = rec[y].conv
                          /\ W[y].complete = (rec[y].complete \/ y = old)
    BY Completed
  <2>2. rec' = [W EXCEPT ![x].complete = TRUE]  BY <1>2
  <2>. HIDE DEF W
  <2>. QED  BY <2>1, <2>2 DEF Rec
<1>6. /\ recordings' \in [Instances -> [Convs -> Recs \cup {None}]]
      /\ \A j \in Instances, d \in Convs :
           \/ recordings'[j][d] = SweptMap(i)[j][d]
           \/ recordings'[j][d] = None /\ j = i /\ d = c
  <2>. DEFINE M == SweptMap(i)
  <2>1. M \in [Instances -> [Convs -> Recs \cup {None}]]  BY Sweep
  <2>2. recordings' = M \/ recordings' = [M EXCEPT ![i][c] = None]  BY <1>2
  <2>. HIDE DEF M
  <2>3. CASE recordings' = M  BY <2>1, <2>3 DEF M
  <2>4. CASE recordings' = [M EXCEPT ![i][c] = None]
    <3>1. recordings' \in [Instances -> [Convs -> Recs \cup {None}]]  BY <2>1, <2>4
    <3>2. ASSUME NEW j \in Instances, NEW d \in Convs
          PROVE  recordings'[j][d] = IF j = i /\ d = c THEN None ELSE M[j][d]
      BY <2>1, <2>4
    <3>. QED  BY <3>1, <3>2 DEF M
  <2>. QED  BY <2>2, <2>3, <2>4
<1>7. TypeOK'
  <2>1. refresh' \in [Recs -> {"off", "wait", "armed"}] /\ files' \subseteq Recs
    BY <1>2, Completed, Sweep
  <2>. QED  BY <1>1, <1>2, <1>3, <1>4, <1>5, <1>6, <2>1, TypesKept
<1>8. ASSUME NEW y \in Recs PROVE RecOK(y)'
  <2>1. RecOK(y)  BY DEF ResumerInv
  <2>2. refresh'[y] \in {"off", refresh[y]}  BY <1>2, Completed
  <2>3. ASSUME InProgress(y)' PROVE Placed(y)' /\ recordings'[rec'[y].inst][rec'[y].conv] = y
    <3>1. InProgress(y) /\ y # old /\ y # x  BY <1>2, <1>4, <1>5, <2>3 DEF InProgress
    <3>2. SweptMap(i)[rec[y].inst][rec[y].conv] = y /\ Placed(y)
      BY <2>1, <3>1, SweepSpares DEF RecOK
    <3>3. rec[y].inst # i \/ rec[y].conv # c  BY <3>1, <3>2 DEF old
    <3>. QED  BY <1>5, <1>6, <3>2, <3>3 DEF Placed
  <2>4. stream'[y].pc = "new" => y # old /\ y # x
    <3>1. recordings[i][c] # None => stream[recordings[i][c]].pc # "new"  BY DEF ResumerInv, MapOK
    <3>. QED  BY <1>4, <3>1, Sweep DEF old
  <2>5. stream'[y].pc \in {"new", "created", "open"} => stream'[y] = stream[y]  BY <1>4
  <2>. QED  BY <1>2, <1>5, <2>1, <2>2, <2>3, <2>4, <2>5 DEF RecOK, Placed
<1>9. MapOK'
  <2>. SUFFICES ASSUME NEW j \in Instances, NEW d \in Convs, recordings'[j][d] # None
                PROVE  stream'[recordings'[j][d]].pc # "new"
    BY DEF MapOK
  <2>1. recordings'[j][d] = recordings[j][d]  BY <1>6, Sweep
  <2>2. recordings[j][d] # None => recordings[j][d] \in Recs /\ stream[recordings[j][d]].pc # "new"
    BY Types DEF ResumerInv, MapOK
  <2>. QED  BY <1>4, <2>1, <2>2
<1>10. \A q \in Readers : ReaderOK(q)'  BY <1>2, <1>4, CallsKept
<1>. QED  BY <1>7, <1>8, <1>9, <1>10 DEF ResumerInv

-----------------------------------------------------------------------------
(* The end of a stream completes its recording and stops its refresh. *)
LEMMA EndKeeps ==
  ASSUME ResumerInv, NEW x \in Recs, NEW status \in {"SUCCESS", "CANCELLED", "ERROR"},
         EndStream(x, status)
  PROVE  ResumerInv'
<1>1. /\ rec \in [Recs -> Rec] /\ stream \in [Recs -> Stream] /\ aged \subseteq Recs
      /\ locator \in [Convs -> Instances \cup {None}] /\ files \subseteq Recs
      /\ recordings \in [Instances -> [Convs -> Recs \cup {None}]]
  BY Types DEF ResumerInv
<1>2. /\ stream[x].pc = "open"
      /\ rec' = WithCompleted({x}) /\ refresh' = WithStopped({x})
      /\ UNCHANGED <<recordings, files, aged, reader, canceller>>
  BY DEF EndStream
<1>3. locator' \in [Convs -> Instances \cup {None}]  BY <1>1 DEF EndStream, LocatorRemoved
<1>4. /\ stream' \in [Recs -> Stream] /\ stream'[x].pc = "ended"
      /\ \A y \in Recs : y # x => stream'[y] = stream[y]
  <2>1. PICK st \in {"SUCCESS", "CANCELLED", "ERROR"} :
          stream' = [stream EXCEPT ![x].pc = "ended", ![x].status = st]
    BY DEF EndStream
  <2>. QED  BY <1>1, <2>1 DEF Stream
<1>5. /\ rec' \in [Recs -> Rec] /\ refresh' \in [Recs -> {"off", "wait", "armed"}]
      /\ \A y \in Recs : /\ rec'[y].inst = rec[y].inst /\ rec'[y].conv = rec[y].conv
                          /\ rec'[y].complete = (rec[y].complete \/ y = x)
                          /\ refresh'[y] \in {"off", refresh[y]}
  BY <1>2, Completed
<1>6. TypeOK'  BY <1>1, <1>2, <1>3, <1>4, <1>5, TypesKept
<1>7. ASSUME NEW y \in Recs PROVE RecOK(y)'
  <2>1. RecOK(y)  BY DEF ResumerInv
  <2>. QED  BY <1>2, <1>4, <1>5, <2>1 DEF RecOK, Placed, InProgress
<1>8. MapOK'  BY <1>1, <1>2, <1>4 DEF MapOK, ResumerInv
<1>9. \A q \in Readers : ReaderOK(q)'  BY <1>2, <1>4, CallsKept
<1>. QED  BY <1>6, <1>7, <1>8, <1>9 DEF ResumerInv

(* Subscribe, a token, the refresh and a lost locator leave the map alone. *)
LEMMA OpenKeeps ==
  ASSUME ResumerInv, NEW x \in Recs,
         \/ Subscribe(x) \/ RecordToken(x)
         \/ RefreshCheck(x) \/ RefreshUpsert(x) \/ RefreshUpsertFails(x)
         \/ \E c \in Convs : LocatorExpires(c)
         \/ RetentionPasses(x)
  PROVE  ResumerInv'
<1>1. /\ rec \in [Recs -> Rec] /\ stream \in [Recs -> Stream] /\ aged \subseteq Recs
      /\ locator \in [Convs -> Instances \cup {None}] /\ files \subseteq Recs
      /\ refresh \in [Recs -> {"off", "wait", "armed"}]
      /\ recordings \in [Instances -> [Convs -> Recs \cup {None}]]
  BY Types DEF ResumerInv
<1>2. RecOK(x)  BY DEF ResumerInv
<1>3. UNCHANGED <<recordings, files, reader, canceller>>
  BY DEF Subscribe, RecordToken, RefreshCheck, RefreshUpsert, RefreshUpsertFails, LocatorExpires, RetentionPasses
<1>4. /\ stream' \in [Recs -> Stream]
      /\ \A y \in Recs : \/ stream'[y].pc = stream[y].pc
                         \/ stream[y].pc = "created" /\ stream'[y].pc = "open"
  <2>1. CASE Subscribe(x)
    <3>1. recordings[rec[x].inst][rec[x].conv] \in Recs \cup {None}
      BY <1>1, <1>2, <2>1 DEF RecOK, Placed, Subscribe
    <3>2. /\ stream' = [stream EXCEPT ![x].pc = "open",
                                     ![x].watches = recordings[rec[x].inst][rec[x].conv]]
          /\ stream[x].pc = "created" /\ stream[x] \in Stream
      BY <1>1, <2>1 DEF Subscribe
    <3>. QED  BY <1>1, <3>1, <3>2 DEF Stream
  <2>2. CASE ~Subscribe(x)
    <3>1. UNCHANGED stream
      BY <2>2 DEF RecordToken, RefreshCheck, RefreshUpsert, RefreshUpsertFails, LocatorExpires, RetentionPasses
    <3>. QED  BY <1>1, <3>1
  <2>. QED  BY <2>1, <2>2
<1>5. /\ rec' \in [Recs -> Rec]
      /\ \A y \in Recs : /\ rec'[y].inst = rec[y].inst /\ rec'[y].conv = rec[y].conv
                          /\ rec'[y].complete = rec[y].complete
  <2>1. CASE RecordToken(x)
    <3>1. rec[x] \in Rec /\ rec[x].size + 1 \in 0..MaxTokens
      BY <1>1, <2>1 DEF RecordToken, Rec
    <3>2. [rec[x] EXCEPT !.size = @ + 1] \in Rec  BY <3>1 DEF Rec
    <3>3. rec' = [rec EXCEPT ![x] = [rec[x] EXCEPT !.size = @ + 1]]  BY <1>1, <2>1 DEF RecordToken
    <3>4. rec' \in [Recs -> Rec]  BY <1>1, <3>2, <3>3
    <3>. QED  BY <1>1, <3>1, <3>3, <3>4 DEF Rec
  <2>2. CASE ~RecordToken(x)
    <3>1. UNCHANGED rec
      BY <2>2 DEF Subscribe, RefreshCheck, RefreshUpsert, RefreshUpsertFails, LocatorExpires, RetentionPasses
    <3>. QED  BY <1>1, <3>1
  <2>. QED  BY <2>1, <2>2
<1>6. /\ refresh' \in [Recs -> {"off", "wait", "armed"}]
      /\ \A y \in Recs : refresh'[y] # "off" => refresh[y] # "off"
  BY <1>1 DEF Subscribe, RecordToken, RefreshCheck, RefreshUpsert, RefreshUpsertFails, LocatorExpires, RetentionPasses
<1>7. locator' \in [Convs -> Instances \cup {None}]
  <2>1. CASE RefreshUpsert(x)
    <3>1. Placed(x)  BY <1>2, <2>1 DEF RecOK, RefreshUpsert
    <3>. QED  BY <1>1, <2>1, <3>1 DEF RefreshUpsert, Placed
  <2>2. CASE \E c \in Convs : LocatorExpires(c)  BY <1>1, <2>2 DEF LocatorExpires
  <2>3. CASE ~RefreshUpsert(x) /\ ~\E c \in Convs : LocatorExpires(c)
    <3>1. UNCHANGED locator
      BY <2>3 DEF Subscribe, RecordToken, RefreshCheck, RefreshUpsertFails, RetentionPasses
    <3>. QED  BY <1>1, <3>1
  <2>. QED  BY <2>1, <2>2, <2>3
<1>8. aged' \subseteq Recs /\ \A y \in Recs : y \in aged' => y \in aged \/ rec[y].complete
  BY <1>1 DEF Subscribe, RecordToken, RefreshCheck, RefreshUpsert, RefreshUpsertFails, LocatorExpires, RetentionPasses
<1>9. TypeOK'  BY <1>1, <1>3, <1>4, <1>5, <1>6, <1>7, <1>8, TypesKept
<1>10. ASSUME NEW y \in Recs PROVE RecOK(y)'
  <2>1. RecOK(y)  BY DEF ResumerInv
  <2>. QED  BY <1>3, <1>4, <1>5, <1>6, <1>8, <2>1 DEF RecOK, Placed, InProgress
<1>11. MapOK'  BY <1>1, <1>3, <1>4 DEF MapOK, ResumerInv
<1>12. \A q \in Readers : ReaderOK(q)'  BY <1>3, <1>4, CallsKept
<1>. QED  BY <1>9, <1>10, <1>11, <1>12 DEF ResumerInv

(* A call or a check that sweeps, or does not, and changes no recording. *)
LEMMA SweptKeeps ==
  ASSUME ResumerInv, UNCHANGED <<rec, stream, refresh, locator, aged>>,
         \/ UNCHANGED <<recordings, files>>
         \/ \E i \in Instances : recordings' = SweptMap(i) /\ files' = SweptFiles(i)
  PROVE  /\ recordings' \in [Instances -> [Convs -> Recs \cup {None}]] /\ files' \subseteq Recs
         /\ \A x \in Recs : RecOK(x)'
         /\ MapOK'
<1>1. /\ recordings \in [Instances -> [Convs -> Recs \cup {None}]] /\ files \subseteq Recs
      /\ stream \in [Recs -> Stream]
  BY Types DEF ResumerInv
<1>2. CASE UNCHANGED <<recordings, files>>
  <2>1. MapOK' /\ \A x \in Recs : RecOK(x)'
    BY <1>2 DEF ResumerInv, MapOK, RecOK, Placed, InProgress
  <2>. QED  BY <1>1, <1>2, <2>1
<1>3. ASSUME NEW i \in Instances, recordings' = SweptMap(i), files' = SweptFiles(i)
      PROVE  /\ recordings' \in [Instances -> [Convs -> Recs \cup {None}]] /\ files' \subseteq Recs
             /\ \A x \in Recs : RecOK(x)'
             /\ MapOK'
  <2>1. ASSUME NEW x \in Recs PROVE RecOK(x)'
    <3>1. RecOK(x)  BY DEF ResumerInv
    <3>2. InProgress(x) => SweptMap(i)[rec[x].inst][rec[x].conv] = x  BY SweepSpares
    <3>. QED  BY <1>3, <3>1, <3>2 DEF RecOK, Placed, InProgress
  <2>2. MapOK'  BY <1>1, <1>3, Sweep DEF ResumerInv, MapOK
  <2>. QED  BY <1>3, <2>1, <2>2, Sweep
<1>. QED  BY <1>2, <1>3

LEMMA CheckKeeps ==
  ASSUME ResumerInv, NEW i \in Instances, CheckRecordings(i)
  PROVE  ResumerInv'
<1>. USE DEF CheckRecordings
<1>1. /\ recordings' \in [Instances -> [Convs -> Recs \cup {None}]] /\ files' \subseteq Recs
      /\ (\A x \in Recs : RecOK(x)') /\ MapOK'
  BY SweptKeeps
<1>2. TypeOK'  BY <1>1, Types, TypesKept DEF ResumerInv
<1>3. \A q \in Readers : ReaderOK(q)'  BY CallsKept
<1>. QED  BY <1>1, <1>2, <1>3 DEF ResumerInv

(* Cancellations hold recordings of the map; closing a channel completes    *)
(* nothing by itself.                                                       *)
LEMMA CancelKeeps ==
  ASSUME ResumerInv, NEW k \in Cancellers, CancelStep(k)
  PROVE  ResumerInv'
<1>. USE DEF CancelStep, CancelLookup, CancelSelect, CancelClose, CancelReturns
<1>1. TypeOK /\ UNCHANGED <<stream, refresh, recordings, locator, files, aged, reader>>
  BY DEF ResumerInv
<1>2. /\ rec \in [Recs -> Rec] /\ canceller \in [Cancellers -> Canceller]
      /\ recordings \in [Instances -> [Convs -> Recs \cup {None}]]
      /\ \A j \in Cancellers : canceller[j].pc \in {"found", "closing"} => canceller[j].rec \in Recs
  BY <1>1, Types
<1>3. /\ rec' \in [Recs -> Rec]
      /\ \A y \in Recs : /\ rec'[y].inst = rec[y].inst /\ rec'[y].conv = rec[y].conv
                          /\ rec'[y].complete = rec[y].complete
  <2>1. CASE CancelClose(k)
    <3>. DEFINE x == canceller[k].rec
    <3>1. x \in Recs /\ rec' = [rec EXCEPT ![x].cancelled = TRUE]  BY <1>2, <2>1
    <3>. HIDE DEF x
    <3>2. rec[x] \in Rec  BY <1>2, <3>1
    <3>3. [rec[x] EXCEPT !.cancelled = TRUE] \in Rec  BY <3>2 DEF Rec
    <3>4. rec' = [rec EXCEPT ![x] = [rec[x] EXCEPT !.cancelled = TRUE]]  BY <1>2, <3>1
    <3>5. rec' \in [Recs -> Rec]  BY <1>2, <3>3, <3>4
    <3>. QED  BY <1>2, <3>2, <3>4, <3>5 DEF Rec
  <2>2. CASE ~CancelClose(k)  BY <1>2, <2>2
  <2>. QED  BY <2>1, <2>2
<1>4. /\ canceller' \in [Cancellers -> Canceller]
      /\ \A j \in Cancellers : canceller'[j].pc \in {"found", "closing"} => canceller'[j].rec \in Recs
  <2>1. ASSUME NEW i \in Instances, NEW c \in Convs, CancelLookup(k, i, c)
        PROVE  canceller' \in [Cancellers -> Canceller] /\ (canceller'[k].pc = "found" => canceller'[k].rec \in Recs)
               /\ canceller'[k].pc # "closing" /\ \A j \in Cancellers : j # k => canceller'[j] = canceller[j]
    BY <1>2, <2>1 DEF Canceller
  <2>2. ASSUME CancelSelect(k) \/ CancelClose(k) \/ CancelReturns(k)
        PROVE  /\ canceller' \in [Cancellers -> Canceller]
               /\ canceller'[k].pc \in {"found", "closing"} => canceller'[k].rec \in Recs
               /\ \A j \in Cancellers : j # k => canceller'[j] = canceller[j]
    BY <1>2, <2>2 DEF Canceller, IdleCanceller
  <2>. QED  BY <1>2, <2>1, <2>2
<1>5. TypeOK'
  <2>1. /\ stream' \in [Recs -> Stream]
        /\ refresh' \in [Recs -> {"off", "wait", "armed"}]
        /\ recordings' \in [Instances -> [Convs -> Recs \cup {None}]]
        /\ locator' \in [Convs -> Instances \cup {None}]
        /\ files' \subseteq Recs /\ aged' \subseteq Recs
        /\ reader' \in [Readers -> Reader]
        /\ \A q \in Readers : reader'[q].pc \in {"open", "reading", "done", "failed"} => reader'[q].rec \in Recs
    BY <1>1, Types
  <2>. QED  BY <1>3, <1>4, <2>1 DEF TypeOK, Rec, Stream, Canceller, Reader
<1>6. \A x \in Recs : RecOK(x)'
  BY <1>1, <1>3 DEF ResumerInv, RecOK, Placed, InProgress
<1>7. MapOK' /\ \A q \in Readers : ReaderOK(q)'
  BY <1>1 DEF ResumerInv, MapOK, ReaderOK
<1>. QED  BY <1>5, <1>6, <1>7 DEF ResumerInv

(* A restart completes the recordings whose map entries it loses, and ends  *)
(* the calls of the instance.                                               *)
LEMMA RestartKeeps ==
  ASSUME ResumerInv, NEW i \in Instances, Restart(i)
  PROVE  ResumerInv'
<1>. DEFINE mine == {x \in Recs : rec[x].inst = i}
<1>1. /\ rec \in [Recs -> Rec] /\ stream \in [Recs -> Stream] /\ aged \subseteq Recs
      /\ locator \in [Convs -> Instances \cup {None}] /\ files \subseteq Recs
      /\ refresh \in [Recs -> {"off", "wait", "armed"}]
      /\ recordings \in [Instances -> [Convs -> Recs \cup {None}]]
      /\ canceller \in [Cancellers -> Canceller] /\ reader \in [Readers -> Reader]
      /\ \A q \in Readers : reader[q].pc \in {"open", "reading", "done", "failed"} => reader[q].rec \in Recs
      /\ \A k \in Cancellers : canceller[k].pc \in {"found", "closing"} => canceller[k].rec \in Recs
  BY Types DEF ResumerInv
<1>2. /\ rec' = WithCompleted(mine)
      /\ stream' = [x \in Recs |->
                      IF x \in mine /\ stream[x].pc # "ended"
                        THEN [stream[x] EXCEPT !.pc = "ended", !.status = "ERROR"] ELSE stream[x]]
      /\ refresh' = [x \in Recs |-> IF x \in mine THEN "off" ELSE refresh[x]]
      /\ files' = files \ (mine \cap aged)
      /\ recordings' = [recordings EXCEPT ![i] = [c \in Convs |-> None]]
      /\ reader' = [q \in Readers |-> IF reader[q].inst = i THEN IdleReader ELSE reader[q]]
      /\ canceller' = [k \in Cancellers |->
                       IF canceller[k].rec # None /\ rec[canceller[k].rec].inst = i
                         THEN IdleCanceller ELSE canceller[k]]
      /\ UNCHANGED <<locator, aged>>
  BY DEF Restart
<1>3. \A x \in Recs : x \in mine <=> rec[x].inst = i  OBVIOUS
<1>. HIDE DEF mine
<1>4. /\ rec' \in [Recs -> Rec]
      /\ \A y \in Recs : /\ rec'[y].inst = rec[y].inst /\ rec'[y].conv = rec[y].conv
                          /\ rec'[y].complete = (rec[y].complete \/ rec[y].inst = i)
  BY <1>2, <1>3, Completed
<1>5. /\ stream' \in [Recs -> Stream]
      /\ \A y \in Recs : IF rec[y].inst = i THEN stream'[y].pc = "ended" ELSE stream'[y] = stream[y]
  <2>1. ASSUME NEW y \in Recs PROVE [stream[y] EXCEPT !.pc = "ended", !.status = "ERROR"] \in Stream
    <3>1. stream[y] \in Stream  BY <1>1
    <3>. QED  BY <3>1 DEF Stream
  <2>2. stream' \in [Recs -> Stream]  BY <1>1, <1>2, <2>1
  <2>3. ASSUME NEW y \in Recs PROVE [stream[y] EXCEPT !.pc = "ended", !.status = "ERROR"].pc = "ended"
    <3>1. stream[y] \in Stream  BY <1>1
    <3>. QED  BY <3>1 DEF Stream
  <2>. QED  BY <1>2, <1>3, <2>2, <2>3
<1>6. /\ recordings' \in [Instances -> [Convs -> Recs \cup {None}]]
      /\ \A j \in Instances, c \in Convs : recordings'[j][c] = IF j = i THEN None ELSE recordings[j][c]
  BY <1>1, <1>2
<1>7. /\ reader' \in [Readers -> Reader]
      /\ \A q \in Readers : reader'[q] = reader[q] \/ reader'[q].pc = "idle"
  <2>1. IdleReader \in Reader /\ IdleReader.pc = "idle"  BY DEF IdleReader, Reader
  <2>. QED  BY <1>1, <1>2, <2>1
<1>8. /\ canceller' \in [Cancellers -> Canceller]
      /\ \A k \in Cancellers : canceller'[k] = canceller[k] \/ canceller'[k].pc = "idle"
  BY <1>1, <1>2 DEF IdleCanceller, Canceller
<1>9. TypeOK'
  <2>1. /\ refresh' \in [Recs -> {"off", "wait", "armed"}]
        /\ locator' \in [Convs -> Instances \cup {None}] /\ files' \subseteq Recs /\ aged' \subseteq Recs
    BY <1>1, <1>2
  <2>2. \A q \in Readers : reader'[q].pc \in {"open", "reading", "done", "failed"} => reader'[q].rec \in Recs
    BY <1>1, <1>7
  <2>3. \A k \in Cancellers : canceller'[k].pc \in {"found", "closing"} => canceller'[k].rec \in Recs
    BY <1>1, <1>8
  <2>. QED  BY <1>4, <1>5, <1>6, <1>7, <1>8, <2>1, <2>2, <2>3 DEF TypeOK, Rec, Stream, Canceller, Reader
<1>10. ASSUME NEW y \in Recs PROVE RecOK(y)'
  <2>1. RecOK(y)  BY DEF ResumerInv
  <2>2. refresh'[y] = IF rec[y].inst = i THEN "off" ELSE refresh[y]  BY <1>2, <1>3
  <2>3. CASE rec[y].inst = i
    BY <1>2, <1>4, <1>5, <2>1, <2>2, <2>3 DEF RecOK, Placed, InProgress
  <2>4. CASE rec[y].inst # i
    BY <1>2, <1>4, <1>5, <1>6, <2>1, <2>2, <2>4 DEF RecOK, Placed, InProgress
  <2>. QED  BY <2>3, <2>4
<1>11. MapOK'
  <2>. SUFFICES ASSUME NEW j \in Instances, NEW d \in Convs, recordings'[j][d] # None
                PROVE  stream'[recordings'[j][d]].pc # "new"
    BY DEF MapOK
  <2>1. recordings'[j][d] = recordings[j][d]  BY <1>6
  <2>2. recordings[j][d] \in Recs /\ stream[recordings[j][d]].pc # "new"
    BY <1>1, <2>1 DEF ResumerInv, MapOK
  <2>. QED  BY <1>5, <2>1, <2>2
<1>12. ASSUME NEW q \in Readers PROVE ReaderOK(q)'
  <2>1. ReaderOK(q)  BY DEF ResumerInv
  <2>. QED  BY <1>1, <1>5, <1>7, <2>1 DEF ReaderOK
<1>. QED  BY <1>9, <1>10, <1>11, <1>12 DEF ResumerInv

(* A replay goes on with a recording of the map, from the beginning. *)
LEMMA ReplayKeeps ==
  ASSUME ResumerInv, NEW q \in Readers, ReplayStep(q)
  PROVE  /\ ResumerInv'
         /\ UNCHANGED <<rec, stream>>
         /\ \A p \in Readers : p # q => reader'[p] = reader[p]
<1>1. /\ rec \in [Recs -> Rec] /\ stream \in [Recs -> Stream]
      /\ locator \in [Convs -> Instances \cup {None}]
      /\ recordings \in [Instances -> [Convs -> Recs \cup {None}]]
      /\ reader \in [Readers -> Reader] /\ reader[q] \in Reader
      /\ \A p \in Readers : reader[p].pc \in {"open", "reading", "done", "failed"} => reader[p].rec \in Recs
  BY Types DEF ResumerInv
<1>2. ReaderOK(q)  BY DEF ResumerInv
<1>3. UNCHANGED <<rec, stream, refresh, locator, aged, canceller>>
  BY DEF ReplayStep, ReplayBegin, ReplayLocate, ReplayLookup, ReplayOpen, ReplayRead,
         ReplayReadFails, ReplayEnds
<1>4. /\ IdleReader \in Reader /\ IdleReader.pc = "idle"
      /\ IdleReader.seen = {} /\ IdleReader.offset = 0
  BY DEF IdleReader, Reader
<1>5. \/ UNCHANGED <<recordings, files>>
      \/ \E i \in Instances : recordings' = SweptMap(i) /\ files' = SweptFiles(i)
  <2>1. CASE ReplayLookup(q)  BY <1>2, <2>1 DEF ReplayLookup, ReaderOK
  <2>2. CASE ~ReplayLookup(q)
    BY <2>2 DEF ReplayStep, ReplayBegin, ReplayLocate, ReplayOpen, ReplayRead,
         ReplayReadFails, ReplayEnds
  <2>. QED  BY <2>1, <2>2
<1>6. \E r \in Reader :
        /\ reader' = [reader EXCEPT ![q] = r]
        /\ r.pc # "idle" => r.inst \in Instances /\ r.conv \in Convs
        /\ r.pc \in {"open", "reading", "done", "failed"} => r.rec \in Recs /\ stream[r.rec].pc # "new"
        /\ r.pc \in {"ask", "lookup", "open"} => r.seen = {} /\ r.offset = 0
  <2>. DEFINE Good(r) ==
        /\ r \in Reader
        /\ reader' = [reader EXCEPT ![q] = r]
        /\ r.pc # "idle" => r.inst \in Instances /\ r.conv \in Convs
        /\ r.pc \in {"open", "reading", "done", "failed"} => r.rec \in Recs /\ stream[r.rec].pc # "new"
        /\ r.pc \in {"ask", "lookup", "open"} => r.seen = {} /\ r.offset = 0
  <2>1. ASSUME reader' = [reader EXCEPT ![q] = IdleReader] PROVE \E r : Good(r)
    <3>1. Good(IdleReader)  BY <1>4, <2>1
    <3>. QED  BY <3>1
  <2>2. ASSUME NEW i \in Instances, NEW c \in Convs, ReplayBegin(q, i, c) PROVE \E r : Good(r)
    <3>1. [IdleReader EXCEPT !.pc = "ask", !.inst = i, !.conv = c] \in Reader
      BY <1>4 DEF Reader
    <3>2. Good([IdleReader EXCEPT !.pc = "ask", !.inst = i, !.conv = c])
      BY <1>4, <2>2, <3>1 DEF ReplayBegin, Reader
    <3>. QED  BY <3>2
  <2>3. CASE ReplayLocate(q)
    <3>. DEFINE home == locator[reader[q].conv]
    <3>1. reader[q].pc = "ask" /\ reader[q].inst \in Instances /\ reader[q].conv \in Convs
          /\ reader[q].seen = {} /\ reader[q].offset = 0
      BY <1>2, <2>3 DEF ReplayLocate, ReaderOK
    <3>2. home \in Instances \cup {None}  BY <1>1, <3>1
    <3>3. reader' = [reader EXCEPT ![q] =
            IF home \in {None, @.inst} THEN [@ EXCEPT !.pc = "lookup"]
            ELSE IF @.hops < MaxHops THEN [@ EXCEPT !.inst = home, !.hops = reader[q].hops + 1]
            ELSE IdleReader]
      BY <2>3 DEF ReplayLocate
    <3>. HIDE DEF home
    <3>4. CASE home \in {None, reader[q].inst}
      <4>1. [reader[q] EXCEPT !.pc = "lookup"] \in Reader  BY <1>1 DEF Reader
      <4>2. Good([reader[q] EXCEPT !.pc = "lookup"])  BY <1>1, <3>1, <3>3, <3>4, <4>1 DEF Reader
      <4>. QED  BY <4>2
    <3>5. CASE home \notin {None, reader[q].inst} /\ reader[q].hops < MaxHops
      <4>1. reader[q].hops + 1 \in 0..MaxHops  BY <1>1, <3>5 DEF Reader
      <4>2. [reader[q] EXCEPT !.inst = home, !.hops = reader[q].hops + 1] \in Reader  BY <1>1, <3>2, <4>1 DEF Reader
      <4>. DEFINE r == [reader[q] EXCEPT !.inst = home, !.hops = reader[q].hops + 1]
      <4>3. r.pc = "ask" /\ r.inst = home /\ r.conv = reader[q].conv /\ r.seen = {} /\ r.offset = 0
        BY <1>1, <3>1 DEF Reader
      <4>4. reader' = [reader EXCEPT ![q] = r]  BY <3>3, <3>5, Zenon
      <4>. HIDE DEF r
      <4>5. Good(r)  BY <3>1, <3>2, <3>5, <4>2, <4>3, <4>4 DEF r
      <4>. QED  BY <4>5
    <3>6. CASE home \notin {None, reader[q].inst} /\ ~(reader[q].hops < MaxHops)
      BY <1>1, <2>1, <3>3, <3>6
    <3>. QED  BY <3>4, <3>5, <3>6
  <2>4. CASE ReplayLookup(q)
    <3>. DEFINE x == SweptMap(reader[q].inst)[reader[q].inst][reader[q].conv]
    <3>1. reader[q].pc = "lookup" /\ reader[q].inst \in Instances /\ reader[q].conv \in Convs
          /\ reader[q].seen = {} /\ reader[q].offset = 0
      BY <1>2, <2>4 DEF ReplayLookup, ReaderOK
    <3>2. x # None => x \in Recs /\ stream[x].pc # "new"
      BY <1>1, <3>1, Sweep DEF ResumerInv, MapOK
    <3>3. reader' = [reader EXCEPT ![q] = IF x = None THEN IdleReader ELSE [@ EXCEPT !.pc = "open", !.rec = x]]
      BY <2>4 DEF ReplayLookup
    <3>. HIDE DEF x
    <3>4. CASE x = None  BY <2>1, <3>3, <3>4
    <3>5. CASE x # None
      <4>1. [reader[q] EXCEPT !.pc = "open", !.rec = x] \in Reader  BY <1>1, <3>2, <3>5 DEF Reader
      <4>2. Good([reader[q] EXCEPT !.pc = "open", !.rec = x])
        BY <1>1, <3>1, <3>2, <3>3, <3>5, <4>1 DEF Reader
      <4>. QED  BY <4>2
    <3>. QED  BY <3>4, <3>5
  <2>5. CASE ReplayOpen(q)
    <3>1. reader[q].pc = "open" /\ reader[q].inst \in Instances /\ reader[q].conv \in Convs
          /\ reader[q].rec \in Recs /\ stream[reader[q].rec].pc # "new"
      BY <1>1, <1>2, <2>5 DEF ReplayOpen, ReaderOK
    <3>2. CASE reader[q].rec \in files
      <4>1. [reader[q] EXCEPT !.pc = "reading"] \in Reader  BY <1>1 DEF Reader
      <4>2. Good([reader[q] EXCEPT !.pc = "reading"])  BY <1>1, <2>5, <3>1, <3>2, <4>1 DEF Reader, ReplayOpen
      <4>. QED  BY <4>2
    <3>3. CASE reader[q].rec \notin files  BY <1>1, <2>1, <2>5, <3>3 DEF ReplayOpen
    <3>. QED  BY <3>2, <3>3
  <2>6. CASE ReplayRead(q)
    <3>. DEFINE size == rec[reader[q].rec].size
                o == reader[q].offset
                new == reader[q].seen \cup {t \in Tokens : o < t /\ t <= size /\ t <= o + ReadCap}
    <3>1. reader[q].pc = "reading" /\ reader[q].inst \in Instances /\ reader[q].conv \in Convs
          /\ reader[q].rec \in Recs /\ stream[reader[q].rec].pc # "new"
      BY <1>1, <1>2, <2>6 DEF ReplayRead, ReaderOK
    <3>2. size \in 0..MaxTokens  BY <1>1, <3>1 DEF Rec
    <3>3. \/ reader' = [reader EXCEPT ![q].offset = size, ![q].seen = new]
          \/ reader' = [reader EXCEPT ![q].pc = "done"]
      BY <1>1, <2>6 DEF ReplayRead
    <3>4. new \in SUBSET Tokens  BY <1>1 DEF Reader
    <3>. HIDE DEF size, o, new
    <3>5. CASE reader' = [reader EXCEPT ![q].offset = size, ![q].seen = new]
      <4>1. [reader[q] EXCEPT !.offset = size, !.seen = new] \in Reader  BY <1>1, <3>2, <3>4 DEF Reader
      <4>2. Good([reader[q] EXCEPT !.offset = size, !.seen = new])
        BY <1>1, <3>1, <3>5, <4>1 DEF Reader
      <4>. QED  BY <4>2
    <3>6. CASE reader' = [reader EXCEPT ![q].pc = "done"]
      <4>1. [reader[q] EXCEPT !.pc = "done"] \in Reader  BY <1>1 DEF Reader
      <4>2. Good([reader[q] EXCEPT !.pc = "done"])  BY <1>1, <3>1, <3>6, <4>1 DEF Reader
      <4>. QED  BY <4>2
    <3>. QED  BY <3>3, <3>5, <3>6
  <2>7. CASE ReplayReadFails(q)
    <3>1. reader[q].pc = "reading" /\ reader[q].inst \in Instances /\ reader[q].conv \in Convs
          /\ reader[q].rec \in Recs /\ stream[reader[q].rec].pc # "new"
          /\ reader' = [reader EXCEPT ![q].pc = "failed"]
      BY <1>1, <1>2, <2>7 DEF ReplayReadFails, ReaderOK
    <3>2. [reader[q] EXCEPT !.pc = "failed"] \in Reader  BY <1>1 DEF Reader
    <3>3. Good([reader[q] EXCEPT !.pc = "failed"])  BY <1>1, <3>1, <3>2 DEF Reader
    <3>. QED  BY <3>3
  <2>8. CASE ReplayEnds(q)  BY <2>1, <2>8 DEF ReplayEnds
  <2>. QED  BY <2>2, <2>3, <2>4, <2>5, <2>6, <2>7, <2>8 DEF ReplayStep
<1>7. PICK r \in Reader :
        /\ reader' = [reader EXCEPT ![q] = r]
        /\ r.pc # "idle" => r.inst \in Instances /\ r.conv \in Convs
        /\ r.pc \in {"open", "reading", "done", "failed"} => r.rec \in Recs /\ stream[r.rec].pc # "new"
        /\ r.pc \in {"ask", "lookup", "open"} => r.seen = {} /\ r.offset = 0
  BY <1>6
<1>8. /\ reader' \in [Readers -> Reader] /\ reader'[q] = r
      /\ \A p \in Readers : p # q => reader'[p] = reader[p]
  BY <1>1, <1>7
<1>9. /\ recordings' \in [Instances -> [Convs -> Recs \cup {None}]] /\ files' \subseteq Recs
      /\ (\A x \in Recs : RecOK(x)') /\ MapOK'
  BY <1>3, <1>5, SweptKeeps
<1>10. TypeOK'
  <2>1. /\ rec' \in [Recs -> Rec] /\ stream' \in [Recs -> Stream]
        /\ refresh' \in [Recs -> {"off", "wait", "armed"}]
        /\ locator' \in [Convs -> Instances \cup {None}] /\ aged' \subseteq Recs
        /\ canceller' \in [Cancellers -> Canceller]
        /\ \A k \in Cancellers : canceller'[k].pc \in {"found", "closing"} => canceller'[k].rec \in Recs
    BY <1>3, Types DEF ResumerInv
  <2>2. \A p \in Readers : reader'[p].pc \in {"open", "reading", "done", "failed"} => reader'[p].rec \in Recs
    BY <1>1, <1>7, <1>8
  <2>. QED  BY <1>8, <1>9, <2>1, <2>2 DEF TypeOK, Rec, Stream, Canceller, Reader
<1>11. ASSUME NEW p \in Readers PROVE ReaderOK(p)'
  <2>1. ReaderOK(p)  BY DEF ResumerInv
  <2>. QED  BY <1>3, <1>7, <1>8, <2>1 DEF ReaderOK
<1>. QED  BY <1>3, <1>8, <1>9, <1>10, <1>11 DEF ResumerInv

-----------------------------------------------------------------------------
LEMMA NextInv == ResumerInv /\ [Next]_vars => ResumerInv'
<1>. SUFFICES ASSUME ResumerInv, [Next]_vars PROVE ResumerInv'
  OBVIOUS
<1>1. ASSUME NEW x \in Recs, StreamStep(x) PROVE ResumerInv'
  <2>1. ASSUME NEW i \in Instances, NEW c \in Convs,
               StartRecording(x, i, c) \/ StartRecordingFails(x, i, c)
        PROVE  ResumerInv'
    BY <2>1, StartKeeps, StartFailsKeeps
  <2>2. ASSUME Finish(x) \/ StreamError(x) \/ ObserveCancel(x) PROVE ResumerInv'
    BY <2>2, EndKeeps DEF Finish, StreamError, ObserveCancel
  <2>3. ASSUME \/ Subscribe(x) \/ RecordToken(x)
               \/ RefreshCheck(x) \/ RefreshUpsert(x) \/ RefreshUpsertFails(x)
        PROVE  ResumerInv'
    BY <2>3, OpenKeeps
  <2>. QED  BY <1>1, <2>1, <2>2, <2>3 DEF StreamStep
<1>2. ASSUME NEW k \in Cancellers, CancelStep(k) PROVE ResumerInv'  BY <1>2, CancelKeeps
<1>3. ASSUME NEW q \in Readers, ReplayStep(q) PROVE ResumerInv'  BY <1>3, ReplayKeeps
<1>4. ASSUME NEW x \in Recs, RetentionPasses(x) PROVE ResumerInv'  BY <1>4, OpenKeeps
<1>5. ASSUME NEW c \in Convs, LocatorExpires(c) PROVE ResumerInv'
  <2>1. /\ UNCHANGED <<rec, stream, refresh, recordings, files, aged, reader, canceller>>
        /\ locator' = [locator EXCEPT ![c] = None]
    BY <1>5 DEF LocatorExpires
  <2>2. TypeOK'  BY <2>1 DEF ResumerInv, TypeOK
  <2>3. (\A x \in Recs : RecOK(x)') /\ MapOK' /\ \A q \in Readers : ReaderOK(q)'
    BY <2>1 DEF ResumerInv, RecOK, MapOK, ReaderOK, InProgress, Placed
  <2>. QED  BY <2>2, <2>3 DEF ResumerInv
<1>6. ASSUME NEW i \in Instances, CheckRecordings(i) \/ Restart(i) PROVE ResumerInv'
  BY <1>6, CheckKeeps, RestartKeeps
<1>7. ASSUME UNCHANGED vars PROVE ResumerInv'
  BY <1>7 DEF vars, ResumerInv, TypeOK, RecOK, MapOK, ReaderOK, InProgress, Placed
<1>8. CASE Environment  BY <1>4, <1>5, <1>6, <1>8, Zenon DEF Environment
<1>. QED  BY <1>1, <1>2, <1>3, <1>7, <1>8, Zenon DEF Next

LEMMA Invariance == Spec => []ResumerInv
BY InitInv, NextInv, PTL DEF Spec

(* Every variable of the resumer keeps its type: a lookup of the map yields *)
(* a recording or nothing (RecorderWithAddress, ReplayWithAddress).         *)
THEOREM ResumerTypes == Spec => []TypeOK
<1>1. ResumerInv => TypeOK  BY DEF ResumerInv
<1>. QED  BY <1>1, Invariance, PTL

(* A recording in progress is the one its instance's map holds, whatever    *)
(* replaces, sweeps and restarts do (RecorderWithAddress,                   *)
(* cleanupExpiredLocked).                                                   *)
THEOREM ActiveIsReachable == Spec => []OneActiveRecording
<1>1. ResumerInv => OneActiveRecording  BY DEF ResumerInv, RecOK, OneActiveRecording
<1>. QED  BY <1>1, Invariance, PTL

-----------------------------------------------------------------------------
(* The file of a recording that was created grows until it is complete and  *)
(* no longer.                                                               *)
LEMMA FilesGrow ==
  ASSUME ResumerInv, [Next]_vars, \A q \in Readers : ~ReplayStep(q),
         NEW x \in Recs, stream[x].pc # "new"
  PROVE  /\ rec'[x].size >= rec[x].size
         /\ rec[x].complete => rec'[x].complete /\ rec'[x].size = rec[x].size
<1>1. rec \in [Recs -> Rec] /\ rec[x] \in Rec /\ rec[x].size \in 0..MaxTokens
  BY Types DEF ResumerInv, Rec
<1>. DEFINE Goal == /\ rec'[x].size >= rec[x].size
                    /\ rec[x].complete => rec'[x].complete /\ rec'[x].size = rec[x].size
<1>2. ASSUME NEW S, rec'[x] = WithCompleted(S)[x] PROVE Goal
  <2>1. rec'[x].size = rec[x].size  BY <1>2, Completed
  <2>2. rec'[x].complete = (rec[x].complete \/ x \in S)  BY <1>2, Completed
  <2>3. rec[x].complete => rec'[x].complete  BY <2>2, Zenon
  <2>. QED  BY <1>1, <2>1, <2>3
<1>3. ASSUME NEW y \in Recs, StreamStep(y) PROVE Goal
  <2>1. ASSUME NEW i \in Instances, NEW c \in Convs, StartRecording(y, i, c) PROVE Goal
    <3>1. x # y  BY <2>1 DEF StartRecording
    <3>2. rec'[x] = WithCompleted({SweptMap(i)[i][c]})[x]  BY <2>1, <3>1, Completed DEF StartRecording
    <3>. QED  BY <1>2, <3>2
  <2>2. ASSUME NEW i \in Instances, NEW c \in Convs, StartRecordingFails(y, i, c) PROVE Goal
    <3>1. x # y  BY <2>2 DEF StartRecordingFails
    <3>2. rec'[x] = WithCompleted({SweptMap(i)[i][c]})[x]  BY <2>2, <3>1, Completed DEF StartRecordingFails
    <3>. QED  BY <1>2, <3>2
  <2>3. ASSUME Finish(y) \/ StreamError(y) \/ ObserveCancel(y) PROVE Goal
    BY <1>2, <2>3 DEF Finish, StreamError, ObserveCancel, EndStream
  <2>4. CASE RecordToken(y)  BY <1>1, <2>4 DEF RecordToken, Rec
  <2>5. ASSUME Subscribe(y) \/ RefreshCheck(y) \/ RefreshUpsert(y) \/ RefreshUpsertFails(y) PROVE Goal
    <3>1. UNCHANGED rec  BY <2>5 DEF Subscribe, RefreshCheck, RefreshUpsert, RefreshUpsertFails
    <3>. QED  BY <1>1, <3>1
  <2>. QED  BY <1>3, <2>1, <2>2, <2>3, <2>4, <2>5 DEF StreamStep
<1>4. ASSUME NEW k \in Cancellers, CancelStep(k) PROVE Goal
  <2>1. CASE CancelClose(k)
    <3>1. rec' = [rec EXCEPT ![canceller[k].rec].cancelled = TRUE]  BY <2>1 DEF CancelClose
    <3>. QED  BY <1>1, <3>1 DEF Rec
  <2>2. CASE UNCHANGED rec  BY <1>1, <2>2
  <2>. QED  BY <1>4, <2>1, <2>2 DEF CancelStep, CancelLookup, CancelSelect, CancelReturns
<1>5. CASE Environment
  <2>1. CASE UNCHANGED rec  BY <1>1, <2>1
  <2>2. ASSUME NEW i \in Instances, Restart(i) PROVE Goal  BY <1>2, <2>2 DEF Restart
  <2>. QED  BY <1>5, <2>1, <2>2 DEF Environment, RetentionPasses, LocatorExpires, CheckRecordings
<1>6. CASE UNCHANGED vars  BY <1>1, <1>6 DEF vars
<1>. QED  BY <1>3, <1>4, <1>5, <1>6 DEF Next

(* A read that is cut off was full: what it leaves out lies behind it.      *)
LEMMA ReadExtends ==
  ASSUME NEW seen, NEW o \in Nat, NEW size \in 0..MaxTokens, o <= size, Behind(seen, o)
  PROVE  Behind(seen \cup {t \in Tokens : o < t /\ t <= size /\ t <= o + ReadCap}, size)
<1>. DEFINE new == seen \cup {t \in Tokens : o < t /\ t <= size /\ t <= o + ReadCap}
<1>. SUFFICES ASSUME NEW t \in (1..size) \ new
              PROVE  \E b \in 0..size : b + ReadCap < t /\ (b + 1)..(b + ReadCap) \subseteq new
  BY DEF Behind
<1>1. CASE t <= o
  <2>1. PICK b \in 0..o : b + ReadCap < t /\ (b + 1)..(b + ReadCap) \subseteq seen
    BY <1>1 DEF Behind
  <2>2. b \in 0..size /\ (b + 1)..(b + ReadCap) \subseteq new  BY <2>1
  <2>. QED  BY <2>1, <2>2
<1>2. CASE t > o
  <2>1. t > o + ReadCap  BY <1>2 DEF Tokens
  <2>2. (o + 1)..(o + ReadCap) \subseteq new
    <3>. SUFFICES ASSUME NEW u \in (o + 1)..(o + ReadCap) PROVE u \in new
      OBVIOUS
    <3>1. u \in Tokens /\ o < u /\ u <= size /\ u <= o + ReadCap  BY <2>1 DEF Tokens
    <3>. QED  BY <3>1
  <2>. QED  BY <2>1, <2>2
<1>3. t <= o \/ t > o  OBVIOUS
<1>. QED  BY <1>1, <1>2, <1>3, Zenon

LEMMA ReadKeeps ==
  ASSUME ReplayInv, NEW q \in Readers, ReplayStep(q)
  PROVE  ReplayOK(q)'
<1>1. /\ rec \in [Recs -> Rec] /\ reader \in [Readers -> Reader] /\ reader[q] \in Reader
      /\ reader[q].pc \in {"open", "reading", "done", "failed"} => reader[q].rec \in Recs
  BY Types DEF ReplayInv, ResumerInv
<1>2. ReaderOK(q) /\ ReplayOK(q)  BY DEF ReplayInv, ResumerInv
<1>3. UNCHANGED rec  BY ReplayKeeps DEF ReplayInv
<1>4. CASE ReplayRead(q)
  <2>. DEFINE x == reader[q].rec
              size == rec[x].size
              o == reader[q].offset
              new == reader[q].seen \cup {t \in Tokens : o < t /\ t <= size /\ t <= o + ReadCap}
  <2>1. reader[q].pc = "reading" /\ x \in Recs /\ size \in 0..MaxTokens /\ o \in 0..MaxTokens
        /\ o <= size /\ Behind(reader[q].seen, o)
    BY <1>1, <1>2, <1>4 DEF ReplayRead, ReplayOK, Rec, Reader
  <2>2. Behind(new, size)
    <3>1. o \in Nat  BY <2>1
    <3>. QED  BY <2>1, <3>1, ReadExtends
  <2>3. CASE size > o /\ reader' = [reader EXCEPT ![q].offset = size, ![q].seen = new]
    <3>. HIDE DEF new
    <3>1. reader'[q].pc = "reading" /\ reader'[q].rec = x /\ reader'[q].offset = size /\ reader'[q].seen = new
      BY <1>1, <2>1, <2>3 DEF Reader
    <3>. QED  BY <1>3, <2>1, <2>2, <3>1 DEF ReplayOK, Behind
  <2>4. CASE size <= o /\ rec[x].complete /\ reader' = [reader EXCEPT ![q].pc = "done"]
    <3>1. /\ reader'[q].pc = "done" /\ reader'[q].rec = x
          /\ reader'[q].offset = o /\ reader'[q].seen = reader[q].seen
      BY <1>1, <2>1, <2>4 DEF Reader
    <3>2. o = size  BY <2>1, <2>4
    <3>. QED  BY <1>3, <2>1, <2>4, <3>1, <3>2 DEF ReplayOK, Behind
  <2>5. \/ size > o /\ reader' = [reader EXCEPT ![q].offset = size, ![q].seen = new]
        \/ size <= o /\ rec[x].complete /\ reader' = [reader EXCEPT ![q].pc = "done"]
    BY <1>4, Zenon DEF ReplayRead
  <2>. QED  BY <2>3, <2>4, <2>5
<1>5. CASE ReplayReadFails(q)
  <2>1. /\ reader[q].pc = "reading" /\ reader'[q].pc = "failed" /\ reader'[q].rec = reader[q].rec
        /\ reader'[q].offset = reader[q].offset /\ reader'[q].seen = reader[q].seen
    BY <1>1, <1>5 DEF ReplayReadFails, Reader
  <2>. QED  BY <1>2, <1>3, <2>1 DEF ReplayOK, Behind
<1>6. CASE ReplayOpen(q)
  <2>1. reader[q].pc = "open" /\ reader[q].rec \in Recs /\ reader[q].seen = {} /\ reader[q].offset = 0
    BY <1>1, <1>2, <1>6 DEF ReplayOpen, ReaderOK
  <2>2. rec[reader[q].rec].size \in Nat  BY <1>1, <2>1 DEF Rec
  <2>3. \/ reader'[q] = IdleReader
        \/ /\ reader'[q].pc = "reading" /\ reader'[q].rec = reader[q].rec
           /\ reader'[q].seen = {} /\ reader'[q].offset = 0
    BY <1>1, <1>6, <2>1 DEF ReplayOpen, Reader
  <2>4. CASE reader'[q] = IdleReader  BY <2>4 DEF ReplayOK, IdleReader
  <2>5. CASE reader'[q] # IdleReader
    <3>1. /\ reader'[q].pc = "reading" /\ reader'[q].rec = reader[q].rec
          /\ reader'[q].seen = {} /\ reader'[q].offset = 0
      BY <2>3, <2>5
    <3>2. 0 <= rec'[reader'[q].rec].size  BY <1>3, <2>2, <3>1
    <3>3. Behind(reader'[q].seen, reader'[q].offset)  BY <3>1 DEF Behind
    <3>. QED  BY <3>1, <3>2, <3>3 DEF ReplayOK, Behind
  <2>. QED  BY <2>4, <2>5
<1>7. CASE ~ReplayRead(q) /\ ~ReplayReadFails(q) /\ ~ReplayOpen(q)
  <2>1. reader'[q].pc \in {"idle", "ask", "lookup", "open"}
    <3>1. ASSUME NEW i \in Instances, NEW c \in Convs, ReplayBegin(q, i, c) PROVE reader'[q].pc = "ask"
      BY <1>1, <3>1 DEF ReplayBegin, IdleReader
    <3>2. CASE ReplayLocate(q)
      BY <1>1, <3>2 DEF ReplayLocate, IdleReader, Reader
    <3>3. CASE ReplayLookup(q)
      BY <1>1, <3>3 DEF ReplayLookup, IdleReader, Reader
    <3>4. CASE ReplayEnds(q)  BY <1>1, <3>4 DEF ReplayEnds, IdleReader
    <3>. QED  BY <1>7, <3>1, <3>2, <3>3, <3>4 DEF ReplayStep
  <2>. QED  BY <2>1 DEF ReplayOK
<1>. QED  BY <1>4, <1>5, <1>6, <1>7

(* Whatever the read cap and however long a recording, what a replay loses  *)
(* lies behind a full read, and the worker finds the end only at the end of  *)
(* a complete recording, however tokens, completions, sweeps, restarts and   *)
(* read errors interleave with it (replayFromFile, readRange).               *)
THEOREM ReplaysLoseOnlyPastReadCap == Spec => []LossOnlyPastReadCap
<1>1. Init => ReplayInv
  <2>1. Init => \A q \in Readers : ReplayOK(q)  BY DEF Init, ReplayOK, IdleReader
  <2>. QED  BY <2>1, InitInv DEF ReplayInv
<1>2. ReplayInv /\ [Next]_vars => ReplayInv'
  <2>. SUFFICES ASSUME ReplayInv, [Next]_vars, NEW q \in Readers PROVE ReplayOK(q)'
    BY NextInv DEF ReplayInv
  <2>1. ResumerInv /\ ReplayOK(q)  BY DEF ReplayInv
  <2>2. reader[q].pc \in {"reading", "done", "failed"} => reader[q].rec \in Recs /\ stream[reader[q].rec].pc # "new"
    BY <2>1, Types DEF ResumerInv, ReaderOK
  <2>3. CASE ReplayStep(q)  BY <2>3, ReadKeeps
  <2>4. ASSUME NEW p \in Readers, ReplayStep(p), p # q PROVE ReplayOK(q)'
    <3>1. UNCHANGED rec /\ reader'[q] = reader[q]  BY <2>1, <2>4, ReplayKeeps
    <3>. QED  BY <2>1, <3>1 DEF ReplayOK, Behind
  <2>5. CASE \A p \in Readers : ~ReplayStep(p)
    <3>1. reader'[q] = reader[q] \/ reader'[q] = IdleReader
      <4>1. ASSUME NEW i \in Instances, Restart(i) PROVE reader'[q] = reader[q] \/ reader'[q] = IdleReader
        BY <4>1 DEF Restart
      <4>2. CASE UNCHANGED reader  BY <4>2
      <4>3. ASSUME NEW x \in Recs, StreamStep(x) PROVE UNCHANGED reader
        BY <4>3 DEF StreamStep, StartRecording, StartRecordingFails, Subscribe, RecordToken, Finish,
                    StreamError, ObserveCancel, EndStream, RefreshCheck, RefreshUpsert, RefreshUpsertFails
      <4>4. ASSUME NEW k \in Cancellers, CancelStep(k) PROVE UNCHANGED reader
        BY <4>4 DEF CancelStep, CancelLookup, CancelSelect, CancelClose, CancelReturns
      <4>5. CASE Environment
        BY <4>1, <4>2, <4>5 DEF Environment, RetentionPasses, LocatorExpires, CheckRecordings
      <4>. QED  BY <2>5, <4>2, <4>3, <4>4, <4>5 DEF Next, vars
    <3>2. CASE reader'[q] = IdleReader  BY <3>2 DEF ReplayOK, IdleReader
    <3>3. CASE reader'[q] = reader[q] /\ reader[q].pc \in {"reading", "done", "failed"}
      <4>. DEFINE x == reader[q].rec
      <4>1. x \in Recs /\ stream[x].pc # "new"  BY <2>2, <3>3
      <4>2. /\ rec'[x].size >= rec[x].size
            /\ rec[x].complete => rec'[x].complete /\ rec'[x].size = rec[x].size
        BY <2>1, <2>5, <4>1, FilesGrow
      <4>3. rec[x].size \in Nat /\ rec'[x].size \in Nat /\ reader[q].offset \in Nat
        <5>1. TypeOK /\ TypeOK'  BY <2>1, NextInv DEF ResumerInv
        <5>. QED  BY <4>1, <5>1 DEF TypeOK
      <4>. QED  BY <2>1, <3>3, <4>2, <4>3 DEF ReplayOK, Behind
    <3>4. CASE reader'[q] = reader[q] /\ reader[q].pc \notin {"reading", "done", "failed"}  BY <3>4 DEF ReplayOK
    <3>. QED  BY <3>1, <3>2, <3>3, <3>4
  <2>. QED  BY <2>3, <2>4, <2>5
<1>3. ReplayInv => LossOnlyPastReadCap  BY DEF ReplayInv, ReplayOK, Behind, LossOnlyPastReadCap
<1>. QED  BY <1>1, <1>2, <1>3, PTL DEF Spec
=============================================================================
