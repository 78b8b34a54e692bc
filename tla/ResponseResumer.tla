-------------------------- MODULE ResponseResumer --------------------------
(***************************************************************************)
(* Response recording and resumption (resumer/temp_file_store.go,          *)
(* resumer/locator_store.go and the ResponseRecorder handlers of           *)
(* grpc/server.go).  A Record stream writes tokens to a temp file of the   *)
(* instance that received it; a locator entry shared by the instances says *)
(* which instance that is; Replay reads the file while it grows, after a   *)
(* redirect if need be; Cancel closes the recording's cancel channel.      *)
(*                                                                         *)
(* A recording and the Record stream that created it are one element of    *)
(* Recs.  RecorderWithAddress and complete run under the store's mutex and *)
(* are one step; the refresh goroutine, the handler's CancelStream call    *)
(* and the replay worker run outside it and are steps of their own.        *)
(***************************************************************************)
EXTENDS Naturals

CONSTANTS Instances, Convs,
          Recs,       \* recordings, one per Record stream
          Readers,    \* Replay calls with the client's redirect handling
          Cancellers, \* Cancel calls
          MaxTokens,  \* bound: tokens of one recording
          ReadCap,    \* most tokens one readRange returns (1 MiB)
          MaxHops,    \* redirects a client follows
          None

ASSUME SizesAssumption == MaxTokens \in Nat /\ ReadCap \in Nat \ {0} /\ MaxHops \in Nat
ASSUME NoneAssumption == None \notin Recs \cup Instances \cup Convs

VARIABLES
    rec,        \* the recordings
    stream,     \* the Record handlers
    refresh,    \* the locator refresh goroutines
    recordings, \* per instance and conversation, the store's map
    locator,    \* per conversation, the instance in the shared locator store
    files,      \* recordings whose temp file is on disk
    aged,       \* completed recordings older than the retention
    reader,     \* Replay calls
    canceller   \* Cancel calls

vars == <<rec, stream, refresh, recordings, locator, files, aged, reader, canceller>>

Tokens == 1..MaxTokens

NewRec == [inst |-> None, conv |-> None, size |-> 0, complete |-> FALSE, cancelled |-> FALSE]
NewStream == [pc |-> "new", watches |-> None, status |-> "none"]
IdleCanceller == [pc |-> "idle", rec |-> None]
IdleReader == [pc |-> "idle", inst |-> None, conv |-> None, rec |-> None,
               offset |-> 0, seen |-> {}, hops |-> 0]

(* Every variable has its shape; a call past its lookup holds a recording. *)
TypeOK ==
    /\ rec \in [Recs -> [inst : Instances \cup {None}, conv : Convs \cup {None},
                         size : 0..MaxTokens, complete : BOOLEAN, cancelled : BOOLEAN]]
    /\ stream \in [Recs -> [pc : {"new", "created", "open", "ended"},
                            watches : Recs \cup {None},
                            status : {"none", "SUCCESS", "CANCELLED", "ERROR"}]]
    /\ refresh \in [Recs -> {"off", "wait", "armed"}]
    /\ recordings \in [Instances -> [Convs -> Recs \cup {None}]]
    /\ locator \in [Convs -> Instances \cup {None}]
    /\ files \subseteq Recs /\ aged \subseteq Recs
    /\ canceller \in [Cancellers -> [pc : {"idle", "found", "closing", "accepted", "failed"},
                                     rec : Recs \cup {None}]]
    /\ reader \in [Readers -> [pc : {"idle", "ask", "lookup", "open", "reading", "done", "failed"},
                               inst : Instances \cup {None}, conv : Convs \cup {None},
                               rec : Recs \cup {None}, offset : 0..MaxTokens,
                               seen : SUBSET Tokens, hops : 0..MaxHops]]
    /\ \A q \in Readers :
         reader[q].pc \in {"open", "reading", "done", "failed"} => reader[q].rec \in Recs
    /\ \A k \in Cancellers : canceller[k].pc \in {"found", "closing"} => canceller[k].rec \in Recs

Init ==
    /\ rec = [x \in Recs |-> NewRec]
    /\ stream = [x \in Recs |-> NewStream]
    /\ refresh = [x \in Recs |-> "off"]
    /\ recordings = [i \in Instances |-> [c \in Convs |-> None]]
    /\ locator = [c \in Convs |-> None]
    /\ files = {} /\ aged = {}
    /\ reader = [q \in Readers |-> IdleReader]
    /\ canceller = [k \in Cancellers |-> IdleCanceller]

(* A recording that has started and is not complete. *)
InProgress(x) == stream[x].pc # "new" /\ ~rec[x].complete

-----------------------------------------------------------------------------
(* completeLocked of the recordings in S: marked complete, the refresh      *)
(* goroutine told to stop (an Upsert it already decided on still happens).   *)
WithCompleted(S) == [y \in Recs |-> IF y \in S THEN [rec[y] EXCEPT !.complete = TRUE] ELSE rec[y]]
WithStopped(S) == [y \in Recs |-> IF y \in S /\ refresh[y] # "armed" THEN "off" ELSE refresh[y]]

(* ... and the conversation's locator removed, whoever it points to; the     *)
(* removal may fail.                                                         *)
LocatorRemoved(c, removed) == IF removed THEN [locator EXCEPT ![c] = None] ELSE locator

(* cleanupExpiredLocked on instance i: completed recordings past retention  *)
(* leave the map and their files the disk.                                  *)
SweptMap(i) == [recordings EXCEPT ![i] =
                  [c \in Convs |-> IF recordings[i][c] \in aged THEN None ELSE recordings[i][c]]]
SweptFiles(i) == files \ {recordings[i][c] : c \in {d \in Convs : recordings[i][d] \in aged}}

-----------------------------------------------------------------------------
(* Record. *)

(* Mutant: the recording it replaces is left running. *)
StartRecording_KeepOld(x, i, c) ==
    /\ stream[x].pc = "new"
    /\ rec' = [rec EXCEPT ![x] = [NewRec EXCEPT !.inst = i, !.conv = c]]
    /\ refresh' = [refresh EXCEPT ![x] = "wait"]
    /\ recordings' = [SweptMap(i) EXCEPT ![i][c] = x]
    /\ locator' = [locator EXCEPT ![c] = i]
    /\ files' = SweptFiles(i) \cup {x}
    /\ stream' = [stream EXCEPT ![x].pc = "created"]
    /\ UNCHANGED <<aged, reader, canceller>>

(* RecorderWithAddress: sweep, complete the recording it replaces, create   *)
(* the file, publish the locator.                                           *)
StartRecording(x, i, c) ==
    LET old == SweptMap(i)[i][c] IN
    /\ stream[x].pc = "new"
    /\ rec' = [WithCompleted({old}) EXCEPT ![x] = [NewRec EXCEPT !.inst = i, !.conv = c]]
    /\ refresh' = [WithStopped({old}) EXCEPT ![x] = "wait"]
    /\ recordings' = [SweptMap(i) EXCEPT ![i][c] = x]
    /\ locator' = [locator EXCEPT ![c] = i]
    /\ files' = SweptFiles(i) \cup {x}
    /\ stream' = [stream EXCEPT ![x].pc = "created"]
    /\ UNCHANGED <<aged, reader, canceller>>

(* It fails after completing the recording it was to replace: the file was  *)
(* not created and the map keeps the old entry, or the locator Upsert failed *)
(* (applied or not) and the map entry is deleted with the new recording.     *)
StartRecordingFails(x, i, c) ==
    LET old == SweptMap(i)[i][c]
        removable == old # None /\ ~rec[old].complete
    IN
    /\ stream[x].pc = "new"
    /\ stream' = [stream EXCEPT ![x].pc = "ended", ![x].status = "ERROR"]
    /\ rec' = [WithCompleted({old}) EXCEPT ![x].complete = TRUE]
    /\ refresh' = WithStopped({old})
    /\ \E removed \in BOOLEAN :
         /\ removed => removable
         /\ \/ recordings' = SweptMap(i) /\ locator' = LocatorRemoved(c, removed)
            \/ /\ recordings' = [SweptMap(i) EXCEPT ![i][c] = None]
               /\ locator' \in {LocatorRemoved(c, removed), [locator EXCEPT ![c] = i]}
    /\ files' = SweptFiles(i)
    /\ UNCHANGED <<aged, reader, canceller>>

(* The handler asks for the cancel channel of whatever recording the map    *)
(* holds by now; without one it gets a channel that is already closed.      *)
Subscribe(x) ==
    /\ stream[x].pc = "created"
    /\ stream' = [stream EXCEPT ![x].pc = "open",
                                ![x].watches = recordings[rec[x].inst][rec[x].conv]]
    /\ UNCHANGED <<rec, refresh, recordings, locator, files, aged, reader, canceller>>

(* A token is appended, unless the recording was completed meanwhile. *)
RecordToken(x) ==
    /\ stream[x].pc = "open"
    /\ ~rec[x].complete /\ rec[x].size < MaxTokens
    /\ rec' = [rec EXCEPT ![x].size = @ + 1]
    /\ UNCHANGED <<stream, refresh, recordings, locator, files, aged, reader, canceller>>

(* Recorder.Complete at the end of a stream: nothing for a recording its     *)
(* successor completed; else the locator goes.  When that or closing the     *)
(* file fails the handler reports an error, the recording being complete.    *)
EndStream(x, status) ==
    /\ stream[x].pc = "open"
    /\ \E removed, closed \in BOOLEAN :
         /\ rec[x].complete => ~removed /\ closed
         /\ locator' = LocatorRemoved(rec[x].conv, removed)
         /\ stream' = [stream EXCEPT ![x].pc = "ended",
              ![x].status = IF rec[x].complete \/ (removed /\ closed) THEN status ELSE "ERROR"]
    /\ rec' = WithCompleted({x})
    /\ refresh' = WithStopped({x})
    /\ UNCHANGED <<recordings, files, aged, reader, canceller>>

Finish(x) == EndStream(x, "SUCCESS")

StreamError(x) == EndStream(x, "ERROR")

(* Mutant: the handler answers CANCELLED without completing the recorder. *)
ObserveCancel_NoComplete(x) ==
    /\ stream[x].watches # None => rec[stream[x].watches].cancelled
    /\ stream[x].pc = "open"
    /\ stream' = [stream EXCEPT ![x].pc = "ended", ![x].status = "CANCELLED"]
    /\ UNCHANGED <<rec, refresh, recordings, locator, files, aged, reader, canceller>>

(* The watched channel is closed. *)
ObserveCancel(x) ==
    /\ stream[x].watches # None => rec[stream[x].watches].cancelled
    /\ EndStream(x, "CANCELLED")

-----------------------------------------------------------------------------
(* The locator. *)

(* The refresh goroutine checks for completion under the recording's mutex  *)
(* and upserts after releasing it.                                          *)
RefreshCheck(x) ==
    /\ refresh[x] = "wait" /\ ~rec[x].complete
    /\ refresh' = [refresh EXCEPT ![x] = "armed"]
    /\ UNCHANGED <<rec, stream, recordings, locator, files, aged, reader, canceller>>

(* Mutant: the goroutine publishes once more and ends. *)
RefreshUpsert_Once(x) ==
    /\ refresh[x] = "armed"
    /\ refresh' = [refresh EXCEPT ![x] = "off"]
    /\ locator' = [locator EXCEPT ![rec[x].conv] = rec[x].inst]
    /\ UNCHANGED <<rec, stream, recordings, files, aged, reader, canceller>>

RefreshUpsert(x) ==
    /\ refresh[x] = "armed"
    /\ refresh' = [refresh EXCEPT ![x] = IF rec[x].complete THEN "off" ELSE "wait"]
    /\ locator' = [locator EXCEPT ![rec[x].conv] = rec[x].inst]
    /\ UNCHANGED <<rec, stream, recordings, files, aged, reader, canceller>>

(* Its errors are ignored. *)
RefreshUpsertFails(x) ==
    /\ refresh[x] = "armed"
    /\ refresh' = [refresh EXCEPT ![x] = IF rec[x].complete THEN "off" ELSE "wait"]
    /\ UNCHANGED <<rec, stream, recordings, locator, files, aged, reader, canceller>>

(* An entry lives for two refresh intervals, so late or failed refreshes     *)
(* let it run out as well as a dead owner does.                              *)
LocatorExpires(c) ==
    /\ locator[c] # None
    /\ locator' = [locator EXCEPT ![c] = None]
    /\ UNCHANGED <<rec, stream, refresh, recordings, files, aged, reader, canceller>>

-----------------------------------------------------------------------------
(* Cancel: the handler passes no address, so the locator is not consulted;  *)
(* without a recording here the call is accepted at once.                   *)
CancelLookup(k, i, c) ==
    LET x == recordings[i][c] IN
    /\ canceller[k].pc = "idle"
    /\ canceller' = [canceller EXCEPT ![k] =
         IF x = None THEN [@ EXCEPT !.pc = "accepted"] ELSE [pc |-> "found", rec |-> x]]
    /\ UNCHANGED <<rec, stream, refresh, recordings, locator, files, aged, reader>>

(* select: is the cancel channel closed already?  No lock is held from here  *)
(* to the close.                                                             *)
CancelSelect(k) ==
    /\ canceller[k].pc = "found"
    /\ canceller' = [canceller EXCEPT ![k].pc =
                        IF rec[canceller[k].rec].cancelled THEN "accepted" ELSE "closing"]
    /\ UNCHANGED <<rec, stream, refresh, recordings, locator, files, aged, reader>>

(* close panics on a closed channel; the interceptor answers Internal. *)
CancelClose(k) ==
    LET x == canceller[k].rec IN
    /\ canceller[k].pc = "closing"
    /\ canceller' = [canceller EXCEPT ![k].pc = IF rec[x].cancelled THEN "failed" ELSE "accepted"]
    /\ rec' = [rec EXCEPT ![x].cancelled = TRUE]
    /\ UNCHANGED <<stream, refresh, recordings, locator, files, aged, reader>>

CancelReturns(k) ==
    /\ canceller[k].pc \in {"accepted", "failed"}
    /\ canceller' = [canceller EXCEPT ![k] = IdleCanceller]
    /\ UNCHANGED <<rec, stream, refresh, recordings, locator, files, aged, reader>>

-----------------------------------------------------------------------------
(* Retention. *)

RetentionPasses(x) ==
    /\ rec[x].complete /\ x \in files \ aged
    /\ aged' = aged \cup {x}
    /\ UNCHANGED <<rec, stream, refresh, recordings, locator, files, reader, canceller>>

(* HasResponseInProgress (CheckRecordings) sweeps before it looks. *)
CheckRecordings(i) ==
    /\ recordings' = SweptMap(i)
    /\ files' = SweptFiles(i)
    /\ UNCHANGED <<rec, stream, refresh, locator, aged, reader, canceller>>

(* The instance dies and starts again: its recordings end where they are,   *)
(* its map is empty, and cleanupStaleTempFiles removes only old files.      *)
Restart(i) ==
    /\ LET mine == {x \in Recs : rec[x].inst = i} IN
       /\ rec' = WithCompleted(mine)
       /\ stream' = [x \in Recs |->
                       IF x \in mine /\ stream[x].pc # "ended"
                         THEN [stream[x] EXCEPT !.pc = "ended", !.status = "ERROR"] ELSE stream[x]]
       /\ refresh' = [x \in Recs |-> IF x \in mine THEN "off" ELSE refresh[x]]
       /\ files' = files \ (mine \cap aged)
    /\ recordings' = [recordings EXCEPT ![i] = [c \in Convs |-> None]]
    /\ reader' = [q \in Readers |-> IF reader[q].inst = i THEN IdleReader ELSE reader[q]]
    /\ canceller' = [k \in Cancellers |->
                       IF canceller[k].rec # None /\ rec[canceller[k].rec].inst = i
                         THEN IdleCanceller ELSE canceller[k]]
    /\ UNCHANGED <<locator, aged>>

-----------------------------------------------------------------------------
(* Replay. *)

ReplayBegin(q, i, c) ==
    /\ reader[q].pc = "idle"
    /\ reader' = [reader EXCEPT ![q] = [IdleReader EXCEPT !.pc = "ask", !.inst = i, !.conv = c]]
    /\ UNCHANGED <<rec, stream, refresh, recordings, locator, files, aged, canceller>>

(* A locator that names another instance redirects the client there. *)
ReplayLocate(q) ==
    LET home == locator[reader[q].conv] IN
    /\ reader[q].pc = "ask"
    /\ reader' = [reader EXCEPT ![q] =
         IF home \in {None, @.inst} THEN [@ EXCEPT !.pc = "lookup"]
         ELSE IF @.hops < MaxHops THEN [@ EXCEPT !.inst = home, !.hops = reader[q].hops + 1]
         ELSE IdleReader]
    /\ UNCHANGED <<rec, stream, refresh, recordings, locator, files, aged, canceller>>

(* Mutant: the missing recording is not noticed. *)
ReplayLookup_NoCheck(q) ==
    LET x == SweptMap(reader[q].inst)[reader[q].inst][reader[q].conv] IN
    /\ reader[q].pc = "lookup"
    /\ recordings' = SweptMap(reader[q].inst)
    /\ files' = SweptFiles(reader[q].inst)
    /\ reader' = [reader EXCEPT ![q].pc = "open", ![q].rec = x]
    /\ UNCHANGED <<rec, stream, refresh, locator, aged, canceller>>

(* Sweep, then the map; no recording is an empty replay. *)
ReplayLookup(q) ==
    LET x == SweptMap(reader[q].inst)[reader[q].inst][reader[q].conv] IN
    /\ reader[q].pc = "lookup"
    /\ recordings' = SweptMap(reader[q].inst)
    /\ files' = SweptFiles(reader[q].inst)
    /\ reader' = [reader EXCEPT ![q] =
         IF x = None THEN IdleReader ELSE [@ EXCEPT !.pc = "open", !.rec = x]]
    /\ UNCHANGED <<rec, stream, refresh, locator, aged, canceller>>

(* The worker opens the file; one swept meanwhile is an empty replay too.    *)
ReplayOpen(q) ==
    /\ reader[q].pc = "open"
    /\ reader' = [reader EXCEPT ![q] =
         IF @.rec \in files THEN [@ EXCEPT !.pc = "reading"] ELSE IdleReader]
    /\ UNCHANGED <<rec, stream, refresh, recordings, locator, files, aged, canceller>>

(* Mutant: completion is looked at before what is left to read. *)
ReplayRead_DoneFirst(q) ==
    LET size == rec[reader[q].rec].size
        o == reader[q].offset
    IN
    /\ reader[q].pc = "reading"
    /\ \/ /\ size > o
          /\ reader' = [reader EXCEPT ![q].offset = size,
                           ![q].seen = @ \cup {t \in Tokens : o < t /\ t <= size /\ t <= o + ReadCap}]
       \/ /\ rec[reader[q].rec].complete
          /\ reader' = [reader EXCEPT ![q].pc = "done"]
    /\ UNCHANGED <<rec, stream, refresh, recordings, locator, files, aged, canceller>>

(* replayFromFile reads size and complete together, then a range capped at   *)
(* ReadCap from its offset, and continues at size.                           *)
ReplayRead(q) ==
    LET size == rec[reader[q].rec].size
        o == reader[q].offset
    IN
    /\ reader[q].pc = "reading"
    /\ \/ /\ size > o
          /\ reader' = [reader EXCEPT ![q].offset = size,
                           ![q].seen = @ \cup {t \in Tokens : o < t /\ t <= size /\ t <= o + ReadCap}]
       \/ /\ size <= o /\ rec[reader[q].rec].complete
          /\ reader' = [reader EXCEPT ![q].pc = "done"]
    /\ UNCHANGED <<rec, stream, refresh, recordings, locator, files, aged, canceller>>

(* readRange fails: the worker returns and the replay ends as a finished one  *)
(* does, without an error.                                                   *)
ReplayReadFails(q) ==
    /\ reader[q].pc = "reading"
    /\ rec[reader[q].rec].size > reader[q].offset
    /\ reader' = [reader EXCEPT ![q].pc = "failed"]
    /\ UNCHANGED <<rec, stream, refresh, recordings, locator, files, aged, canceller>>

(* The stream is over, or the client leaves before its end. *)
ReplayEnds(q) ==
    /\ reader[q].pc # "idle"
    /\ reader' = [reader EXCEPT ![q] = IdleReader]
    /\ UNCHANGED <<rec, stream, refresh, recordings, locator, files, aged, canceller>>

-----------------------------------------------------------------------------
StreamStep(x) ==
    \/ \E i \in Instances, c \in Convs : StartRecording(x, i, c) \/ StartRecordingFails(x, i, c)
    \/ Subscribe(x) \/ RecordToken(x)
    \/ Finish(x) \/ StreamError(x) \/ ObserveCancel(x)
    \/ RefreshCheck(x) \/ RefreshUpsert(x) \/ RefreshUpsertFails(x)

CancelStep(k) ==
    \/ \E i \in Instances, c \in Convs : CancelLookup(k, i, c)
    \/ CancelSelect(k) \/ CancelClose(k) \/ CancelReturns(k)

ReplayStep(q) ==
    \/ \E i \in Instances, c \in Convs : ReplayBegin(q, i, c)
    \/ ReplayLocate(q) \/ ReplayLookup(q) \/ ReplayOpen(q)
    \/ ReplayRead(q) \/ ReplayReadFails(q) \/ ReplayEnds(q)

Environment ==
    \/ \E x \in Recs : RetentionPasses(x)
    \/ \E c \in Convs : LocatorExpires(c)
    \/ \E i \in Instances : CheckRecordings(i) \/ Restart(i)

Next ==
    \/ \E x \in Recs : StreamStep(x)
    \/ \E k \in Cancellers : CancelStep(k)
    \/ \E q \in Readers : ReplayStep(q)
    \/ Environment

Spec == Init /\ [][Next]_vars

(* Goroutines run; a closed cancel channel is selected in the end; the       *)
(* refresh ticker ticks and not every Upsert fails.  Nothing obliges an      *)
(* agent to send or finish.                                                  *)
Fairness ==
    /\ \A x \in Recs : /\ WF_vars(Subscribe(x)) /\ WF_vars(ObserveCancel(x))
                       /\ WF_vars(RefreshCheck(x)) /\ SF_vars(RefreshUpsert(x))
    /\ \A k \in Cancellers : WF_vars(CancelSelect(k)) /\ WF_vars(CancelClose(k))

FairSpec == Spec /\ Fairness

-----------------------------------------------------------------------------
(* Correctness. *)

(* However the file grows while it is read, a token a replay passed over lies *)
(* behind a full read of ReadCap tokens: a recording no longer than one read  *)
(* is replayed whole.  The worker finds the end of a replay only at the end   *)
(* of a complete recording (replayFromFile, readRange).                       *)
LossOnlyPastReadCap ==
    \A q \in Readers :
        LET r == reader[q] IN
        /\ r.pc \in {"reading", "done", "failed"} =>
             \A t \in (1..r.offset) \ r.seen :
                 \E o \in 0..r.offset : o + ReadCap < t /\ (o + 1)..(o + ReadCap) \subseteq r.seen
        /\ r.pc = "done" => rec[r.rec].complete /\ r.offset = rec[r.rec].size

(* A recording in progress is the one its instance's map holds, so Replay,  *)
(* Cancel and CheckRecordings reach it; two Record streams of one           *)
(* conversation never both stay in progress on an instance (the store's     *)
(* recordings map in RecorderWithAddress and cleanupExpiredLocked).         *)
OneActiveRecording ==
    \A x \in Recs : InProgress(x) => recordings[rec[x].inst][rec[x].conv] = x

(* Once its cancel channel is closed a recording completes, even when the   *)
(* Cancel came between RecorderWithAddress and CancelStream.                *)
CancelCompletes == \A x \in Recs : rec[x].cancelled ~> rec[x].complete

(* While one recording of a conversation stays the only one in progress the *)
(* locator names its instance again and again, whatever late Upserts and    *)
(* Removes of earlier recordings did to it (startLocatorRefresh).           *)
StableOwnerIsLocated ==
    \A x \in Recs :
        <>[](\A y \in Recs : rec[y].conv = rec[x].conv => (InProgress(y) <=> y = x))
            => []<>(\E c \in Convs : rec[x].conv = c /\ locator[c] = rec[x].inst)

=============================================================================
