---------------------------- MODULE EventStream ----------------------------
(***************************************************************************)
(* A durable event stream: SubscribeEvents of the gRPC server in admin     *)
(* scope, the subscriber channel of the local event bus, the replay of the *)
(* outbox, and a client that stores the cursor of what it has processed    *)
(* and resumes after it.  The outbox is OutboxLog, which OutboxRelay       *)
(* implements, and retention takes rows out of it; an event's cursor is    *)
(* its position in commit order, so no two events share one.               *)
(*                                                                         *)
(* One stream on one node with the local bus.  Filters are left out: every *)
(* event matches.                                                          *)
(***************************************************************************)
EXTENDS OutboxLog, Sequences, FiniteSets

CONSTANTS MaxEvents,       \* bound: events in all
          MaxRepeats,      \* bound: announcements the relay repeats
          MaxDrops,        \* bound: streams that end for a reason of their own
          BufferSize,      \* SSESubscriberBufferSize
          PageSize,        \* replayBatchSize
          None

ASSUME StreamAssumption ==
    /\ {MaxEvents, MaxRepeats, MaxDrops} \subseteq Nat
    /\ {BufferSize, PageSize} \subseteq Nat \ {0}
    /\ None \notin Nat

VARIABLES
    evicted,  \* events whose row is deleted
    repeats, drops,
    sub,      \* the subscriber's channel: its buffer and whether it is open
    stream,   \* the handler
    client    \* what the client has stored

vars == <<logVars, evicted, repeats, drops, sub, stream, client>>
outbox == <<logVars, evicted, repeats>>

Events == 1..MaxEvents    \* cursor 0 is "start"

Rows == (1..stored) \ evicted

NoSub == [buf |-> << >>, open |-> FALSE]
Off == [pc |-> "off",
        current |-> FALSE,            \* initialStatePending
        resume |-> None,              \* resumeCursor
        cursor |-> None,              \* the last row listed and handled
        page |-> {}, more |-> FALSE,  \* what is left of the page; HasMore
        seen |-> {},                  \* the events replayed
        last |-> None]                \* lastCursor

Init ==
    /\ LogInit
    /\ evicted = {} /\ repeats = 0 /\ drops = 0
    /\ sub = NoSub
    /\ stream = Off
    /\ \E s \in BOOLEAN :
         client = [cursor |-> 0,      \* what it would resume after
                   base |-> 0,        \* covered by the state it started from
                   got |-> {},        \* processed
                   skipped |-> {},    \* history: unprocessed when it took a marker for its cursor
                   stale |-> s]       \* it has to start from the current state

-----------------------------------------------------------------------------
(* The outbox and the bus. *)

StoreEvents ==
    /\ \E n \in 1..(MaxEvents - stored) : stored' = stored + n
    /\ Store
    /\ UNCHANGED <<evicted, repeats, drops, sub, stream, client>>

(* Publish on the local bus: a full buffer closes the subscription. *)
Fanned_DropWhenFull(k) ==
    IF ~sub.open \/ Len(sub.buf) = BufferSize THEN sub
    ELSE [sub EXCEPT !.buf = Append(sub.buf, k)]

Fanned(k) ==
    IF ~sub.open THEN sub
    ELSE IF Len(sub.buf) < BufferSize THEN [sub EXCEPT !.buf = Append(sub.buf, k)]
    ELSE [sub EXCEPT !.open = FALSE]

AnnounceEvent(k) ==
    /\ Announce(k)
    /\ repeats' = IF k <= sent THEN repeats + 1 ELSE repeats
    /\ repeats' <= MaxRepeats
    /\ sub' = Fanned(k)
    /\ UNCHANGED <<evicted, drops, stream, client>>

(* Retention deletes by created_at, which is not the order of the cursors:  *)
(* any row may go, announced or not, the newest too.                        *)
EvictOutboxEventsBefore(k) ==
    /\ k \in Rows
    /\ evicted' = evicted \cup {k}
    /\ UNCHANGED <<logVars, repeats, drops, sub, stream, client>>

(* CurrentOutboxCursor, the high-water mark: the last row left, or "start". *)
CurrentOutboxCursor(m) == m \in Rows \cup {0} /\ \A k \in Rows : k <= m

-----------------------------------------------------------------------------
(* The client.  It stores the cursor of each event after it has processed   *)
(* it.  Told to invalidate, or at first, it asks for the current state.     *)

Process(e) == [client EXCEPT !.got = @ \cup {e}, !.cursor = e]

SubscribeEvents ==
    /\ stream.pc = "off"
    /\ stream' = [Off EXCEPT !.pc = "subscribe", !.current = client.stale,
                             !.resume = IF client.stale THEN None ELSE client.cursor]
    /\ UNCHANGED <<outbox, drops, sub, client>>

(* The stream ends: the connection, the client or the server fails, or the  *)
(* user has opened too many others.                                         *)
StreamEnds ==
    /\ stream.pc # "off"
    /\ drops < MaxDrops /\ drops' = drops + 1
    /\ stream' = Off
    /\ sub' = NoSub
    /\ UNCHANGED <<outbox, client>>

-----------------------------------------------------------------------------
(* The handler. *)

AfterSubscribe(s) ==
    IF s.current THEN "boundary" ELSE IF s.resume # None THEN "list" ELSE "marker"

(* A new subscription comes before anything is read. *)
Subscribe ==
    /\ stream.pc = "subscribe"
    /\ stream' = [stream EXCEPT !.pc = AfterSubscribe(stream), !.cursor = stream.resume, !.seen = {}]
    /\ sub' = [buf |-> << >>, open |-> TRUE]
    /\ UNCHANGED <<outbox, drops, client>>

(* initial_state=current: the high-water cursor, then the state, then the   *)
(* changes after the cursor.  The state is read afterwards, so it covers    *)
(* whatever is stored at this point.                                        *)
CaptureBoundary ==
    /\ stream.pc = "boundary"
    /\ \E m \in 0..stored :
         /\ CurrentOutboxCursor(m)
         /\ stream' = [stream EXCEPT !.pc = "snapshot", !.resume = m, !.cursor = m]
    /\ client' = [client EXCEPT !.base = stored]
    /\ UNCHANGED <<outbox, drops, sub>>

StreamAdminCurrentState ==
    /\ stream.pc = "snapshot"
    /\ stream' = [stream EXCEPT !.pc = "list", !.current = FALSE]
    /\ client' = [cursor |-> stream.resume, base |-> client.base, got |-> {}, skipped |-> {},
                  stale |-> FALSE]
    /\ UNCHANGED <<outbox, drops, sub>>

(* A cursor whose row is gone is refused, and the client is told so. *)
StaleCursor(c) == c # 0 /\ c \notin Rows

(* The rows left after c, and the first PageSize of them. *)
Later(c) == {e \in Rows : e > c}
Page(P, c) ==
    /\ Cardinality(P) = PageSize \/ (P = Later(c) /\ Cardinality(P) < PageSize)
    /\ \A x \in P, y \in Later(c) \ P : x < y

ListOutboxEvents ==
    /\ stream.pc = "list"
    /\ ~StaleCursor(stream.cursor)
    /\ \E P \in SUBSET Later(stream.cursor) :
         /\ Page(P, stream.cursor)
         /\ stream' = [stream EXCEPT !.pc = IF P # {} THEN "replay" ELSE "drain", !.page = P,
                                     !.more = P # Later(stream.cursor)]
    /\ UNCHANGED <<outbox, drops, sub, client>>

Invalidate_Unsaid ==
    /\ stream.pc = "list"
    /\ StaleCursor(stream.cursor)
    /\ stream' = Off
    /\ sub' = NoSub
    /\ UNCHANGED <<outbox, drops, client>>

Invalidate ==
    /\ stream.pc = "list"
    /\ StaleCursor(stream.cursor)
    /\ client' = [client EXCEPT !.stale = TRUE]
    /\ stream' = Off
    /\ sub' = NoSub
    /\ UNCHANGED <<outbox, drops>>

ReplayEvent ==
    /\ stream.pc = "replay"
    /\ \E e \in stream.page :
         /\ \A x \in stream.page : e <= x
         /\ client' = Process(e)
         /\ stream' = [stream EXCEPT !.cursor = e, !.last = e, !.seen = @ \cup {e},
                                     !.page = @ \ {e},
                                     !.pc = IF stream.page # {e} THEN "replay"
                                            ELSE IF stream.more THEN "list" ELSE "drain"]
    /\ UNCHANGED <<outbox, drops, sub>>

(* The channel is closed and read empty: replay again on this connection    *)
(* if anything had a cursor yet, otherwise give the stream up.              *)
SlowConsumer ==
    /\ stream.pc \in {"drain", "live"}
    /\ sub.buf = << >> /\ ~sub.open
    /\ stream' = IF stream.last # None THEN [stream EXCEPT !.pc = "subscribe", !.resume = stream.last]
                 ELSE Off
    /\ UNCHANGED <<outbox, drops, sub, client>>

(* After the replay, what the channel holds already, without what was replayed. *)
Skipped(e) == e \in stream.seen

DrainEvent ==
    LET e == Head(sub.buf) IN
    /\ stream.pc = "drain"
    /\ sub.buf # << >>
    /\ sub' = [sub EXCEPT !.buf = Tail(sub.buf)]
    /\ IF Skipped(e) THEN UNCHANGED <<stream, client>>
       ELSE stream' = [stream EXCEPT !.last = e] /\ client' = Process(e)
    /\ UNCHANGED <<outbox, drops>>

DrainEnds ==
    /\ stream.pc = "drain"
    /\ sub.buf = << >> /\ sub.open
    /\ stream' = [stream EXCEPT !.pc = "marker", !.resume = None]
    /\ UNCHANGED <<outbox, drops, sub, client>>

(* The marker of the live phase carries the high-water cursor of this       *)
(* moment.  A client may take it for its own, as the analytics exporter     *)
(* does, though the channel may still hold events before it.                *)
SendLiveMarker ==
    /\ stream.pc = "marker"
    /\ stream' = [stream EXCEPT !.pc = "live"]
    /\ \/ UNCHANGED client
       \/ \E m \in 0..stored :
            /\ CurrentOutboxCursor(m)
            /\ client' = [client EXCEPT !.cursor = m,
                                        !.skipped = @ \cup (((client.base + 1)..m) \ client.got)]
    /\ UNCHANGED <<outbox, drops, sub>>

LiveEvent ==
    LET e == Head(sub.buf) IN
    /\ stream.pc = "live"
    /\ sub.buf # << >>
    /\ sub' = [sub EXCEPT !.buf = Tail(sub.buf)]
    /\ stream' = [stream EXCEPT !.last = e]
    /\ client' = Process(e)
    /\ UNCHANGED <<outbox, drops>>

-----------------------------------------------------------------------------
Handle ==
    \/ Subscribe \/ CaptureBoundary \/ StreamAdminCurrentState \/ ListOutboxEvents
    \/ Invalidate \/ ReplayEvent \/ SlowConsumer \/ DrainEvent \/ DrainEnds
    \/ SendLiveMarker \/ LiveEvent

Next ==
    \/ StoreEvents
    \/ \E k \in Events : AnnounceEvent(k) \/ EvictOutboxEventsBefore(k)
    \/ SubscribeEvents \/ StreamEnds
    \/ Handle

Spec == Init /\ [][Next]_vars

(* The handler runs and the client reconnects.  Nothing else has to happen. *)
FairSpec == Spec /\ WF_vars(Handle) /\ WF_vars(SubscribeEvents)

-----------------------------------------------------------------------------
(* What became of an event: processed, deleted, or passed over by a client   *)
(* that took the live marker for its cursor.                                 *)
Settled(e) == e \in client.got \/ e \in evicted \/ e \in client.skipped

(* Whatever cursor the client would resume from, every event up to it since *)
(* the state it started from is settled, or the client has been told to     *)
(* start over: neither an overflow of the channel, nor the change from the  *)
(* replay to the channel, nor a stream that ends may leave a gap behind the *)
(* cursor (events.mdx, "continue from the last processed event";            *)
(* SubscribeEvents, replayGRPCAdminEvents).                                 *)
NoSilentGap ==
    ~client.stale => \A e \in (client.base + 1)..client.cursor : Settled(e)

(* Every event that is announced reaches the client, in a replay, live or   *)
(* within the state it starts from, through slow consumption, lost streams  *)
(* and retention, unless its row is deleted or the client skips it          *)
(* (streamLoop).                                                            *)
EveryEventArrives ==
    \A e \in Events : (sent >= e) ~> (~client.stale /\ (e <= client.base \/ Settled(e)))
=============================================================================
