------------------------- MODULE EventStream_proofs -------------------------
(***************************************************************************)
(* NoSilentGap for every bound, buffer and page size.                      *)
(*                                                                         *)
(* An event that is not settled is still ahead of the replay, or in the    *)
(* buffer of a subscription made before the replay was read.  So whatever  *)
(* is processed next, everything before it is settled.                     *)
(***************************************************************************)
EXTENDS EventStream, SequenceTheorems, FiniteSetTheorems, TLAPS

Pos == Nat \ {0}

Sub == [buf : Seq(Pos), open : BOOLEAN]
Client == [cursor : Nat, base : Nat, got : SUBSET Pos, skipped : SUBSET Pos, stale : BOOLEAN]
Stream == [pc : {"off", "subscribe", "boundary", "snapshot", "list", "replay", "drain", "marker", "live"},
           current : BOOLEAN, resume : Nat \cup {None}, cursor : Nat \cup {None},
           page : SUBSET Pos, more : BOOLEAN, seen : SUBSET Pos, last : Pos \cup {None}]

StreamTypes ==
    /\ stored \in Nat /\ sent \in Nat /\ sent <= stored
    /\ sub \in Sub /\ client \in Client /\ stream \in Stream

Announced(s) == \A i \in 1..Len(s.buf) : s.buf[i] <= sent

(* Everything from the state the client started from up to n is settled. *)
Covered(n) == \A e \in Pos : client.base < e /\ e <= n => Settled(e)

Resuming == stream.pc \in {"list", "replay", "drain", "marker", "live"}

(* The events the replay still has to read. *)
Ahead(e) ==
    \/ stream.pc = "list" /\ e > stream.cursor
    \/ stream.pc = "replay" /\ (e \in stream.page \/ (stream.more /\ \A x \in stream.page : x < e))

Buffered(e, n) == \E j \in 1..n : sub.buf[j] = e

(* What comes before an event of the buffer is settled, comes earlier in  *)
(* the buffer, or is read by the replay before the buffer.                  *)
BufferOK ==
    \A i \in 1..Len(sub.buf) : \A e \in Pos :
        client.base < e /\ e < sub.buf[i] => Settled(e) \/ Buffered(e, i - 1) \/ Ahead(e)

(* An open subscription has whatever was announced and is not settled. *)
OpenOK ==
    sub.open => \A e \in Pos : client.base < e /\ e <= sent =>
                  Settled(e) \/ Buffered(e, Len(sub.buf)) \/ Ahead(e)

(* Between the cursor and the first event of the page all is settled, and  *)
(* so is what the page leaves out up to any event of it.                   *)
PageOK(x) ==
    /\ x > stream.cursor
    /\ \A e \in Pos : client.base < e /\ e < x => Settled(e) \/ e \in stream.page

(* The client and the handler. *)
ClientOK == ~client.stale => Covered(client.cursor)

HandlerOK ==
    /\ stream.pc = "subscribe" => (stream.current <=> client.stale)
    /\ stream.pc = "subscribe" /\ ~stream.current => stream.resume # None /\ Covered(stream.resume)
    /\ stream.pc \in {"boundary", "snapshot"} => client.stale /\ stream.current /\ stream.seen = {}
    /\ stream.pc = "snapshot" => stream.resume # None /\ stream.cursor = stream.resume
                                /\ stream.resume <= client.base
    /\ stream.pc = "replay" => stream.page # {} /\ \A x \in stream.page : PageOK(x)
    /\ Resuming => ~client.stale /\ ~stream.current /\ stream.seen \subseteq client.got
    /\ stream.pc \in {"list", "replay"} => stream.cursor # None /\ Covered(stream.cursor)
    /\ stream.last # None => ~stream.current /\ Covered(stream.last)

StreamInv ==
    /\ StreamTypes
    /\ Announced(sub)
    /\ ClientOK
    /\ HandlerOK
    /\ Resuming => BufferOK /\ OpenOK

(* Abbreviations every leaf may expand. *)
USE StreamAssumption
USE DEF Pos, logVars, outbox, Events

-----------------------------------------------------------------------------
LEMMA InitInv ==
  ASSUME Init PROVE StreamInv
<1>. USE DEF Init, LogInit
<1>1. sub \in Sub  BY DEF Sub, NoSub
<1>2. stream \in Stream  BY DEF Stream, Off
<1>3. client \in Client /\ client.cursor = 0  BY DEF Client
<1>4. StreamTypes  BY <1>1, <1>2, <1>3 DEF StreamTypes
<1>5. ClientOK  BY <1>3 DEF ClientOK, Covered
<1>6. HandlerOK /\ ~Resuming  BY DEF HandlerOK, Resuming, Off
<1>7. Announced(sub)  BY DEF Announced, NoSub
<1>. QED  BY <1>4, <1>5, <1>6, <1>7 DEF StreamInv

(* What is settled stays settled. *)
LEMMA CoveredStays ==
  ASSUME client'.base = client.base, \A e \in Pos : Settled(e) => Settled(e)'
  PROVE  \A n : Covered(n) => Covered(n)'
BY DEF Covered

(* A step that only stores events, or only deletes rows. *)
LEMMA TableKeeps ==
  ASSUME StreamInv, UNCHANGED <<sub, stream, client, sent>>,
         stored' \in Nat, stored <= stored', evicted \subseteq evicted'
  PROVE  StreamInv'
<1>. USE DEF StreamInv
<1>1. StreamTypes'  BY DEF StreamTypes
<1>2. \A e : Settled(e) => Settled(e)'  BY DEF Settled
<1>3. \A n : Covered(n) => Covered(n)'  BY <1>2, CoveredStays
<1>4. ClientOK'  BY <1>3 DEF ClientOK
<1>5. \A x : PageOK(x) => PageOK(x)'  BY <1>2 DEF PageOK
<1>6. HandlerOK'  BY <1>3, <1>5 DEF HandlerOK, Resuming
<1>7. \A e, n : (Ahead(e) => Ahead(e)') /\ (Buffered(e, n) => Buffered(e, n)')  BY DEF Ahead, Buffered
<1>8. Resuming' => BufferOK' /\ OpenOK'
  <2>. HIDE DEF Settled
  <2>. QED  BY <1>2, <1>7 DEF BufferOK, OpenOK, Resuming
<1>9. Announced(sub)'  BY DEF Announced
<1>. QED  BY <1>1, <1>4, <1>6, <1>8, <1>9

LEMMA StoreKeeps ==
  ASSUME StreamInv, StoreEvents PROVE StreamInv'
BY TableKeeps DEF StoreEvents, Store, StreamInv, StreamTypes

LEMMA EvictKeeps ==
  ASSUME StreamInv, NEW k \in Events, EvictOutboxEventsBefore(k) PROVE StreamInv'
BY TableKeeps DEF EvictOutboxEventsBefore, StreamInv, StreamTypes

(* An announcement goes to the end of the buffer, after everything that was *)
(* announced before it, or it closes the subscription.                      *)
LEMMA AnnounceKeeps ==
  ASSUME StreamInv, NEW k \in Events, AnnounceEvent(k) PROVE StreamInv'
<1>. USE DEF AnnounceEvent, Announce, StreamInv
<1>1. sent' \in Nat /\ sent <= sent' /\ sent' <= stored' /\ k <= sent' /\ sent' <= sent + 1
      /\ (\A e \in Pos : e <= sent' => e <= sent \/ e = k)
  BY DEF StreamTypes
<1>2. sub.buf \in Seq(Pos) /\ sub.open \in BOOLEAN  BY DEF StreamTypes, Sub
<1>3. \/ sub'.buf = sub.buf /\ (sub'.open => FALSE)
      \/ sub'.buf = Append(sub.buf, k) /\ sub'.open = TRUE /\ sub.open
  BY DEF Fanned, StreamTypes, Sub
<1>4. sub' \in Sub
  <2>1. Append(sub.buf, k) \in Seq(Pos)  BY <1>2
  <2>2. sub \in Sub  BY DEF StreamTypes
  <2>. QED  BY <2>1, <2>2 DEF Fanned, Sub
<1>5. StreamTypes'  BY <1>1, <1>4 DEF StreamTypes
<1>10. \A e : Settled(e)' <=> Settled(e)  BY DEF Settled
<1>6. ClientOK' /\ HandlerOK'
  <2>1. \A n : Covered(n) => Covered(n)'  BY <1>10, CoveredStays
  <2>2. \A x : PageOK(x) => PageOK(x)'  BY <1>10 DEF PageOK
  <2>. QED  BY <2>1, <2>2 DEF ClientOK, HandlerOK, Resuming
<1>7. ASSUME Resuming' PROVE BufferOK' /\ OpenOK'
  <2>1. BufferOK /\ OpenOK  BY <1>7 DEF Resuming
  <2>2. \A e : Ahead(e)' <=> Ahead(e)  BY DEF Ahead
  <2>3. ASSUME sub'.buf = sub.buf, sub'.open => FALSE PROVE BufferOK' /\ OpenOK'
    <3>1. \A e, n : Buffered(e, n)' <=> Buffered(e, n)  BY <2>3 DEF Buffered
    <3>2. \A i \in 1..Len(sub.buf) : sub.buf[i] \in Nat  BY <1>2
    <3>. QED  BY <1>1, <1>10, <2>1, <2>2, <2>3, <3>1, <3>2 DEF BufferOK, OpenOK, StreamTypes
  <2>4. ASSUME sub'.buf = Append(sub.buf, k), sub.open PROVE BufferOK' /\ OpenOK'
    <3>0. PICK L \in Nat : L = Len(sub.buf)  BY <1>2
    <3>1. L \in Nat /\ Len(sub'.buf) = L + 1 /\ sub'.buf[L + 1] = k
          /\ \A i \in 1..L : sub'.buf[i] = sub.buf[i] /\ sub.buf[i] \in Nat
      BY <1>2, <2>4, <3>0
    <3>2. ASSUME NEW e, NEW n \in 0..L, Buffered(e, n) PROVE Buffered(e, n)'
      <4>1. PICK j \in 1..n : sub.buf[j] = e  BY <3>2 DEF Buffered
      <4>2. j \in 1..L  BY <3>1
      <4>. QED  BY <3>1, <4>1, <4>2 DEF Buffered
    <3>3. Buffered(k, L + 1)'  BY <3>1 DEF Buffered
    <3>4. \A e : Buffered(e, L)' => Buffered(e, L + 1)'  BY <3>1 DEF Buffered
    <3>5. ASSUME NEW i \in 1..(L + 1), NEW e \in Pos, client.base < e, e < sub'.buf[i]
          PROVE  Settled(e) \/ Buffered(e, i - 1)' \/ Ahead(e)
      <4>1. CASE i \in 1..L
        <5>1. e < sub.buf[i]  BY <3>1, <3>5, <4>1
        <5>2. Settled(e) \/ Buffered(e, i - 1) \/ Ahead(e)
          BY <2>1, <3>0, <3>5, <4>1, <5>1 DEF BufferOK
        <5>3. i - 1 \in 0..L  BY <3>1, <4>1
        <5>. QED  BY <3>2, <5>2, <5>3
      <4>2. CASE i = L + 1
        <5>1. e < k  BY <3>1, <3>5, <4>2
        <5>2. e <= sent  BY <5>1 DEF StreamTypes
        <5>3. Settled(e) \/ Buffered(e, L) \/ Ahead(e)
          BY <2>1, <2>4, <3>0, <3>5, <5>2 DEF OpenOK
        <5>4. L \in 0..L /\ i - 1 = L  BY <3>1, <4>2
        <5>. QED  BY <3>2, <5>3, <5>4
      <4>. QED  BY <3>1, <4>1, <4>2
    <3>7. BufferOK'  BY <1>10, <2>2, <3>1, <3>5 DEF BufferOK
    <3>8. ASSUME NEW e \in Pos, client.base < e, e <= sent'
          PROVE  Settled(e) \/ Buffered(e, L + 1)' \/ Ahead(e)
      <4>1. CASE e = k  BY <3>3, <4>1
      <4>2. CASE e <= sent
        <5>1. Settled(e) \/ Buffered(e, L) \/ Ahead(e)  BY <2>1, <2>4, <3>0, <3>8, <4>2 DEF OpenOK
        <5>2. L \in 0..L  BY <3>1
        <5>. QED  BY <3>2, <3>4, <5>1, <5>2
      <4>. QED  BY <1>1, <3>8, <4>1, <4>2
    <3>9. OpenOK'  BY <1>10, <2>2, <3>1, <3>8 DEF OpenOK
    <3>. QED  BY <3>7, <3>9
  <2>. QED  BY <1>3, <2>3, <2>4
<1>8. ASSUME NEW i \in 1..Len(sub'.buf) PROVE sub'.buf[i] <= sent'
  <2>1. \A j \in 1..Len(sub.buf) : sub.buf[j] \in Nat /\ sub.buf[j] <= sent  BY <1>2 DEF Announced
  <2>2. CASE i \in 1..Len(sub.buf) /\ sub'.buf[i] = sub.buf[i]  BY <1>1, <2>1, <2>2 DEF StreamTypes
  <2>3. CASE i = Len(sub.buf) + 1 /\ sub'.buf = Append(sub.buf, k)  BY <1>1, <1>2, <2>3
  <2>4. \/ i \in 1..Len(sub.buf) /\ sub'.buf[i] = sub.buf[i]
        \/ i = Len(sub.buf) + 1 /\ sub'.buf = Append(sub.buf, k)
    <3>1. CASE sub'.buf = sub.buf  BY <3>1
    <3>2. CASE sub'.buf = Append(sub.buf, k)
      <4>1. Len(sub'.buf) = Len(sub.buf) + 1 /\ Len(sub.buf) \in Nat  BY <1>2, <3>2
      <4>2. i \in 1..Len(sub.buf) \/ i = Len(sub.buf) + 1  BY <4>1
      <4>. QED  BY <1>2, <3>2, <4>2
    <3>. QED  BY <1>3, <3>1, <3>2
  <2>. QED  BY <2>2, <2>3, <2>4
<1>9. Announced(sub)'  BY <1>8 DEF Announced
<1>. QED  BY <1>5, <1>6, <1>7, <1>9


-----------------------------------------------------------------------------
(* A step that leaves the client and the table alone. *)
LEMMA Unread ==
  ASSUME UNCHANGED <<client, evicted>>
  PROVE  /\ \A n : Covered(n)' <=> Covered(n)
         /\ \A e : Settled(e)' <=> Settled(e)
BY DEF Covered, Settled

(* The client asks for what follows its cursor, or for the current state. *)
LEMMA SubscribeEventsKeeps ==
  ASSUME StreamInv, SubscribeEvents PROVE StreamInv'
<1>. USE DEF SubscribeEvents, StreamInv
<1>1. client.stale \in BOOLEAN /\ client.cursor \in Nat  BY DEF StreamTypes, Client
<1>2. stream' \in Stream  BY <1>1 DEF Stream, Off
<1>3. StreamTypes'  BY <1>2 DEF StreamTypes
<1>4. stream'.pc = "subscribe" /\ stream'.last = None /\ stream'.current = client.stale
      /\ stream'.resume = IF client.stale THEN None ELSE client.cursor
  BY DEF Off
<1>5. \A n : Covered(n)' <=> Covered(n)  BY Unread
<1>6. ClientOK'  BY <1>5 DEF ClientOK
<1>7. HandlerOK' /\ ~Resuming'  BY <1>1, <1>4, <1>5 DEF HandlerOK, Resuming, ClientOK
<1>8. Announced(sub)'  BY DEF Announced
<1>. QED  BY <1>3, <1>6, <1>7, <1>8

(* A stream that ends leaves the client with what it has stored. *)
LEMMA OffKeeps ==
  ASSUME StreamInv, stream' = Off, sub' \in Sub, sub' = sub \/ sub'.buf = << >>,
         client' = client \/ client' = [client EXCEPT !.stale = TRUE],
         UNCHANGED <<stored, sent, evicted>>
  PROVE  StreamInv'
<1>. USE DEF StreamInv
<1>1. stream' \in Stream  BY DEF Stream, Off
<1>2. client' \in Client
  <2>1. client \in Client  BY DEF StreamTypes
  <2>. QED  BY <2>1 DEF Client
<1>3. StreamTypes'  BY <1>1, <1>2 DEF StreamTypes
<1>4. stream'.pc = "off" /\ stream'.last = None  BY DEF Off
<1>5. client'.cursor = client.cursor /\ client'.base = client.base /\ client'.got = client.got
      /\ client'.skipped = client.skipped
  BY DEF StreamTypes, Client
<1>6. ~client'.stale => ~client.stale  BY DEF StreamTypes, Client
<1>7. \A n : Covered(n)' <=> Covered(n)  BY <1>5 DEF Covered, Settled
<1>8. ClientOK'  BY <1>5, <1>6, <1>7 DEF ClientOK
<1>9. HandlerOK' /\ ~Resuming'  BY <1>4 DEF HandlerOK, Resuming
<1>10. Announced(sub)'  BY DEF Announced
<1>. QED  BY <1>3, <1>8, <1>9, <1>10

LEMMA NoSubType == NoSub \in Sub /\ NoSub.buf = << >>
BY DEF NoSub, Sub

LEMMA StreamEndsKeeps ==
  ASSUME StreamInv, StreamEnds PROVE StreamInv'
BY OffKeeps, NoSubType DEF StreamEnds

LEMMA InvalidateKeeps ==
  ASSUME StreamInv, Invalidate PROVE StreamInv'
BY OffKeeps, NoSubType DEF Invalidate

-----------------------------------------------------------------------------
(* The subscription is made first: from then on whatever is announced is   *)
(* in the buffer, and all that is not processed is ahead of the replay.    *)
LEMMA SubscribeKeeps ==
  ASSUME StreamInv, Subscribe PROVE StreamInv'
<1>. USE DEF Subscribe, StreamInv
<1>0. stream \in Stream  BY DEF StreamTypes
<1>1. stream.current \in BOOLEAN /\ stream.resume \in Nat \cup {None}  BY <1>0 DEF Stream
<1>2. AfterSubscribe(stream) \in {"boundary", "list"}
      /\ (AfterSubscribe(stream) = "boundary" <=> stream.current)
  BY <1>1 DEF AfterSubscribe, HandlerOK
<1>3. stream' \in Stream  BY <1>0, <1>1, <1>2 DEF Stream
<1>4. sub' \in Sub  BY DEF Sub
<1>5. StreamTypes'  BY <1>3, <1>4 DEF StreamTypes
<1>6. stream'.pc = AfterSubscribe(stream) /\ stream'.cursor = stream.resume /\ stream'.seen = {}
      /\ stream'.current = stream.current /\ stream'.last = stream.last
  BY <1>0 DEF Stream
<1>7. \A n : Covered(n)' <=> Covered(n)  BY Unread
<1>8. ClientOK'  BY <1>7 DEF ClientOK
<1>9. HandlerOK'  BY <1>1, <1>2, <1>6, <1>7 DEF HandlerOK, Resuming
<1>10. ASSUME Resuming' PROVE BufferOK' /\ OpenOK'
  <2>1. stream'.pc = "list" /\ stream'.cursor \in Nat /\ Covered(stream'.cursor)
    BY <1>1, <1>2, <1>6, <1>10 DEF HandlerOK, Resuming
  <2>2. Len(sub'.buf) = 0  OBVIOUS
  <2>3. BufferOK'  BY <2>2 DEF BufferOK
  <2>4. ASSUME NEW e \in Pos, client.base < e PROVE Settled(e) \/ Ahead(e)'
    <3>1. CASE e <= stream'.cursor  BY <2>1, <2>4, <3>1 DEF Covered
    <3>2. CASE e > stream'.cursor  BY <2>1, <3>2 DEF Ahead
    <3>. QED  BY <2>1, <3>1, <3>2
  <2>5. OpenOK'  BY <2>4, Unread DEF OpenOK
  <2>. QED  BY <2>3, <2>5
<1>11. Announced(sub)'  BY DEF Announced
<1>. QED  BY <1>5, <1>8, <1>9, <1>10, <1>11

LEMMA BoundaryKeeps ==
  ASSUME StreamInv, CaptureBoundary PROVE StreamInv'
<1>. USE DEF CaptureBoundary, StreamInv
<1>0. stream \in Stream /\ client \in Client /\ stored \in Nat  BY DEF StreamTypes
<1>1. PICK m \in 0..stored : stream' = [stream EXCEPT !.pc = "snapshot", !.resume = m, !.cursor = m]
  OBVIOUS
<1>2. m \in Nat /\ m # None /\ m <= stored  BY <1>0
<1>3. stream' \in Stream  BY <1>0, <1>1, <1>2 DEF Stream
<1>4. client' \in Client /\ client'.base = stored /\ client'.stale = client.stale
  BY <1>0 DEF Client
<1>5. StreamTypes'  BY <1>3, <1>4 DEF StreamTypes
<1>6. stream'.pc = "snapshot" /\ stream'.cursor = m /\ stream'.resume = m
      /\ stream'.seen = stream.seen /\ stream'.current = stream.current /\ stream'.last = stream.last
  BY <1>0, <1>1 DEF Stream
<1>7. client.stale /\ stream.current /\ stream.seen = {} /\ stream.last = None
  BY DEF HandlerOK
<1>8. ClientOK'  BY <1>4, <1>7 DEF ClientOK
<1>9. HandlerOK' /\ ~Resuming'  BY <1>2, <1>4, <1>6, <1>7 DEF HandlerOK, Resuming
<1>10. Announced(sub)'  BY DEF Announced
<1>. QED  BY <1>5, <1>8, <1>9, <1>10

(* The state the client starts from covers everything up to the boundary. *)
LEMMA SnapshotKeeps ==
  ASSUME StreamInv, StreamAdminCurrentState PROVE StreamInv'
<1>. USE DEF StreamAdminCurrentState, StreamInv
<1>0. stream \in Stream /\ client \in Client  BY DEF StreamTypes
<1>1. stream.resume \in Nat /\ stream.cursor = stream.resume /\ stream.seen = {} /\ stream.last = None
      /\ stream.resume <= client.base /\ client.base \in Nat
  BY <1>0 DEF HandlerOK, Stream, Client
<1>2. stream' \in Stream  BY <1>0 DEF Stream
<1>3. client' \in Client  BY <1>1 DEF Client
<1>4. StreamTypes'  BY <1>2, <1>3 DEF StreamTypes
<1>5. stream'.pc = "list" /\ stream'.cursor = stream.resume /\ stream'.seen = {}
      /\ stream'.current = FALSE /\ stream'.last = None
  BY <1>0, <1>1 DEF Stream
<1>6. client'.cursor = stream.resume /\ client'.base = client.base /\ client'.stale = FALSE
  OBVIOUS
<1>7. PICK r \in Nat : r = stream.resume  BY <1>1
<1>8. Covered(r)'  BY <1>1, <1>6, <1>7 DEF Covered
<1>9. ClientOK'  BY <1>6, <1>7, <1>8 DEF ClientOK
<1>10. HandlerOK'  BY <1>1, <1>5, <1>6, <1>7, <1>8 DEF HandlerOK, Resuming
<1>11. \A e \in Pos : client'.base < e => Ahead(e)'  BY <1>1, <1>5, <1>6 DEF Ahead
<1>12. OpenOK' /\ BufferOK'  BY <1>11 DEF OpenOK, BufferOK
<1>13. Announced(sub)'  BY DEF Announced
<1>. QED  BY <1>4, <1>9, <1>10, <1>12, <1>13

-----------------------------------------------------------------------------
(* What the page leaves out, up to an event of it, is deleted.  What it     *)
(* does not reach is read by the next one, or was stored after the          *)
(* subscription.                                                            *)
LEMMA ListKeeps ==
  ASSUME StreamInv, ListOutboxEvents PROVE StreamInv'
<1>. USE DEF ListOutboxEvents, StreamInv
<1>0. stream \in Stream /\ stored \in Nat /\ sent \in Nat /\ sent <= stored
  BY DEF StreamTypes
<1>1. PICK c \in Nat : c = stream.cursor /\ Covered(c)
  BY <1>0 DEF HandlerOK, Stream
<1>2. PICK P \in SUBSET Later(c) :
         /\ Page(P, c)
         /\ stream' = [stream EXCEPT !.pc = IF P # {} THEN "replay" ELSE "drain", !.page = P,
                                     !.more = P # Later(c)]
  BY <1>1
<1>3. Later(c) \subseteq Pos /\ \A x \in Later(c) : x > c /\ x <= stored /\ x \notin evicted
  BY <1>0 DEF Later, Rows
<1>4. \A e \in Pos : e > c /\ e <= stored => e \in Later(c) \/ e \in evicted
  BY <1>0 DEF Later, Rows
<1>5. P = {} => P = Later(c)
  <2>1. Cardinality({}) = 0  BY FS_EmptySet
  <2>. QED  BY <1>2, <2>1 DEF Page
<1>6. PICK m \in BOOLEAN : m = (P # Later(c))
  <2>1. (P # Later(c)) = TRUE \/ (P # Later(c)) = FALSE  OBVIOUS
  <2>. QED  BY <2>1, Zenon
<1>7. PICK p \in {"replay", "drain"} : p = IF P # {} THEN "replay" ELSE "drain"  OBVIOUS
<1>8. stream' = [stream EXCEPT !.pc = p, !.page = P, !.more = m]  BY <1>2, <1>6, <1>7
<1>9. stream' \in Stream  BY <1>0, <1>2, <1>3, <1>8 DEF Stream
<1>10. StreamTypes' /\ Announced(sub)'  BY <1>9 DEF StreamTypes, Announced
<1>11. stream'.pc = p /\ stream'.cursor = c /\ stream'.page = P /\ stream'.more = m
       /\ stream'.seen = stream.seen /\ stream'.current = stream.current
       /\ stream'.last = stream.last
  BY <1>0, <1>1, <1>8 DEF Stream
<1>12. /\ \A n : Covered(n)' <=> Covered(n)
       /\ \A e : Settled(e)' <=> Settled(e)
  BY Unread
<1>13. ClientOK'  BY <1>12 DEF ClientOK
<1>14. ASSUME NEW x \in P PROVE PageOK(x)'
  <2>1. x \in Later(c) /\ x \in Pos /\ x > c /\ x <= stored  BY <1>2, <1>3
  <2>2. ASSUME NEW e \in Pos, client.base < e, e < x PROVE Settled(e) \/ e \in P
    <3>1. CASE e <= c  BY <1>1, <2>2, <3>1 DEF Covered
    <3>2. CASE e > c
      <4>1. e \in Later(c) \/ e \in evicted  BY <1>0, <1>4, <2>1, <2>2, <3>2
      <4>2. e \in Later(c) \ P => x < e  BY <1>2 DEF Page
      <4>. QED  BY <2>1, <2>2, <4>1, <4>2 DEF Settled
    <3>. QED  BY <3>1, <3>2
  <2>. QED  BY <1>11, <1>12, <2>1, <2>2 DEF PageOK
<1>15. HandlerOK'  BY <1>1, <1>7, <1>11, <1>12, <1>14 DEF HandlerOK, Resuming
<1>16. ASSUME NEW e \in Pos, e <= stored, Ahead(e) PROVE Settled(e) \/ Ahead(e)'
  <2>1. e > c  BY <1>1, <1>16 DEF Ahead
  <2>2. CASE e \in evicted  BY <2>2 DEF Settled
  <2>3. CASE e \in P  BY <1>7, <1>11, <2>3 DEF Ahead
  <2>4. CASE e \in Later(c) /\ e \notin P
    <3>1. \A x \in P : x < e  BY <1>2, <2>4 DEF Page
    <3>2. P # {} /\ m = TRUE  BY <1>5, <1>6, <2>4
    <3>. QED  BY <1>7, <1>11, <3>1, <3>2 DEF Ahead
  <2>. QED  BY <1>4, <1>16, <2>1, <2>2, <2>3, <2>4
<1>17. \A e, n : Buffered(e, n)' <=> Buffered(e, n)  BY DEF Buffered
<1>18. \A i \in 1..Len(sub.buf) : sub.buf[i] \in Nat /\ sub.buf[i] <= stored
  <2>1. \A i \in 1..Len(sub.buf) : sub.buf[i] \in Nat  BY DEF StreamTypes, Sub
  <2>. QED  BY <1>0, <2>1 DEF Announced
<1>19. BufferOK' /\ OpenOK'
  <2>1. BufferOK /\ OpenOK  BY DEF Resuming
  <2>2. BufferOK'
    <3>. SUFFICES ASSUME NEW i \in 1..Len(sub.buf), NEW e \in Pos, client.base < e, e < sub.buf[i]
                  PROVE  Settled(e) \/ Buffered(e, i - 1)' \/ Ahead(e)'
      BY <1>12 DEF BufferOK
    <3>1. e <= stored  BY <1>0, <1>18
    <3>. QED  BY <1>16, <1>17, <2>1, <3>1 DEF BufferOK
  <2>3. OpenOK'
    <3>. SUFFICES ASSUME sub.open, NEW e \in Pos, client.base < e, e <= sent
                  PROVE  Settled(e) \/ Buffered(e, Len(sub.buf))' \/ Ahead(e)'
      BY <1>12 DEF OpenOK
    <3>1. e <= stored  BY <1>0
    <3>. QED  BY <1>16, <1>17, <2>1, <3>1 DEF OpenOK
  <2>. QED  BY <2>2, <2>3
<1>. QED  BY <1>10, <1>13, <1>15, <1>19

(* What the client has processed only grows. *)
LEMMA ProcessKeeps ==
  ASSUME StreamInv, NEW e \in Pos, client' = Process(e), Covered(e - 1), UNCHANGED evicted
  PROVE  /\ client' \in Client
         /\ client'.cursor = e /\ client'.base = client.base /\ client'.stale = client.stale
         /\ client'.got = client.got \cup {e}
         /\ Settled(e)' /\ \A x : Settled(x) => Settled(x)'
         /\ Covered(e)' /\ \A n : Covered(n) => Covered(n)'
<1>0. client \in Client  BY DEF StreamInv, StreamTypes
<1>1. client' \in Client  BY <1>0 DEF Client, Process
<1>2. client'.cursor = e /\ client'.base = client.base /\ client'.stale = client.stale
      /\ client'.got = client.got \cup {e} /\ client'.skipped = client.skipped
  BY <1>0 DEF Client, Process
<1>3. Settled(e)' /\ \A x : Settled(x) => Settled(x)'  BY <1>2 DEF Settled
<1>4. \A n : Covered(n) => Covered(n)'  BY <1>2, <1>3, CoveredStays
<1>5. \A x \in Pos : x <= e => x <= e - 1 \/ x = e  OBVIOUS
<1>6. Covered(e)'  BY <1>2, <1>3, <1>5 DEF Covered
<1>. QED  BY <1>1, <1>2, <1>3, <1>4, <1>6

(* The replay processes the first event of its page. *)
LEMMA ReplayKeeps ==
  ASSUME StreamInv, ReplayEvent PROVE StreamInv'
<1>. USE DEF StreamInv
<1>0. stream \in Stream /\ stream.pc = "replay" /\ stream.page \subseteq Pos
      /\ UNCHANGED <<outbox, drops, sub>>
  BY DEF StreamTypes, Stream, ReplayEvent
<1>1. PICK e \in stream.page :
         /\ \A x \in stream.page : e <= x
         /\ client' = Process(e)
         /\ stream' = [stream EXCEPT !.cursor = e, !.last = e, !.seen = stream.seen \cup {e},
                                     !.page = stream.page \ {e},
                                     !.pc = IF stream.page # {e} THEN "replay"
                                            ELSE IF stream.more THEN "list" ELSE "drain"]
  BY DEF ReplayEvent
<1>2. e \in Pos /\ PageOK(e) /\ e # None  BY <1>0, <1>1 DEF HandlerOK
<1>3. Covered(e - 1)
  <2>. SUFFICES ASSUME NEW x \in Pos, client.base < x, x <= e - 1 PROVE Settled(x)
    BY DEF Covered
  <2>1. x < e  BY <1>2
  <2>2. x \notin stream.page  BY <1>0, <1>1, <2>1
  <2>. QED  BY <1>2, <2>1, <2>2 DEF PageOK
<1>4. PICK p \in {"replay", "list", "drain"} :
         p = IF stream.page # {e} THEN "replay" ELSE IF stream.more THEN "list" ELSE "drain"
  OBVIOUS
<1>5. stream' = [stream EXCEPT !.cursor = e, !.last = e, !.seen = stream.seen \cup {e},
                              !.page = stream.page \ {e}, !.pc = p]
  BY <1>1, <1>4
<1>6. stream' \in Stream  BY <1>0, <1>2, <1>5 DEF Stream
<1>7. stream'.pc = p /\ stream'.cursor = e /\ stream'.page = stream.page \ {e}
      /\ stream'.more = stream.more /\ stream'.seen = stream.seen \cup {e}
      /\ stream'.current = stream.current /\ stream'.last = e
  BY <1>0, <1>5 DEF Stream
<1>8. /\ client' \in Client
      /\ client'.cursor = e /\ client'.base = client.base /\ client'.stale = client.stale
      /\ client'.got = client.got \cup {e}
      /\ Settled(e)' /\ \A x : Settled(x) => Settled(x)'
      /\ Covered(e)' /\ \A n : Covered(n) => Covered(n)'
  <2>1. UNCHANGED evicted  BY <1>0
  <2>. QED  BY <1>1, <1>2, <1>3, <2>1, ProcessKeeps
<1>9. StreamTypes' /\ Announced(sub)'  BY <1>0, <1>6, <1>8 DEF StreamTypes, Announced
<1>10. ClientOK'  BY <1>8 DEF ClientOK
<1>11. HandlerOK'
  <2>1. Resuming /\ ~client.stale /\ ~stream.current /\ stream.seen \subseteq client.got
    BY <1>0 DEF HandlerOK, Resuming
  <2>2. stream'.seen \subseteq client'.got  BY <1>7, <1>8, <2>1
  <2>3. ASSUME NEW x \in stream.page \ {e} PROVE PageOK(x)'
    <3>1. x \in Pos /\ x > e /\ PageOK(x)  BY <1>0, <1>1, <1>2 DEF HandlerOK
    <3>2. ASSUME NEW y \in Pos, client.base < y, y < x PROVE Settled(y)' \/ y \in stream.page \ {e}
      BY <1>8, <3>1, <3>2 DEF PageOK
    <3>. QED  BY <1>7, <1>8, <3>1, <3>2 DEF PageOK
  <2>4. stream'.pc = "replay" => stream'.page # {}  BY <1>4, <1>7
  <2>5. stream'.pc = "replay" => \A x \in stream'.page : PageOK(x)'  BY <1>7, <2>3
  <2>6. Covered(stream.cursor)' /\ Covered(stream.last)'  BY <1>7, <1>8
  <2>. QED  BY <1>2, <1>4, <1>7, <1>8, <2>1, <2>2, <2>4, <2>5, <2>6 DEF HandlerOK, Resuming
<1>12. ASSUME NEW x \in Pos, Settled(x) \/ Ahead(x) PROVE Settled(x)' \/ Ahead(x)'
  <2>1. CASE Settled(x)  BY <1>8, <2>1
  <2>2. CASE x = e  BY <1>8, <2>2
  <2>3. CASE x # e /\ x \in stream.page
    <3>1. p = "replay" /\ x \in stream'.page  BY <1>4, <1>7, <2>3
    <3>. QED  BY <1>7, <3>1 DEF Ahead
  <2>4. CASE stream.more /\ \A y \in stream.page : y < x
    <3>1. x > e /\ p # "drain" /\ p \in {"replay", "list"}  BY <1>1, <1>4, <2>4
    <3>2. CASE p = "list"  BY <1>7, <3>1, <3>2 DEF Ahead
    <3>3. CASE p = "replay"
      <4>1. stream'.more /\ \A y \in stream'.page : y < x  BY <1>7, <2>4
      <4>. QED  BY <1>7, <3>3, <4>1 DEF Ahead
    <3>. QED  BY <3>1, <3>2, <3>3
  <2>. QED  BY <1>0, <1>12, <2>1, <2>2, <2>3, <2>4 DEF Ahead
<1>13. \A x, n : Buffered(x, n)' <=> Buffered(x, n)  BY <1>0 DEF Buffered
<1>14. BufferOK' /\ OpenOK'
  <2>1. BufferOK /\ OpenOK  BY <1>0 DEF Resuming
  <2>2. BufferOK'  BY <1>0, <1>8, <1>12, <1>13, <2>1 DEF BufferOK
  <2>3. OpenOK'  BY <1>0, <1>8, <1>12, <1>13, <2>1 DEF OpenOK
  <2>. QED  BY <2>2, <2>3
<1>. QED  BY <1>9, <1>10, <1>11, <1>14

(* The channel was closed: everything up to the last event is processed, so *)
(* the replay may start again behind it.                                   *)
LEMMA SlowConsumerKeeps ==
  ASSUME StreamInv, SlowConsumer PROVE StreamInv'
<1>. USE DEF SlowConsumer
<1>1. CASE stream.last = None
  <2>1. sub \in Sub  BY DEF StreamInv, StreamTypes
  <2>. QED  BY <1>1, <2>1, OffKeeps
<1>2. CASE stream.last # None
  <2>. USE <1>2 DEF StreamInv
  <2>0. stream \in Stream /\ stream.last \in Pos \cup {None}  BY DEF StreamTypes, Stream
  <2>1. stream' \in Stream  BY <2>0 DEF Stream
  <2>2. StreamTypes' /\ Announced(sub)'  BY <2>1 DEF StreamTypes, Announced
  <2>3. stream'.pc = "subscribe" /\ stream'.resume = stream.last
        /\ stream'.current = stream.current /\ stream'.last = stream.last
    BY <2>0 DEF Stream
  <2>4. \A n : Covered(n)' <=> Covered(n)  BY Unread
  <2>5. ClientOK'  BY <2>4 DEF ClientOK
  <2>6. ~client.stale /\ ~stream.current  BY DEF HandlerOK, Resuming
  <2>7. HandlerOK' /\ ~Resuming'  BY <2>3, <2>4, <2>6 DEF HandlerOK, Resuming
  <2>. QED  BY <2>2, <2>5, <2>7
<1>. QED  BY <1>1, <1>2

-----------------------------------------------------------------------------
(* What stands before the head of the buffer is processed, and what stood  *)
(* behind the head stands behind the new head.                             *)
LEMMA HeadIsNext ==
  ASSUME StreamInv, stream.pc \in {"drain", "live"}, sub.buf # << >>
  PROVE  Head(sub.buf) \in Pos /\ Covered(Head(sub.buf) - 1)
<1>1. sub.buf \in Seq(Pos)  BY DEF StreamInv, StreamTypes, Sub
<1>2. Head(sub.buf) = sub.buf[1] /\ 1 \in 1..Len(sub.buf) /\ sub.buf[1] \in Pos  BY <1>1
<1>3. BufferOK  BY DEF StreamInv, Resuming
<1>4. ASSUME NEW x \in Pos, client.base < x, x <= Head(sub.buf) - 1 PROVE Settled(x)
  <2>1. x < sub.buf[1]  BY <1>2, <1>4
  <2>2. ~Ahead(x) /\ ~Buffered(x, 1 - 1)  BY DEF Ahead, Buffered
  <2>. QED  BY <1>2, <1>3, <1>4, <2>1, <2>2 DEF BufferOK
<1>. QED  BY <1>2, <1>4 DEF Covered

LEMMA TailKeeps ==
  ASSUME StreamInv, stream.pc \in {"drain", "live"}, sub.buf # << >>,
         sub' = [sub EXCEPT !.buf = Tail(sub.buf)],
         client'.base = client.base,
         NEW h \in Pos, h = Head(sub.buf), Settled(h)', \A x : Settled(x) => Settled(x)',
         UNCHANGED sent
  PROVE  sub' \in Sub /\ Announced(sub)' /\ BufferOK' /\ OpenOK'
<1>0. sub \in Sub  BY DEF StreamInv, StreamTypes
<1>1. sub.buf \in Seq(Pos)  BY <1>0 DEF Sub
<1>2. sub'.buf = Tail(sub.buf) /\ sub'.open = sub.open  BY <1>0 DEF Sub
<1>3. PICK L \in Nat : L + 1 = Len(sub.buf)
  <2>1. Len(sub.buf) \in Nat /\ Len(sub.buf) # 0  BY <1>1
  <2>2. Len(sub.buf) - 1 \in Nat /\ (Len(sub.buf) - 1) + 1 = Len(sub.buf)  BY <2>1
  <2>. QED  BY <2>2
<1>4. Len(sub'.buf) = L /\ Head(sub.buf) = sub.buf[1]
      /\ \A i \in 1..L : sub'.buf[i] = sub.buf[i + 1] /\ i + 1 \in 1..(L + 1)
  <2>0. Head(sub.buf) = sub.buf[1]  BY <1>1
  <2>1. Len(Tail(sub.buf)) = Len(sub.buf) - 1  BY <1>1, HeadTailProperties
  <2>2. Len(Tail(sub.buf)) = L  BY <1>3, <2>1
  <2>4. \A i \in 1..Len(Tail(sub.buf)) : Tail(sub.buf)[i] = sub.buf[i + 1]
    BY <1>1, HeadTailProperties
  <2>3. \A i \in 1..L : i + 1 \in 1..(L + 1)  OBVIOUS
  <2>. QED  BY <1>2, <2>0, <2>2, <2>3, <2>4
<1>5. Tail(sub.buf) \in Seq(Pos)  BY <1>1
<1>6. sub' \in Sub  BY <1>0, <1>5 DEF Sub
<1>7. Announced(sub)'  BY <1>3, <1>4 DEF Announced, StreamInv
<1>8. BufferOK /\ OpenOK  BY DEF StreamInv, Resuming
<1>9. \A x : ~Ahead(x)  BY DEF Ahead
<1>10. ASSUME NEW x, NEW n \in 0..L, Buffered(x, n + 1) PROVE Settled(x)' \/ Buffered(x, n)'
  <2>1. PICK j \in 1..(n + 1) : sub.buf[j] = x  BY <1>10 DEF Buffered
  <2>2. CASE j = 1  BY <1>4, <2>1, <2>2
  <2>3. CASE j # 1
    <3>1. j - 1 \in 1..n /\ j - 1 \in 1..L /\ (j - 1) + 1 = j  BY <2>3
    <3>2. sub'.buf[j - 1] = x  BY <1>4, <2>1, <3>1
    <3>. QED  BY <3>1, <3>2 DEF Buffered
  <2>. QED  BY <2>2, <2>3
<1>11. ASSUME NEW i \in 1..L, NEW x \in Pos, client.base < x, x < sub'.buf[i]
       PROVE  Settled(x)' \/ Buffered(x, i - 1)'
  <2>1. x < sub.buf[i + 1] /\ i + 1 \in 1..Len(sub.buf)  BY <1>3, <1>4, <1>11
  <2>2. Settled(x) \/ Buffered(x, (i + 1) - 1)  BY <1>8, <1>9, <1>11, <2>1 DEF BufferOK
  <2>3. i - 1 \in 0..L /\ (i - 1) + 1 = (i + 1) - 1  OBVIOUS
  <2>4. Buffered(x, (i - 1) + 1) => Settled(x)' \/ Buffered(x, i - 1)'  BY <1>10, <2>3
  <2>. QED  BY <2>2, <2>3, <2>4
<1>12. BufferOK'  BY <1>4, <1>11 DEF BufferOK
<1>13. ASSUME sub.open, NEW x \in Pos, client.base < x, x <= sent
       PROVE  Settled(x)' \/ Buffered(x, L)'
  <2>1. Settled(x) \/ Buffered(x, L + 1)  BY <1>3, <1>8, <1>9, <1>13 DEF OpenOK
  <2>2. L \in 0..L  OBVIOUS
  <2>. QED  BY <1>10, <2>1, <2>2
<1>14. OpenOK'  BY <1>2, <1>4, <1>13 DEF OpenOK
<1>. QED  BY <1>6, <1>7, <1>12, <1>14

(* The head of the buffer is processed, in the drain or live. *)
LEMMA TakeKeeps ==
  ASSUME StreamInv, stream.pc \in {"drain", "live"}, sub.buf # << >>,
         sub' = [sub EXCEPT !.buf = Tail(sub.buf)],
         stream' = [stream EXCEPT !.last = Head(sub.buf)],
         client' = Process(Head(sub.buf)),
         UNCHANGED <<stored, sent, evicted>>
  PROVE  StreamInv'
<1>1. PICK h \in Pos : h = Head(sub.buf) /\ Covered(h - 1)  BY HeadIsNext
<1>2. /\ client' \in Client
      /\ client'.cursor = h /\ client'.base = client.base /\ client'.stale = client.stale
      /\ client'.got = client.got \cup {h}
      /\ Settled(h)' /\ \A x : Settled(x) => Settled(x)'
      /\ Covered(h)' /\ \A n : Covered(n) => Covered(n)'
  BY <1>1, ProcessKeeps
<1>3. sub' \in Sub /\ Announced(sub)' /\ BufferOK' /\ OpenOK'  BY <1>1, <1>2, TailKeeps
<1>4. stream \in Stream  BY DEF StreamInv, StreamTypes
<1>5. stream' \in Stream  BY <1>1, <1>4 DEF Stream
<1>6. stream'.pc = stream.pc /\ stream'.last = h /\ stream'.seen = stream.seen
      /\ stream'.current = stream.current
  BY <1>1, <1>4 DEF Stream
<1>7. StreamTypes'  BY <1>2, <1>3, <1>5 DEF StreamInv, StreamTypes
<1>8. h # None  OBVIOUS
<1>9. ClientOK'  BY <1>2 DEF ClientOK
<1>10. HandlerOK'
  <2>1. ~client.stale /\ ~stream.current /\ stream.seen \subseteq client.got
    BY DEF StreamInv, HandlerOK, Resuming
  <2>2. Covered(stream.last)'  BY <1>2, <1>6
  <2>. QED  BY <1>2, <1>6, <1>8, <2>1, <2>2 DEF HandlerOK, Resuming
<1>. QED  BY <1>3, <1>7, <1>9, <1>10 DEF StreamInv

LEMMA LiveKeeps ==
  ASSUME StreamInv, LiveEvent PROVE StreamInv'
BY TakeKeeps DEF LiveEvent

(* What the replay has sent is in the buffer a second time: it is skipped. *)
LEMMA DrainKeeps ==
  ASSUME StreamInv, DrainEvent PROVE StreamInv'
<1>. USE DEF DrainEvent
<1>1. CASE ~Skipped(Head(sub.buf))  BY <1>1, TakeKeeps
<1>2. CASE Skipped(Head(sub.buf))
  <2>. USE <1>2 DEF StreamInv
  <2>1. client' = client /\ stream' = stream  OBVIOUS
  <2>2. Head(sub.buf) \in client.got  BY DEF Skipped, HandlerOK, Resuming
  <2>3. sub' \in Sub /\ Announced(sub)' /\ BufferOK' /\ OpenOK'
    <3>0. PICK h \in Pos : h = Head(sub.buf)  BY HeadIsNext
    <3>1. Settled(h)' /\ \A x : Settled(x) => Settled(x)'  BY <2>1, <2>2, <3>0 DEF Settled
    <3>2. UNCHANGED sent /\ client'.base = client.base  BY <2>1
    <3>. QED  BY <2>1, <3>0, <3>1, <3>2, TailKeeps
  <2>4. StreamTypes'  BY <2>1, <2>3 DEF StreamTypes
  <2>5. \A n : Covered(n)' <=> Covered(n)  BY <2>1, Unread
  <2>6. ClientOK'  BY <2>1, <2>5 DEF ClientOK
  <2>7. HandlerOK'  BY <2>1, <2>5 DEF HandlerOK, Resuming
  <2>. QED  BY <2>3, <2>4, <2>6, <2>7
<1>. QED  BY <1>1, <1>2

(* The handler goes on from the drain to the live phase.  Everything up to *)
(* a marker that the client takes for its cursor is settled by that.        *)
LEMMA PhaseKeeps ==
  ASSUME StreamInv, stream.pc \in {"drain", "marker"},
         \/ stream' = [stream EXCEPT !.pc = "marker", !.resume = None]
         \/ stream' = [stream EXCEPT !.pc = "live"],
         UNCHANGED <<stored, sent, evicted, sub>>,
         client' \in Client, client'.base = client.base, client'.stale = client.stale,
         client'.got = client.got, client.skipped \subseteq client'.skipped,
         Covered(client.cursor)'
  PROVE  StreamInv'
<1>. USE DEF StreamInv
<1>0. stream \in Stream  BY DEF StreamTypes
<1>1. stream' \in Stream  BY <1>0 DEF Stream
<1>2. StreamTypes' /\ Announced(sub)'  BY <1>1 DEF StreamTypes, Announced
<1>3. stream'.pc \in {"marker", "live"} /\ stream'.seen = stream.seen
      /\ stream'.current = stream.current /\ stream'.last = stream.last
  BY <1>0 DEF Stream
<1>4. \A e : Settled(e) => Settled(e)'  BY DEF Settled
<1>5. \A n : Covered(n) => Covered(n)'  BY <1>4, CoveredStays
<1>6. ClientOK'  BY DEF ClientOK
<1>7. HandlerOK'  BY <1>3, <1>5 DEF HandlerOK, Resuming
<1>8. BufferOK /\ OpenOK /\ \A x : ~Ahead(x)  BY DEF Resuming, Ahead
<1>9. BufferOK' /\ OpenOK'  BY <1>4, <1>8 DEF BufferOK, OpenOK, Buffered
<1>. QED  BY <1>2, <1>6, <1>7, <1>9

LEMMA DrainEndsKeeps ==
  ASSUME StreamInv, DrainEnds PROVE StreamInv'
<1>. USE DEF DrainEnds
<1>1. client \in Client /\ UNCHANGED client  BY DEF StreamInv, StreamTypes
<1>2. Covered(client.cursor)
  BY DEF StreamInv, ClientOK, HandlerOK, Resuming
<1>3. Covered(client.cursor)'  BY <1>1, <1>2, Unread
<1>. QED  BY <1>1, <1>3, PhaseKeeps

LEMMA MarkerKeeps ==
  ASSUME StreamInv, SendLiveMarker PROVE StreamInv'
<1>. USE DEF SendLiveMarker
<1>0. client \in Client /\ stored \in Nat  BY DEF StreamInv, StreamTypes
<1>1. CASE UNCHANGED client
  <2>1. Covered(client.cursor)  BY DEF StreamInv, ClientOK, HandlerOK, Resuming
  <2>2. Covered(client.cursor)'  BY <1>1, <2>1, Unread
  <2>. QED  BY <1>0, <1>1, <2>2, PhaseKeeps
<1>2. CASE ~UNCHANGED client
  <2>1. PICK m \in 0..stored :
          client' = [client EXCEPT !.cursor = m,
                                   !.skipped = client.skipped \cup (((client.base + 1)..m) \ client.got)]
    BY <1>2
  <2>. HIDE DEF SendLiveMarker
  <2>8. PICK b \in Nat : b = client.base  BY <1>0 DEF Client
  <2>2. m \in Nat  BY <1>0
  <2>3. ((client.base + 1)..m) \ client.got \in SUBSET Pos
    <3>1. ((b + 1)..m) \subseteq Pos  BY <2>2
    <3>. QED  BY <2>8, <3>1
  <2>4. client' \in Client  BY <1>0, <2>1, <2>2, <2>3 DEF Client
  <2>5. client'.base = client.base /\ client'.stale = client.stale /\ client'.got = client.got
        /\ client'.cursor = m
        /\ client'.skipped = client.skipped \cup (((client.base + 1)..m) \ client.got)
    BY <1>0, <2>1 DEF Client
  <2>6. Covered(m)'
    <3>. SUFFICES ASSUME NEW e \in Pos, client.base < e, e <= m PROVE Settled(e)'
      BY <2>5 DEF Covered
    <3>1. e \in (client.base + 1)..m  BY <2>2, <2>8
    <3>. QED  BY <2>5, <3>1 DEF Settled
  <2>7. Covered(client.cursor)'  BY <2>5, <2>6
  <2>. QED  BY <2>4, <2>5, <2>7, PhaseKeeps DEF SendLiveMarker
<1>. QED  BY <1>1, <1>2

-----------------------------------------------------------------------------
LEMMA NextInv ==
  ASSUME StreamInv, [Next]_vars PROVE StreamInv'
<1>1. CASE StoreEvents  BY <1>1, StoreKeeps
<1>2. CASE \E k \in Events : EvictOutboxEventsBefore(k)  BY <1>2, EvictKeeps
<1>3. CASE \E k \in Events : AnnounceEvent(k)  BY <1>3, AnnounceKeeps
<1>4. CASE SubscribeEvents  BY <1>4, SubscribeEventsKeeps
<1>5. CASE StreamEnds  BY <1>5, StreamEndsKeeps
<1>6. CASE Handle
  <2>1. CASE Subscribe  BY <2>1, SubscribeKeeps
  <2>2. CASE CaptureBoundary  BY <2>2, BoundaryKeeps
  <2>3. CASE StreamAdminCurrentState  BY <2>3, SnapshotKeeps
  <2>4. CASE ListOutboxEvents  BY <2>4, ListKeeps
  <2>5. CASE Invalidate  BY <2>5, InvalidateKeeps
  <2>6. CASE ReplayEvent  BY <2>6, ReplayKeeps
  <2>7. CASE SlowConsumer  BY <2>7, SlowConsumerKeeps
  <2>8. CASE DrainEvent  BY <2>8, DrainKeeps
  <2>9. CASE DrainEnds  BY <2>9, DrainEndsKeeps
  <2>10. CASE SendLiveMarker  BY <2>10, MarkerKeeps
  <2>11. CASE LiveEvent  BY <2>11, LiveKeeps
  <2>. QED  BY <1>6, <2>1, <2>2, <2>3, <2>4, <2>5, <2>6, <2>7, <2>8, <2>9, <2>10, <2>11, Zenon DEF Handle
<1>7. CASE UNCHANGED vars
  BY <1>7 DEF vars, StreamInv, StreamTypes, Announced, ClientOK, HandlerOK, Covered, Resuming,
              BufferOK, OpenOK, Buffered, Ahead, PageOK, Settled
<1>. QED  BY <1>1, <1>2, <1>3, <1>4, <1>5, <1>6, <1>7, Zenon DEF Next

(* No client has a gap before the cursor it would resume from, but for     *)
(* rows that were deleted and events it passed over itself by taking a     *)
(* live marker for its cursor, whatever the sizes of the buffer and the    *)
(* page and however often the channel overflows, rows are evicted and      *)
(* streams break (SubscribeEvents, streamLoop, ListOutboxEvents).          *)
THEOREM NoGapBeforeCursor == Spec => []NoSilentGap
<1>1. Init => StreamInv  BY InitInv
<1>2. StreamInv /\ [Next]_vars => StreamInv'  BY NextInv
<1>3. StreamInv => NoSilentGap
  <2>. SUFFICES ASSUME StreamInv, ~client.stale, NEW e \in (client.base + 1)..client.cursor
                PROVE  Settled(e)
    BY DEF NoSilentGap
  <2>1. client.cursor \in Nat /\ client.base \in Nat /\ Covered(client.cursor)
    BY DEF StreamInv, StreamTypes, Client, ClientOK
  <2>2. e \in Pos /\ client.base < e /\ e <= client.cursor  BY <2>1
  <2>. QED  BY <2>1, <2>2 DEF Covered
<1>. QED  BY <1>1, <1>2, <1>3, PTL DEF Spec
=============================================================================
