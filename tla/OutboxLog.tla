----------------------------- MODULE OutboxLog -----------------------------
(***************************************************************************)
(* What the transactional outbox promises its readers.  Events are named   *)
(* by their position in commit order.  An event is first stored under its  *)
(* cursor, in commit order, and only then announced; announcements may be  *)
(* repeated, but none is skipped.                                          *)
(***************************************************************************)
EXTENDS Integers

VARIABLES
    stored,    \* events 1 .. stored have a cursor and can be replayed
    sent,      \* events 1 .. sent have been announced at least once
    emitted    \* the event announced last, 0 when there is none

logVars == <<stored, sent, emitted>>

LogInit == stored = 0 /\ sent = 0 /\ emitted = 0

(* The events of one transaction get their cursors together. *)
Store ==
    /\ stored' \in Nat /\ stored' > stored
    /\ UNCHANGED <<sent, emitted>>

(* An announcement, new or repeated: never of an event that cannot be      *)
(* replayed, and never past one that was not announced.                    *)
Announce(k) ==
    /\ k <= stored /\ k <= sent + 1
    /\ sent' = IF k > sent THEN k ELSE sent
    /\ emitted' = k
    /\ UNCHANGED stored

LogNext == Store \/ \E k \in 1..stored : Announce(k)

LogSpec == LogInit /\ [][LogNext]_logVars
=============================================================================
