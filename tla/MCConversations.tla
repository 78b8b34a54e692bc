-------------------------- MODULE MCConversations --------------------------
(* Instances of Conversations for TLC. *)
EXTENDS Conversations, TLC

CONSTANTS c1, c2, c3, c4, batch, single, sync, other

Item(s, b) == [seq |-> s, body |-> b]

(* A batch whose first entry has no sequence, a request that reuses the     *)
(* batch's sequence, a sync, and an unsequenced append to a second          *)
(* conversation.                                                            *)
MCRequest ==
    [o \in Ops |->
       CASE o = batch  -> [kind |-> "append", conv |-> c1, items |-> <<Item(None, "a"), Item(1, "b")>>]
         [] o = single -> [kind |-> "append", conv |-> c1, items |-> <<Item(1, "b")>>]
         [] o = sync   -> [kind |-> "sync", conv |-> c1, items |-> <<Item(None, "c")>>]
         [] o = other  -> [kind |-> "append", conv |-> c2,
                           items |-> <<Item(None, "d"), Item(None, "e")>>]]

(* Sent twice at most, so that an attempt meets its retry. *)
Once == [o \in Ops |-> 1]
TwiceBatch == [o \in Ops |-> IF o = batch THEN 2 ELSE 1]

(* What forks show does not depend on the histories of acknowledgements. *)
NoHistory == <<convs, groups, archived, log, sent, handler>>

(* No request names c3 or c4. *)
ForkPerms == Permutations({c3, c4})
Perms == Permutations(Handlers) \cup Permutations(Groups)
=============================================================================
