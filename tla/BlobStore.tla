----------------------------- MODULE BlobStore -----------------------------
(***************************************************************************)
(* What the attachment subsystem promises about stored content, with the   *)
(* task table, the transactions and the workers left out: a blob appears   *)
(* once, it may be referenced only while it exists, and it is removed only *)
(* while nothing references it.  A removed key never comes back.           *)
(***************************************************************************)
CONSTANTS Atts, Keys, NoKey

VARIABLES
    blobs,      \* the keys whose content the provider holds
    usedKeys,   \* every key the provider ever handed out
    refs        \* refs[a] = the key attachment a references, or NoKey

vars == <<blobs, usedKeys, refs>>

Init == /\ blobs = {}
        /\ usedKeys = {}
        /\ refs = [a \in Atts |-> NoKey]

(* The provider stores new content under a key it never used before. *)
Put(k) == /\ k \notin usedKeys
          /\ blobs' = blobs \cup {k}
          /\ usedKeys' = usedKeys \cup {k}
          /\ UNCHANGED refs

(* Attachment a starts to reference content that exists. *)
Reference(a, k) == /\ refs[a] = NoKey
                   /\ k \in blobs
                   /\ refs' = [refs EXCEPT ![a] = k]
                   /\ UNCHANGED <<blobs, usedKeys>>

Unreference(a) == /\ refs[a] # NoKey
                  /\ refs' = [refs EXCEPT ![a] = NoKey]
                  /\ UNCHANGED <<blobs, usedKeys>>

(* Content goes away only when no attachment references it. *)
Remove(k) == /\ k \in blobs
             /\ \A a \in Atts : refs[a] # k
             /\ blobs' = blobs \ {k}
             /\ UNCHANGED <<usedKeys, refs>>

Next == \/ \E k \in Keys : Put(k) \/ Remove(k)
        \/ \E a \in Atts : Unreference(a) \/ \E k \in Keys : Reference(a, k)

Spec == Init /\ [][Next]_vars
=============================================================================
