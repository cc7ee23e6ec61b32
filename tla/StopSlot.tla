------------------------------ MODULE StopSlot ------------------------------
(***************************************************************************)
(* What place_crypto_stop_limit and replace_crypto_stop_limit promise of   *)
(* one symbol, seen from outside: there is one slot for a protective stop, *)
(* a stop is put into it only when it is empty, and a call says            *)
(* "protected" only in the step that puts one there.                       *)
(***************************************************************************)
EXTENDS FiniteSets

CONSTANT Ids

VARIABLES
    live,  \* the stops the broker may still execute
    claim  \* what the last replace call said

svars == <<live, claim>>

Claims == {"none", "protected", "unprotected"}

Init == live = {} /\ claim = "none"

\* A stop enters the empty slot; its caller need not learn of it.
Put(s) == live = {} /\ live' = {s} /\ claim' \in Claims

\* The stop fills, is refused or goes away.
Leave == live' = {} /\ UNCHANGED claim

\* A call begins, or ends without having put a stop.
Say == UNCHANGED live /\ claim' \in Claims \ {"protected"}

Next == Leave \/ Say \/ \E s \in Ids : Put(s)

Spec == Init /\ [][Next]_svars
=============================================================================
