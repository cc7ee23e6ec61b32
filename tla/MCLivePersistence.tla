-------------------------- MODULE MCLivePersistence --------------------------
(* A cache, its journals and the broker over a few runs.                   *)
EXTENDS LivePersistence

CONSTANT name

OneName == {name}
=============================================================================
