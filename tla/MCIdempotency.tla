---------------------------- MODULE MCIdempotency ----------------------------
(***************************************************************************)
(* Instances of Idempotency: attempts that all carry one key.  Attempts of *)
(* another key would share nothing with them but the step of a crash.      *)
(***************************************************************************)
EXTENDS Idempotency, TLC

CONSTANTS a1, a2, a3, a4, k1

OneKey == [r \in Attempt |-> k1]

(* Attempts with one key are interchangeable.                               *)
Repeats == Permutations(Attempt)
=============================================================================
