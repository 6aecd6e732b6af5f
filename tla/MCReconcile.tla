----------------------------- MODULE MCReconcile -----------------------------
(***************************************************************************)
(* Instances of Reconcile: a few requests and discrepancies, and the two   *)
(* resolutions that differ in what they do ("fixed_input" takes the        *)
(* path of "accepted_as_is").                                              *)
(***************************************************************************)
EXTENDS Reconcile

BothPaths == {"accepted_as_is", "adjusted"}
=============================================================================
