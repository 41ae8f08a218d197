---------------------------- MODULE MCActivation ----------------------------
(* The activation, on top of the steps of one attempt and the operator's. *)
EXTENDS Activation

=============================================================================
