-------------------------- MODULE MCCarePrecompute --------------------------
(* The nights of the small instance: one closes, the other stays open. *)
EXTENDS CarePrecompute

Nights == {1}
=============================================================================
