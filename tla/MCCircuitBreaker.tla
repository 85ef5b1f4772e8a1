-------------------------- MODULE MCCircuitBreaker --------------------------
(* Small instances of CircuitBreaker. *)
EXTENDS CircuitBreaker, TLC

RequestSymmetry == Permutations(Request)
=============================================================================
