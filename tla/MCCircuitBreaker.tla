------------------------- MODULE MCCircuitBreaker --------------------------
(* Small instances of CircuitBreaker for TLC.                              *)
EXTENDS CircuitBreaker
=============================================================================
