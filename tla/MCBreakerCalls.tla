--------------------------- MODULE MCBreakerCalls ---------------------------
(* The instance of BreakerCalls for TLC: its constants are model values and *)
(* numbers, given in Breaker.cfg. *)
EXTENDS BreakerCalls
=============================================================================
