--------------------------- MODULE MCBreakerCalls ---------------------------
(* Instances of BreakerCalls for TLC: three goroutines, as model values.    *)
EXTENDS BreakerCalls

CONSTANTS c1, c2, c3

MCCaller == {c1, c2, c3}
=============================================================================
