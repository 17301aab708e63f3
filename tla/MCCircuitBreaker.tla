-------------------------- MODULE MCCircuitBreaker --------------------------
(* Three users of one adapter; two of them (orders, balance) count their     *)
(* time-outs, the third is the late-ccld query.  Two failures open the       *)
(* breaker, so that the third caller's late answer meets an OPEN breaker.    *)
EXTENDS CircuitBreaker

CONSTANTS order, balance, ccld
=============================================================================
