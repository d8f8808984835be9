-------------------------- MODULE MCBreakerCallers --------------------------
(* BreakerCallers for TLC: three requests share a breaker that opens after  *)
(* three failures and cools for two ticks, so that a late outcome of either *)
(* kind can reach it in every state, and two together can.                  *)
EXTENDS BreakerCallers

CONSTANTS c1, c2, c3

MCCallers == {c1, c2, c3}
=============================================================================
