---------------------------- MODULE MCStreamCall ----------------------------
(* StreamCall for TLC: one call of Service A and one of Service B.          *)
EXTENDS StreamCall

CONSTANTS a1, b1

MCHttpCalls == {a1}
MCTcpCalls == {b1}
=============================================================================
