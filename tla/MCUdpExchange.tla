--------------------------- MODULE MCUdpExchange ----------------------------
(* UdpExchange for TLC.                                                     *)
EXTENDS UdpExchange, TLC

CONSTANTS x1, x2

MCTwo == {x1, x2}
=============================================================================
