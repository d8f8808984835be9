---------------------------- MODULE MCPluginCall ----------------------------
(* PluginCall for TLC.                                                      *)
EXTENDS PluginCall, TLC

CONSTANTS p1, p2

MCTwo == {p1, p2}
=============================================================================
