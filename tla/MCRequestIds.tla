---------------------------- MODULE MCRequestIds ----------------------------
(* RequestIds for TLC.                                                      *)
EXTENDS RequestIds, TLC

CONSTANTS t1, t2

MCThreads == {t1, t2}
MCSymmetry == Permutations(MCThreads)
=============================================================================
