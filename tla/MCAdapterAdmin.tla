--------------------------- MODULE MCAdapterAdmin ---------------------------
(* AdapterAdmin for TLC: two versions of one service, the built-in adapter  *)
(* and the plugins p1 and p2, and at most two of each kind of caller.       *)
EXTENDS AdapterAdmin, TLC

CONSTANTS p1, p2, builtin, none, l1, l2, m1, m2, u1, u2

MCVersions == {1, 2}
MCThreeVersions == {1, 2, 3}
MCNobody == {}
MCOnePlugin == {p1}
MCPlugins == {p1, p2}
MCOneLoad == {l1}
MCLoads == {l1, l2}
MCMigrations == {m1, m2}
MCOneUser == {u1}
MCUsers == {u1, u2}

\* For instances without liveness.
CallerSymmetry == Permutations(MCMigrations) \cup Permutations(MCUsers)
=============================================================================
