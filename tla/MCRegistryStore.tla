-------------------------- MODULE MCRegistryStore ---------------------------
(* RegistryStore for TLC: one service registered by default, one that may be *)
(* registered later.                                                        *)
EXTENDS RegistryStore

CONSTANTS s1, s2, m1

MCServices == {s1, s2}
MCStatuses == {"available", "unavailable"}
MCVersions == {"1", "2"}
MCMetas == {m1}
MCDefaults ==
    [s \in MCServices |->
       IF s = s1 THEN [status |-> "available", version |-> "1", meta |-> m1]
       ELSE NoEntry]
=============================================================================
