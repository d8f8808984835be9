------------------------------ MODULE MCRouter ------------------------------
(* Router for TLC: two requests over services B and C, with the operations, *)
(* capabilities and priorities that the registry's defaults give them, and  *)
(* the breakers of both cut down to one failure and one tick.  Service B    *)
(* has adapters for both versions, C for the first alone.                   *)
EXTENDS Router, TLC

CONSTANTS b, c, r1, r2, r3, none

MCServices == {b, c}
MCRequests == {r1, r2}
MCVersions == {1, 2}
MCOperations == {"sum", "unknown"}
Wants(op, service, version) ==
    [operation |-> op, preferred_service |-> service,
     version_preference |-> version]
\* The code that the router compares, and one that it also gives itself.
MCAdapterCodes == {"PROTOCOL_VALIDATION_ERROR", "BACKEND_UNAVAILABLE"}
MCAsks == {Wants("sum", none, none), Wants("sum", b, 2),
           Wants("unknown", none, none)}
MCCapable == "sum" :> {b, c} @@ "unknown" :> {}
MCServed == b :> {1, 2} @@ c :> {1}
MCActiveVersion == b :> 1 @@ c :> 1
MCDefaultPriority == b :> 20 @@ c :> 30
MCOperationPriority == <<"sum", c>> :> 10 @@ <<"sum", b>> :> 20
MCIdOrder == b :> 2 @@ c :> 3

\* Three requests for one backend: to trip its breaker, probe it, be refused.
MCSoloServices == {b}
MCSoloRequests == {r1, r2, r3}
MCSoloOperations == {"reverse"}
MCSoloAsks == {Wants("reverse", none, none)}
MCSoloCapable == "reverse" :> {b}
MCSoloServed == b :> {1, 2}
MCSoloActiveVersion == b :> 1
MCSoloDefaultPriority == b :> 20
MCSoloOperationPriority == <<"sum", b>> :> 20
MCSoloIdOrder == b :> 2
=============================================================================
