------------------------------ MODULE MCPipeline ------------------------------
(* A beacon of a registered host, one whose page does not parse, and one whose *)
(* form does not; the process ends once by itself and once by a page.          *)
EXTENDS Pipeline

CONSTANTS good, bad, torn, h1, i1, empty

MCEvent == {good, bad, torn}
MCHostname == {h1}
MCTime == {1}
MCHostnameOf == [e \in MCEvent |-> h1]
MCCreatedAt == [e \in MCEvent |-> 1]
MCParses == {good, torn}
MCWellFormed == {good, bad}
MCSubscriptionOf == [e \in MCEvent |-> IF e = good THEN i1 ELSE empty]
MCRegistered == {<<i1, h1>>}
=============================================================================
