--------------------------- MODULE MCGatewayWorker ---------------------------
(* Instances of the gateway worker for TLC: one task, reached by a route. *)
EXTENDS GatewayWorkerProperties, TLC

CONSTANTS w1, w2, t1, r1, r2

OneRoute == [w \in Workers |-> [t \in Tasks |-> "route"]]
One == [w \in Workers |-> 1]
Two == [w \in Workers |-> 2]
Simple == [planned: {FALSE}, chat: {FALSE}, priority: {0}]

SymmetricRuns == Permutations({r1, r2})
Symmetric == SymmetricRuns \cup Permutations({w1, w2})

=============================================================================
