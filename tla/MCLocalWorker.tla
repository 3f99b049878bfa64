---------------------------- MODULE MCLocalWorker ----------------------------
(* Instances of the process runtime for TLC: one task, by capability. *)
EXTENDS LocalWorkerProperties

CONSTANTS w1, w2, t1

ByCapability == [w \in Workers |-> [t \in Tasks |-> "capability"]]
One == [w \in Workers |-> 1]
Two == [w \in Workers |-> 2]
Simple == [planned: {FALSE}, chat: {FALSE}, priority: {0}]

=============================================================================
