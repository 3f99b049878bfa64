---------------------------- MODULE MCTaskStore ----------------------------
(* Instances of the task store for TLC. *)
EXTENDS TaskStoreProperties, TLC

CONSTANTS w1, w2, t1, t2, r1, r2

\* One task, every feature: both workers reach it through a gateway route.
DeepRoutes == [w \in Workers |-> [t \in {t1} |-> "route"]]
DeepCapacity == [w \in Workers |-> 1]
DeepRequests == [planned: {FALSE}, chat: BOOLEAN, priority: {0}]
AllRequests == [planned: BOOLEAN, chat: BOOLEAN, priority: {0}]

\* Two tasks for one worker that may hold one at a time; it reaches t1
\* through a gateway route and t2 through its own capabilities.
PairRoutes == [w \in Workers |-> (t1 :> "route" @@ t2 :> "capability")]
PairCapacity == [w \in Workers |-> 1]
PlainRequests == [planned: {FALSE}, chat: {FALSE}, priority: {0}]

Symmetric == Permutations({w1, w2}) \cup Permutations({r1, r2})

=============================================================================
