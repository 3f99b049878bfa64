--------------------------- MODULE TaskLifecycle ---------------------------
(***************************************************************************)
(* What the orchestrator promises about a task, whatever the coordinator   *)
(* stores and whenever it sweeps: a task is submitted once, held by at     *)
(* most one worker at a time under ever newer claims, given back while     *)
(* attempts are left, and settled once, with its notification.             *)
(*                                                                         *)
(* One transaction of the store may move many tasks, and one task through  *)
(* two stages at once (a lapsed claim is given up and granted again), so a *)
(* step lets every task make one of the moves below, or none.              *)
(***************************************************************************)
EXTENDS Integers

CONSTANTS Tasks, Workers, NoWorker, MaxAttempts

VARIABLE life

Stages == {"none", "planning", "queued", "held", "unsure", "settled"}

Outcomes == {"succeeded", "failed", "cancelled", "timed_out"}

Life == [
    stage: Stages,
    attempt: 0..MaxAttempts,
    claim: Nat,                           \* claims granted so far
    holder: Workers \cup {NoWorker},      \* who holds it, or knows its run
    outcome: Outcomes \cup {"open"},
    chat: BOOLEAN,                        \* someone waits to be told
    told: BOOLEAN]                        \* the notification is in the outbox

NoLife == [stage |-> "none", attempt |-> 0, claim |-> 0, holder |-> NoWorker,
           outcome |-> "open", chat |-> FALSE, told |-> FALSE]

Submit(x, y) ==
    /\ x = NoLife
    /\ y.stage \in {"planning", "queued"}
    /\ y = [NoLife EXCEPT !.stage = y.stage, !.chat = y.chat]

Plan(x, y) ==
    /\ x.stage = "planning"
    /\ y = [x EXCEPT !.stage = "queued"]

\* A new attempt, for any worker: from the queue, or straight from the hands of
\* a worker whose claim lapsed.
Grant(x, y) ==
    /\ x.stage \in {"queued", "held"}
    /\ x.attempt < MaxAttempts
    /\ y.holder \in Workers
    /\ y = [x EXCEPT !.stage = "held", !.holder = y.holder,
                     !.attempt = x.attempt + 1, !.claim = x.claim + 1]

\* The same attempt again, for the worker that knows its remote run.
Regrant(x, y) ==
    /\ x.stage \in {"held", "unsure"}
    /\ x.holder \in Workers
    /\ y = [x EXCEPT !.stage = "held", !.claim = x.claim + 1]

GiveBack(x, y) ==
    /\ x.stage = "held"
    /\ x.attempt < MaxAttempts
    /\ y = [x EXCEPT !.stage = "queued", !.holder = NoWorker]

LoseSight(x, y) ==
    /\ x.stage = "held"
    /\ y = [x EXCEPT !.stage = "unsure"]

Settle(x, y) ==
    /\ x.stage \notin {"none", "settled"}
    /\ y.outcome \in Outcomes
    /\ y = [x EXCEPT !.stage = "settled", !.outcome = y.outcome, !.told = x.chat]

Move(x, y) ==
    \/ Submit(x, y) \/ Plan(x, y) \/ Grant(x, y) \/ Regrant(x, y)
    \/ GiveBack(x, y) \/ LoseSight(x, y) \/ Settle(x, y)

Init == life = [t \in Tasks |-> NoLife]

Next ==
    /\ life' \in [Tasks -> Life]
    /\ \A t \in Tasks : life'[t] = life[t] \/ Move(life[t], life'[t])

Spec == Init /\ [][Next]_life

=============================================================================
