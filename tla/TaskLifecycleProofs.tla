------------------------ MODULE TaskLifecycleProofs ------------------------
(***************************************************************************)
(* The store implements the lifecycle it promises: ImplementsLifecycle of  *)
(* TaskStoreProperties, proved for all values of the constants.            *)
(*                                                                         *)
(* The mapping sees a row through View.  Moved of TaskStoreStepProofs says *)
(* what a step makes of a row; here each of these is a move of the view,   *)
(* or leaves the view alone.                                               *)
(***************************************************************************)
EXTENDS TaskStoreStepProofs

USE DEF Terminal, Active

-----------------------------------------------------------------------------
(* Rows that are not there yet *)

\* A row that was never created has no history.
Unborn(r) ==
    r.status = "absent" =>
        r.claim.issued = <<>> /\ r.claim.by = NoWorker /\ r.origin.chat = FALSE

\* What IInv lacks for the mapping.
LInv == \A t \in Tasks : Unborn(tasks[t])

\* A created row has the parts of a row that is not there, but for its origin.
LEMMA CreatedParts ==
    ASSUME NEW q, NEW rank
    PROVE  LET s == Created(q, rank) IN
           /\ s.status \in {"planning_pending", "pending"}
           /\ s.origin.chat = q.chat /\ s.attempt.count = 0
           /\ s.claim.issued = <<>> /\ s.claim.by = NoWorker
BY DEF Created, Absent

\* No step makes a row absent.
LEMMA MovedUnborn ==
    ASSUME NEW r, RowInv(r), Unborn(r), NEW s, Moved(r, s)
    PROVE  Unborn(s)
<1> SUFFICES ASSUME s.status = "absent"
             PROVE  s.claim.issued = <<>> /\ s.claim.by = NoWorker /\ s.origin.chat = FALSE
  BY DEF Unborn
<1>1. CASE s.status = r.status /\ SameTask(r, s) /\ SameClaim(r, s)
  BY <1>1 DEF Unborn, SameTask, SameClaim
<1>2. CASE WasStated(r, s)
  BY <1>1, <1>2, CreatedParts DEF WasStated
<1>3. ASSUME NEW m, m = r \/ (r.status \in Active /\ Swept(r, m)) \/ Kept(r, m),
             s = m \/ Effect(m, s) \/ WasPlanned(m, s)
      PROVE  s = r \/ (s.status = r.status /\ SameTask(r, s) /\ SameClaim(r, s))
  <2>1. s.status = m.status /\ (s = m \/ WentOn(m, s))
    BY <1>3 DEF Effect, HolderEffect, WentOn, WasGranted, WasAttached, WasParked, WasReported, WasPlanned
  <2>2. m = r
    BY <1>3, <2>1 DEF Swept, Kept
  <2> QED
    BY <2>1, <2>2 DEF WentOn
<1>4. CASE s = r
  BY <1>4 DEF Unborn
<1> QED
  BY <1>1, <1>2, <1>3, <1>4, Zenon DEF Moved

\* LInv holds in every state.
LEMMA UnbornAlways == Spec => []LInv
<1>1. Init => LInv
  BY DEF Init, LInv, Unborn, Absent
<1>2. IInv /\ LInv /\ [Next]_vars => LInv'
  <2> SUFFICES ASSUME IInv, LInv, [Next]_vars, NEW t \in Tasks PROVE Unborn(tasks'[t])
    BY DEF LInv
  <2>1. RowInv(tasks[t])
    BY DEF IInv
  <2>2. Moved(tasks[t], tasks'[t])
    BY <2>1, StepsByRow, StepParts, Zenon DEF AllSteps
  <2> QED
    BY <2>1, <2>2, MovedUnborn DEF LInv
<1> QED
  BY <1>1, <1>2, Inductive, PTL DEF Spec

-----------------------------------------------------------------------------
(* What the view shows of a row *)

LifeFields == {"stage", "attempt", "claim", "holder", "outcome", "chat", "told"}

IsLife(x) == x = [f \in LifeFields |-> x[f]]

\* Two views with the same fields are the same.
LEMMA SameLife ==
    ASSUME NEW x, IsLife(x), NEW y, IsLife(y),
           x.stage = y.stage, x.attempt = y.attempt, x.claim = y.claim,
           x.holder = y.holder, x.outcome = y.outcome, x.chat = y.chat, x.told = y.told
    PROVE  x = y
BY DEF IsLife, LifeFields

Shows(r, x) ==
    /\ IsLife(x)
    /\ x.stage = StageOf(r)
    /\ x.attempt = r.attempt.count
    /\ x.claim = Len(r.claim.issued)
    /\ x.holder = r.claim.by
    /\ x.outcome = (IF r.status \in Terminal THEN r.status ELSE "open")
    /\ x.chat = r.origin.chat
    /\ x.told = (IF r.status \in Terminal THEN r.origin.chat ELSE FALSE)

\* The view tells that a task was notified exactly when it is settled and came
\* from a chat.
LEMMA ViewShows ==
    ASSUME NEW r, RowInv(r)
    PROVE  Shows(r, View(r))
<1>1. r.origin.chat \in BOOLEAN
  BY DEF RowInv, Row, Origin
<1>2. (r.outbox.notice # "none") = (IF r.status \in Terminal THEN r.origin.chat ELSE FALSE)
  BY <1>1 DEF RowInv, NoticeTellsOutcome
<1>3. LET x == View(r) IN
      /\ x.stage = StageOf(r) /\ x.attempt = r.attempt.count
      /\ x.claim = Len(r.claim.issued) /\ x.holder = r.claim.by
      /\ x.outcome = (IF r.status \in Terminal THEN r.status ELSE "open")
      /\ x.chat = r.origin.chat
      /\ x.told = (r.outbox.notice # "none")
  BY Zenon DEF View
<1>4. IsLife(View(r))
  BY DEF View, IsLife, LifeFields
<1> QED
  BY <1>2, <1>3, <1>4 DEF Shows

\* The stage of each status.
LEMMA Stages ==
    ASSUME NEW r
    PROVE  /\ r.status = "absent" => StageOf(r) = "none"
           /\ r.status \in {"planning_pending", "planning"} => StageOf(r) = "planning"
           /\ r.status = "pending" => StageOf(r) = "queued"
           /\ r.status \in Active => StageOf(r) = "held"
           /\ r.status = "reconciling" => StageOf(r) = "unsure"
           /\ r.status \in Terminal => StageOf(r) = "settled"
BY DEF StageOf

\* A view is a life of the abstract specification.
LEMMA ViewIsLife ==
    ASSUME NEW r, RowInv(r)
    PROVE  View(r) \in Lifecycle!Life
<1> DEFINE x == View(r)
<1>1. Shows(r, x)
  BY ViewShows
<1>2. /\ r.status \in Status /\ r.attempt.count \in 0..MaxAttempts
      /\ Len(r.claim.issued) \in Nat /\ r.claim.by \in Workers \cup {NoWorker}
      /\ r.origin.chat \in BOOLEAN
  BY BudgetAssumption DEF RowInv, Row, Attempt, Claim, Origin, WithinBudget
<1>3. StageOf(r) \in Lifecycle!Stages
  BY <1>2, Stages DEF Status, Lifecycle!Stages
<1> HIDE DEF x
<1>4. /\ x.stage \in Lifecycle!Stages /\ x.attempt \in 0..MaxAttempts /\ x.claim \in Nat
      /\ x.holder \in Workers \cup {NoWorker} /\ x.chat \in BOOLEAN /\ x.told \in BOOLEAN
      /\ x.outcome \in Lifecycle!Outcomes \cup {"open"} /\ IsLife(x)
  BY <1>1, <1>2, <1>3 DEF Shows, Lifecycle!Outcomes
<1>5. x \in Lifecycle!Life
  BY <1>4 DEF Lifecycle!Life, IsLife, LifeFields
<1> QED
  BY <1>5 DEF x

-----------------------------------------------------------------------------
(* Each step of a row is a move of its view *)

\* A row whose visible parts stay the same is seen as the same.
LEMMA SeenAsBefore ==
    ASSUME NEW r, RowInv(r), NEW s, RowInv(s),
           StageOf(s) = StageOf(r),
           s.status = r.status \/ {r.status, s.status} \cap Terminal = {},
           SameTask(r, s), s.claim.by = r.claim.by, s.claim.issued = r.claim.issued
    PROVE  View(s) = View(r)
<1> DEFINE x == View(r)
           y == View(s)
<1>1. Shows(r, x) /\ Shows(s, y)
  BY ViewShows
<1> HIDE DEF x, y
<1>2. x = y
  BY <1>1, SameLife DEF Shows, SameTask
<1> QED
  BY <1>2 DEF x, y

\* A row is created.
LEMMA SeenSubmitted ==
    ASSUME NEW r, RowInv(r), Unborn(r), r.status = "absent", NEW s, RowInv(s),
           NEW q, NEW rank, s = Created(q, rank)
    PROVE  Lifecycle!Submit(View(r), View(s))
<1> DEFINE x == View(r)
           y == View(s)
<1>1. Shows(r, x) /\ Shows(s, y)
  BY ViewShows
<1> HIDE DEF x, y
<1>2. /\ r.claim.issued = <<>> /\ r.claim.by = NoWorker /\ r.origin.chat = FALSE
      /\ r.attempt.count = 0 /\ StageOf(r) = "none"
  BY Stages DEF Unborn, RowInv, Staged
<1>3. IsLife(Lifecycle!NoLife)
  BY DEF Lifecycle!NoLife, IsLife, LifeFields
<1>4. x = Lifecycle!NoLife
  <2>1. /\ x.stage = "none" /\ x.attempt = 0 /\ x.claim = 0 /\ x.holder = NoWorker
        /\ x.outcome = "open" /\ x.chat = FALSE /\ x.told = FALSE /\ IsLife(x)
    BY <1>1, <1>2 DEF Shows
  <2> QED
    BY <1>3, <2>1, SameLife DEF Lifecycle!NoLife
<1>5. /\ s.status \in {"planning_pending", "pending"}
      /\ s.attempt.count = 0 /\ s.claim.issued = <<>> /\ s.claim.by = NoWorker
  BY CreatedParts
<1>6. /\ y.stage \in {"planning", "queued"} /\ y.attempt = 0 /\ y.claim = 0
      /\ y.holder = NoWorker /\ y.outcome = "open" /\ y.told = FALSE /\ IsLife(y)
  BY <1>1, <1>5, Stages DEF Shows
<1>7. y = [Lifecycle!NoLife EXCEPT !.stage = y.stage, !.chat = y.chat]
  <2> DEFINE z == [Lifecycle!NoLife EXCEPT !.stage = y.stage, !.chat = y.chat]
  <2>1. /\ z.stage = y.stage /\ z.attempt = 0 /\ z.claim = 0 /\ z.holder = NoWorker
        /\ z.outcome = "open" /\ z.chat = y.chat /\ z.told = FALSE
    BY Zenon DEF Lifecycle!NoLife
  <2>2. IsLife(z)
    BY DEF Lifecycle!NoLife, IsLife, LifeFields
  <2> HIDE DEF z
  <2>3. y = z
    BY <1>6, <2>1, <2>2, SameLife
  <2> QED
    BY <2>3 DEF z
<1> QED
  BY <1>4, <1>6, <1>7 DEF Lifecycle!Submit, x, y

\* A row is settled.
LEMMA SeenSettled ==
    ASSUME NEW r, RowInv(r), r.status \notin Terminal \cup {"absent"},
           NEW s, RowInv(s), s.status \in Terminal,
           SameTask(r, s), s.claim.by = r.claim.by, s.claim.issued = r.claim.issued
    PROVE  Lifecycle!Move(View(r), View(s))
<1> DEFINE x == View(r)
           y == View(s)
<1>1. Shows(r, x) /\ Shows(s, y)
  BY ViewShows
<1> HIDE DEF x, y
<1>2. x.stage \notin {"none", "settled"}
  BY <1>1, Stages DEF Shows, RowInv, Row, Status
<1>3. /\ y.stage = "settled" /\ y.attempt = x.attempt /\ y.claim = x.claim
      /\ y.holder = x.holder /\ y.outcome \in Lifecycle!Outcomes
      /\ y.chat = x.chat /\ y.told = x.chat /\ IsLife(x) /\ IsLife(y)
  BY <1>1, Stages DEF Shows, SameTask, Lifecycle!Outcomes
<1>4. y = [x EXCEPT !.stage = "settled", !.outcome = y.outcome, !.told = x.chat]
  BY <1>3 DEF IsLife, LifeFields
<1> QED
  BY <1>2, <1>3, <1>4 DEF Lifecycle!Settle, Lifecycle!Move, x, y

\* A row goes on to another stage that is not the last, with nothing granted.
LEMMA SeenMoved ==
    ASSUME NEW r, RowInv(r), r.status \notin Terminal,
           NEW s, RowInv(s), s.status \notin Terminal,
           SameTask(r, s), s.claim.issued = r.claim.issued,
           \/ /\ StageOf(r) = "planning" /\ StageOf(s) = "queued"
              /\ s.claim.by = r.claim.by
           \/ /\ StageOf(r) = "held" /\ StageOf(s) = "queued"
              /\ s.claim.by = NoWorker /\ r.attempt.count < MaxAttempts
           \/ /\ StageOf(r) = "held" /\ StageOf(s) = "unsure"
              /\ s.claim.by = r.claim.by
    PROVE  Lifecycle!Move(View(r), View(s))
<1> DEFINE x == View(r)
           y == View(s)
<1>1. Shows(r, x) /\ Shows(s, y)
  BY ViewShows
<1> HIDE DEF x, y
<1>2. /\ y.attempt = x.attempt /\ y.claim = x.claim /\ y.outcome = x.outcome
      /\ y.chat = x.chat /\ y.told = x.told /\ IsLife(x) /\ IsLife(y)
      /\ x.stage = StageOf(r) /\ y.stage = StageOf(s) /\ x.attempt = r.attempt.count
      /\ x.holder = r.claim.by /\ y.holder = s.claim.by
  BY <1>1 DEF Shows, SameTask
<1>3. y = [x EXCEPT !.stage = y.stage, !.holder = y.holder]
  BY <1>2 DEF IsLife, LifeFields
<1>4. y.holder = x.holder => y = [x EXCEPT !.stage = y.stage]
  BY <1>2 DEF IsLife, LifeFields
<1> QED
  BY <1>2, <1>3, <1>4
  DEF Lifecycle!Plan, Lifecycle!GiveBack, Lifecycle!LoseSight, Lifecycle!Move, x, y

\* A claim is granted.
LEMMA SeenGranted ==
    ASSUME NEW r, RowInv(r), NEW s, RowInv(s), s.status = "claimed",
           NEW w \in Workers, s.claim.by = w,
           Len(s.claim.issued) = Len(r.claim.issued) + 1,
           s.origin = r.origin,
           \/ /\ StageOf(r) \in {"queued", "held"} /\ r.attempt.count < MaxAttempts
              /\ s.attempt.count = r.attempt.count + 1
           \/ /\ StageOf(r) \in {"held", "unsure"} /\ r.claim.by = w
              /\ s.attempt.count = r.attempt.count
    PROVE  Lifecycle!Move(View(r), View(s))
<1> DEFINE x == View(r)
           y == View(s)
<1>1. Shows(r, x) /\ Shows(s, y)
  BY ViewShows
<1> HIDE DEF x, y
<1>2. r.status \notin Terminal /\ StageOf(s) = "held"
  BY Stages
<1>3. /\ y.claim = x.claim + 1 /\ y.outcome = x.outcome
      /\ y.chat = x.chat /\ y.told = x.told /\ IsLife(x) /\ IsLife(y)
      /\ x.stage = StageOf(r) /\ y.stage = "held" /\ x.attempt = r.attempt.count
      /\ y.attempt = s.attempt.count /\ x.holder = r.claim.by /\ y.holder = w
  BY <1>1, <1>2 DEF Shows
<1>4. y.attempt = x.attempt + 1 =>
          y = [x EXCEPT !.stage = "held", !.holder = y.holder,
                        !.attempt = x.attempt + 1, !.claim = x.claim + 1]
  BY <1>3 DEF IsLife, LifeFields
<1>5. y.attempt = x.attempt /\ y.holder = x.holder =>
          y = [x EXCEPT !.stage = "held", !.claim = x.claim + 1]
  BY <1>3 DEF IsLife, LifeFields
<1> QED
  BY <1>3, <1>4, <1>5 DEF Lifecycle!Grant, Lifecycle!Regrant, Lifecycle!Move, x, y

Follows(r, s) == View(s) = View(r) \/ Lifecycle!Move(View(r), View(s))

\* What a call does to a row that maintenance left alone.
LEMMA EffectFollows ==
    ASSUME NEW r, RowInv(r), NEW s, RowInv(s), Effect(r, s) \/ WasPlanned(r, s)
    PROVE  Follows(r, s)
<1>1. CASE WentOn(r, s) \/ WasAttached(r, s)
  <2>1. SameTask(r, s) /\ s.claim.by = r.claim.by /\ s.claim.issued = r.claim.issued
    BY <1>1 DEF WentOn, WasAttached, SameClaim
  <2>2. s.status = r.status \/ (r.status = "claimed" /\ s.status = "running")
    BY <1>1 DEF WentOn, WasAttached
  <2>3. StageOf(s) = StageOf(r)
    <3>1. CASE s.status = r.status
      BY <3>1, Zenon DEF StageOf
    <3>2. CASE r.status = "claimed" /\ s.status = "running"
      BY <3>2, Stages
    <3> QED
      BY <2>2, <3>1, <3>2
  <2>4. View(s) = View(r)
    BY <2>1, <2>2, <2>3, SeenAsBefore
  <2> QED
    BY <2>4 DEF Follows
<1>2. CASE WasParked(r, s)
  BY <1>2, SeenMoved, Stages DEF WasParked, Follows
<1>3. CASE WasReported(r, s)
  <2>1. CASE s.status = "pending"
    BY <1>3, <2>1, SeenMoved, Stages DEF WasReported, Follows
  <2>2. CASE s.status \in Terminal
    BY <1>3, <2>2, SeenSettled DEF WasReported, Follows
  <2> QED
    BY <1>3, <2>1, <2>2 DEF WasReported
<1>4. ASSUME NEW w \in Workers, WasGranted(r, s, w)
      PROVE  Follows(r, s)
  <2>1. Len(s.claim.issued) = Len(r.claim.issued) + 1
    BY <1>4 DEF WasGranted, RowInv, Row, Claim
  <2> QED
    BY <1>4, <2>1, SeenGranted, Stages DEF WasGranted, Follows
<1>5. CASE WasPlanned(r, s)
  <2>1. SameTask(r, s) /\ s.claim.by = r.claim.by /\ s.claim.issued = r.claim.issued
    BY <1>5 DEF WasPlanned, SameTask
  <2>2. CASE s.status \in {"planning", "planning_pending"}
    <3>1. StageOf(s) = StageOf(r)
      BY <1>5, <2>2, Stages DEF WasPlanned
    <3> QED
      BY <1>5, <2>1, <2>2, <3>1, SeenAsBefore DEF WasPlanned, Follows
  <2>3. CASE s.status = "pending"
    BY <1>5, <2>1, <2>3, SeenMoved, Stages DEF WasPlanned, Follows
  <2>4. CASE s.status \in {"failed", "timed_out"}
    BY <1>5, <2>1, <2>4, SeenSettled DEF WasPlanned, Follows
  <2> QED
    BY <1>5, <2>2, <2>3, <2>4 DEF WasPlanned
<1> QED
  BY <1>1, <1>2, <1>3, <1>4, <1>5 DEF Effect, HolderEffect

\* What a statement without maintenance does.
LEMMA StatedFollows ==
    ASSUME NEW r, RowInv(r), Unborn(r), NEW s, RowInv(s), WasStated(r, s)
    PROVE  Follows(r, s)
<1>1. CASE r.status = "absent" /\ \E q \in Requests, rank \in Int : s = Created(q, rank)
  BY <1>1, SeenSubmitted DEF Follows, Lifecycle!Move
<1>2. ASSUME SameTask(r, s) /\ SameClaim(r, s)
      PROVE  s.claim.by = r.claim.by /\ s.claim.issued = r.claim.issued
  BY <1>2 DEF SameClaim
<1>3. CASE SameTask(r, s) /\ SameClaim(r, s) /\ s.status = r.status
  <2>1. StageOf(s) = StageOf(r)
    BY <1>3, Zenon DEF StageOf
  <2> QED
    BY <1>2, <1>3, <2>1, SeenAsBefore DEF Follows
<1>4. CASE /\ SameTask(r, s) /\ SameClaim(r, s) /\ s.status = "cancelled"
           /\ r.status \in {"planning_pending", "planning", "pending"}
  BY <1>2, <1>4, SeenSettled DEF Follows
<1>5. CASE /\ SameTask(r, s) /\ SameClaim(r, s) /\ s.status = "cancel_requested"
           /\ r.status \in Active
  <2>1. StageOf(s) = StageOf(r)
    BY <1>5, Stages
  <2> QED
    BY <1>2, <1>5, <2>1, SeenAsBefore DEF Follows
<1> QED
  BY <1>1, <1>3, <1>4, <1>5 DEF WasStated

\* What a call does to a row whose claim was swept first: given up and granted
\* again in one transaction, for instance.
LEMMA SweptFollows ==
    ASSUME NEW r, RowInv(r), r.status \in Active, NEW m, RowInv(m), Swept(r, m),
           NEW s, RowInv(s), s = m \/ Effect(m, s) \/ WasPlanned(m, s)
    PROVE  Follows(r, s)
<1>1. \/ s = m
      \/ WentOn(m, s)
      \/ \E w \in Workers : WasGranted(m, s, w)
  BY DEF Swept, Effect, HolderEffect, WasAttached, WasParked, WasReported, WasPlanned
<1>2. /\ m.status \in {"pending", "reconciling"} \cup Terminal
      /\ SameTask(r, m) /\ m.claim.issued = r.claim.issued
      /\ m.status = "pending" => m.claim.by = NoWorker /\ r.attempt.count < MaxAttempts
      /\ m.status # "pending" => m.claim.by = r.claim.by
  BY DEF Swept
<1>3. StageOf(r) = "held"
  BY Stages
<1>4. CASE s = m \/ WentOn(m, s)
  <2>1. /\ s.status = m.status /\ SameTask(r, s) /\ s.claim.issued = r.claim.issued
        /\ s.claim.by = m.claim.by
    BY <1>2, <1>4 DEF WentOn, SameTask, SameClaim
  <2>2. CASE s.status = "pending"
    BY <1>2, <1>3, <2>1, <2>2, SeenMoved, Stages DEF Follows
  <2>3. CASE s.status = "reconciling"
    BY <1>2, <1>3, <2>1, <2>3, SeenMoved, Stages DEF Follows
  <2>4. CASE s.status \in Terminal
    BY <1>2, <2>1, <2>4, SeenSettled DEF Follows
  <2> QED
    BY <1>2, <2>1, <2>2, <2>3, <2>4
<1>5. ASSUME NEW w \in Workers, WasGranted(m, s, w)
      PROVE  Follows(r, s)
  <2>1. Len(s.claim.issued) = Len(r.claim.issued) + 1
    BY <1>2, <1>5 DEF WasGranted, RowInv, Row, Claim
  <2>2. s.status = "claimed" /\ s.claim.by = w /\ s.origin = r.origin
    BY <1>2, <1>5 DEF WasGranted, SameTask
  <2>3. \/ r.attempt.count < MaxAttempts /\ s.attempt.count = r.attempt.count + 1
        \/ r.claim.by = w /\ s.attempt.count = r.attempt.count
    BY <1>2, <1>5 DEF WasGranted, SameTask
  <2> QED
    BY <1>3, <2>1, <2>2, <2>3, SeenGranted DEF Follows
<1> QED
  BY <1>1, <1>4, <1>5

\* The same when planning or reconciliation came to its end first.
LEMMA KeptFollows ==
    ASSUME NEW r, RowInv(r), NEW m, RowInv(m), Kept(r, m),
           NEW s, RowInv(s), s = m \/ Effect(m, s) \/ WasPlanned(m, s)
    PROVE  Follows(r, s)
<1>1. /\ SameTask(r, m) /\ m.claim.by = r.claim.by /\ m.claim.issued = r.claim.issued
      /\ \/ r.status = "planning" /\ m.status = "planning_pending"
         \/ r.status \in {"planning", "reconciling"} /\ m.status = "timed_out"
  BY DEF Kept
<1>2. /\ SameTask(r, s) /\ s.claim.by = r.claim.by /\ s.claim.issued = r.claim.issued
      /\ \/ s.status = m.status
         \/ m.status = "planning_pending" /\ s.status = "planning"
  BY <1>1 DEF Effect, HolderEffect, WentOn, WasGranted, WasAttached, WasParked, WasReported, WasPlanned,
              SameTask, SameClaim
<1>3. CASE s.status = "timed_out"
  BY <1>1, <1>2, <1>3, SeenSettled DEF Follows
<1>4. CASE s.status \in {"planning_pending", "planning"}
  <2>1. r.status = "planning" /\ StageOf(s) = StageOf(r)
    BY <1>1, <1>2, <1>4, Stages
  <2> QED
    BY <1>2, <1>4, <2>1, SeenAsBefore DEF Follows
<1> QED
  BY <1>1, <1>2, <1>3, <1>4

\* Whatever happens to a row is a move of its view, or nothing to be seen.
LEMMA MovedFollows ==
    ASSUME NEW r, RowInv(r), Unborn(r), NEW s, RowInv(s), Moved(r, s)
    PROVE  Follows(r, s)
<1>1. CASE s = r
  BY <1>1 DEF Follows
<1>2. CASE s.status = r.status /\ SameTask(r, s) /\ SameClaim(r, s)
  <2>1. StageOf(s) = StageOf(r)
    BY <1>2, Zenon DEF StageOf
  <2> QED
    BY <1>2, <2>1, SeenAsBefore DEF Follows, SameClaim
<1>3. CASE WasStated(r, s)
  BY <1>3, StatedFollows
<1>4. ASSUME NEW m, RowInv(m), m = r \/ (r.status \in Active /\ Swept(r, m)) \/ Kept(r, m),
             s = m \/ Effect(m, s) \/ WasPlanned(m, s)
      PROVE  Follows(r, s)
  <2>1. CASE m = r
    BY <1>1, <1>4, <2>1, EffectFollows
  <2>2. CASE r.status \in Active /\ Swept(r, m)
    BY <1>4, <2>2, SweptFollows
  <2>3. CASE Kept(r, m)
    BY <1>4, <2>3, KeptFollows
  <2> QED
    BY <1>4, <2>1, <2>2, <2>3
<1> QED
  BY <1>1, <1>2, <1>3, <1>4, Zenon DEF Moved

-----------------------------------------------------------------------------
(* The refinement *)

\* The store implements the abstract lifecycle: a task is held by one worker at a
\* time under ever newer claims, given back only while attempts are left, and
\* settled once, with its notification, for all numbers of tasks, workers,
\* attempts and claims, and all durations.
THEOREM LifecycleImplemented == Spec => ImplementsLifecycle
<1>1. Init => Lifecycle!Init
  <2>1. Shows(Absent, View(Absent)) /\ Unborn(Absent)
    BY AbsentInv, ViewShows DEF Unborn, Absent
  <2>2. /\ View(Absent).stage = "none" /\ View(Absent).attempt = 0
        /\ View(Absent).claim = 0 /\ View(Absent).holder = NoWorker
        /\ View(Absent).outcome = "open" /\ View(Absent).chat = FALSE
        /\ View(Absent).told = FALSE /\ IsLife(View(Absent))
    BY <2>1, Stages DEF Shows, Absent
  <2>3. IsLife(Lifecycle!NoLife)
    BY DEF Lifecycle!NoLife, IsLife, LifeFields
  <2>4. View(Absent) = Lifecycle!NoLife
    BY <2>2, <2>3, SameLife DEF Lifecycle!NoLife
  <2> QED
    BY <2>4 DEF Init, Lifecycle!Init
<1>2. /\ IInv /\ LInv /\ IInv' /\ [Next]_vars
      => [Lifecycle!Next]_([t \in Tasks |-> View(tasks[t])])
  <2> SUFFICES ASSUME IInv, LInv, IInv', [Next]_vars PROVE Lifecycle!Next
    OBVIOUS
  <2>1. \A t \in Tasks : RowInv(tasks[t]) /\ Unborn(tasks[t]) /\ RowInv(tasks'[t])
    BY DEF IInv, LInv
  <2>2. \A t \in Tasks : Moved(tasks[t], tasks'[t])
    BY <2>1, StepsByRow, StepParts, Zenon DEF AllSteps
  <2>3. \A t \in Tasks : Follows(tasks[t], tasks'[t]) /\ View(tasks'[t]) \in Lifecycle!Life
    BY <2>1, <2>2, MovedFollows, ViewIsLife
  <2> QED
    BY <2>3 DEF Lifecycle!Next, Follows
<1> QED
  BY <1>1, <1>2, Inductive, UnbornAlways, PTL DEF Spec, ImplementsLifecycle, Lifecycle!Spec

=============================================================================
