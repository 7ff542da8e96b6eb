----------------------------- MODULE HostProofs -----------------------------
(***************************************************************************)
(* The host's loop, its operator and its step, proved for every routed or  *)
(* guarded subject, with any other workers on it: a pause is final,        *)
(* nothing is retried behind the operator's back, a report serves one      *)
(* attempt and is not lost before, and a routed attempt has the packets    *)
(* made for it.                                                            *)
(***************************************************************************)
EXTENDS RuntimeProofs, Host

-----------------------------------------------------------------------------
(* The inductive invariant.                                                *)

Busy == {"prepare", "observe", "recheck", "merge", "step", "stepping"}
Spots == {"top", "take", "exited", "stopped"} \cup Busy
Words == Verdicts \cup {"started paused", "image_failed", "worker stopped"}

ContextRow == [head : Nat, occasion : Nat]
StagedRow == [bind : ContextRow, packets : SUBSET {"report", "image"}]

HostRow ==
    [at : Spots, paused : BOOLEAN, running : BOOLEAN, last : Words,
     staged : StagedRow, held : StagedRow, target : ContextRow, stopping : BOOLEAN]

TraceRow ==
    [openings : Nat, fruitless : Nat, reports : Nat, delivered : Nat, quiet : BOOLEAN]

\* A step with one executor may still admit an attempt, or hand its context
\* back: it admits one at most.
InTurn(step) ==
    \/ step.at \in Resting /\ step.next = 1
    \/ step.at = "done" /\ step.status = "waiting"

TurnInv(step) ==
    /\ step.at = "done" /\ step.status = "waiting" => step.attempt = NoAttempt
    /\ ~Routed(HostWorker) => step.next = 1

\* Control and the loop: what `running' guards, and the step under way.
LoopInv ==
    /\ host.running <=> host.at \in Busy
    /\ Loop("stepping") <=> work[HostWorker].at # "idle"
    /\ host.running => host.staged = Nothing
    /\ ~host.running => host.held = Nothing

\* A context names an occasion, and a routed step is bound by it.
Named(context) == context # Nothing => context.bind.occasion # NoRow

ContextInv ==
    /\ Named(host.staged)
    /\ Named(host.held)
    /\ host.at \in {"observe", "recheck", "merge"} => host.target.occasion # NoRow
    /\ Loop("stepping") /\ Routed(HostWorker) => work[HostWorker].context = host.held.bind

\* A host that is not quiet has an opening it has not used up.
QuietInv == trace.quiet => host.paused /\ ~host.running

OpeningInv ==
    trace.fruitless + (IF host.paused /\ ~host.running THEN 0 ELSE 1) <= trace.openings

\* A report that is staged, or held and not yet passed to an attempt, is one that
\* was not delivered.
Unspent(context) == IF "report" \in context.packets THEN 1 ELSE 0

Usable == Loop("stepping") => InTurn(work[HostWorker])

DeliveryInv ==
    trace.delivered + Unspent(host.staged) + (IF Usable THEN Unspent(host.held) ELSE 0)
       <= trace.reports

HostInv ==
    /\ RuntimeInv
    /\ host \in HostRow
    /\ trace \in TraceRow
    /\ TurnInv(work[HostWorker])
    /\ LoopInv
    /\ ContextInv
    /\ QuietInv
    /\ OpeningInv
    /\ DeliveryInv

-----------------------------------------------------------------------------
(* A step of the host's worker.                                            *)

\* The step goes on, ends or falls back with what it was given.
TurnKept(step, next) ==
    /\ TurnInv(next)
    /\ next.at # "idle"
    /\ Routed(HostWorker) => next.context = step.context
    /\ InTurn(next) => InTurn(step)

\* Only an admission adds an attempt.
LEMMA OnlyAdmissionGrows ==
    ASSUME RuntimeInv, NEW w \in Workers, NEW now \in Instants, StepNext(w, now),
           ~\E maintenance \in MaintenanceModes : AdmitAttempt(w, now, maintenance)
    PROVE  Len(attempts') = Len(attempts)
<1>1. StoreInv /\ KernelInv /\ TypeOK
  BY DEF RuntimeInv, StoreInv, KernelInv
<1>2. ASSUME NEW a \in AttemptIds, NEW status, Lapse(a, status)
      PROVE  Len(attempts') = Len(attempts)
  BY <1>2 DEF Lapse, OnlyStatusChanges
<1>3. ASSUME NEW a \in AttemptIds, NEW request \in Nat \cup {NoTime},
             NEW disposition \in SUBSET Nat, Transition(a, now, request, disposition)
      PROVE  Len(attempts') = Len(attempts)
  <2>1. OnlyStatusChanges
    BY <1>1, <1>3, TransitionEffect DEF Transition
  <2>2. QED BY <2>1 DEF OnlyStatusChanges
<1>4. ASSUME NEW a \in AttemptIds, Fails(a)
      PROVE  Len(attempts') = Len(attempts)
  <2>1. CASE UNCHANGED vars
    BY <2>1 DEF vars
  <2>2. CASE FailTransient(a) \/ RecordFailure(a) \/ \E t \in Instants : DisposeOverflow(a, t)
    <3>1. Lapse(a, "failed")
      BY <1>1, <2>2, OperationKinds
    <3>2. QED BY <1>2, <3>1
  <2>3. QED BY <1>4, <2>1, <2>2 DEF Fails, FailIfReserved
<1>5. CASE \/ Bind(w, now) \/ Exhaust(w) \/ Skip(w) \/ OpenSession(w) \/ CheckHead(w)
           \/ AdmitConflict(w, now) \/ AdmitWaiting(w, now) \/ AdmitOverflow(w, now)
           \/ DisposeRaises(w, now)
           \/ \E status \in {"cancelled", "timeout"} : Stop(w, status)
           \/ \E answer \in Answers : Respond(w, answer)
           \/ \E reason \in {"conflict", "error", "overflow"} : Reject(w, reason)
  <2>1. UNCHANGED vars
    BY <1>5 DEF Bind, Exhaust, Skip, OpenSession, CheckHead, AdmitConflict, AdmitWaiting,
                AdmitOverflow, DisposeRaises, Stop, Respond, Reject
  <2>2. QED BY <2>1 DEF vars
<1>6. CASE \/ CheckAdmitted(w) \/ SettleRejected(w) \/ FailAnswer(w, now)
           \/ \E status \in {"cancelled", "timeout"} : Interrupt(w, status)
  <2>1. PICK a \in AttemptIds : a = work[w].attempt
    BY <1>6, OwnedAttempt DEF CheckAdmitted, SettleRejected, FailAnswer, Interrupt, At, Owning
  <2>2. Fails(a) \/ UNCHANGED vars
    BY <1>6, <2>1 DEF CheckAdmitted, SettleRejected, FailAnswer, Interrupt, Fails, FailIfReserved
  <2>3. QED BY <1>4, <2>2 DEF vars
<1>7. CASE \/ DisposeAnswer(w, now) \/ AbstainAnswer(w)
           \/ \E request \in WakeRequests \cup {NoTime} : CommitAnswer(w, now, request)
  <2>1. PICK a \in AttemptIds : a = work[w].attempt
    BY <1>7, OwnedAttempt DEF DisposeAnswer, AbstainAnswer, CommitAnswer, At, Owning
  <2>2. \/ Dispose(a, now) \/ Abstain(a)
        \/ \E request \in WakeRequests \cup {NoTime} : Commit(a, now, request)
    BY <1>7, <2>1 DEF DisposeAnswer, AbstainAnswer, CommitAnswer
  <2>3. CASE Dispose(a, now)
    <3>1. /\ SettlementRequest(a, now) \in Nat \cup {NoTime}
          /\ CountedFailures(a) \in SUBSET Nat
          /\ Transition(a, now, SettlementRequest(a, now), CountedFailures(a))
      BY <1>1, <2>3, OperationKinds
    <3>2. QED BY <1>3, <3>1
  <2>4. CASE Abstain(a)
    BY <1>1, <1>2, <2>4, OperationKinds
  <2>5. ASSUME NEW request \in WakeRequests \cup {NoTime}, Commit(a, now, request)
        PROVE  Len(attempts') = Len(attempts)
    <3>1. request \in Nat \cup {NoTime} /\ Transition(a, now, request, {})
      BY <1>1, <2>5, OperationKinds
    <3>2. QED BY <1>3, <3>1
  <2>6. QED BY <2>2, <2>3, <2>4, <2>5
<1>8. QED BY <1>5, <1>6, <1>7 DEF StepNext

\* A step ends.
LEMMA TurnEnds ==
    ASSUME RuntimeInv, NEW status \in Verdicts, Goto(HostWorker, Done(HostWorker, status)),
           status = "waiting" =>
              InTurn(work[HostWorker]) /\ work[HostWorker].attempt = NoAttempt
    PROVE  TurnKept(work[HostWorker], work'[HostWorker])
<1>1. HostWorker \in Workers /\ work[HostWorker] \in WorkRow
  BY HostAssumption, WorkerFacts
<1>2. work'[HostWorker] = Done(HostWorker, status)
  BY <1>1 DEF Goto, RuntimeInv
<1>3. PICK next : next = work'[HostWorker]
  OBVIOUS
<1>4. /\ next.at = "done" /\ next.next = 1 /\ next.status = status
      /\ next.context = work[HostWorker].context /\ next.attempt = work[HostWorker].attempt
  BY <1>1, <1>2, <1>3, DoneFields
<1>5. TurnKept(work[HostWorker], next)
  BY <1>4 DEF TurnKept, TurnInv, InTurn, Resting
<1>6. QED BY <1>3, <1>5

\* A route falls back to an executor it does not have.
LEMMA TurnFallsBack ==
    ASSUME RuntimeInv, NEW status \in Verdicts, Routed(HostWorker),
           work[HostWorker].next \in DOMAIN Route, work[HostWorker].status = "none",
           Goto(HostWorker, Fallback(HostWorker, status))
    PROVE  TurnKept(work[HostWorker], work'[HostWorker])
<1>1. HostWorker \in Workers /\ work[HostWorker] \in WorkRow
  BY HostAssumption, WorkerFacts
<1>2. work'[HostWorker] = Fallback(HostWorker, status)
  BY <1>1 DEF Goto, RuntimeInv
<1>3. PICK next : next = work'[HostWorker]
  OBVIOUS
<1>4. /\ next.at = "select" /\ next.next = work[HostWorker].next + 1
      /\ next.context = work[HostWorker].context
  BY <1>1, <1>2, <1>3, FallbackFields
<1>5. work[HostWorker].next + 1 # 1
  BY <1>1 DEF WorkRow
<1>6. TurnKept(work[HostWorker], next)
  BY <1>4, <1>5 DEF TurnKept, TurnInv, InTurn, Resting
<1>7. QED BY <1>3, <1>6

\* execute_attempt ends a step, or falls back.
LEMMA TurnFinishes ==
    ASSUME RuntimeInv, work[HostWorker].at \in {"judge", "settle"},
           NEW status \in Verdicts \ {"waiting"}, Finished(HostWorker, status)
    PROVE  TurnKept(work[HostWorker], work'[HostWorker])
<1>1. HostWorker \in Workers /\ work[HostWorker] \in WorkRow
  BY HostAssumption, WorkerFacts
<1>2. /\ Routed(HostWorker) => work[HostWorker].next \in DOMAIN Route
      /\ work[HostWorker].status = "none"
  BY <1>1, WorkerFacts DEF ControlInv, Owning
<1>3. CASE Goto(HostWorker, Done(HostWorker, status))
  BY <1>3, TurnEnds
<1>4. CASE Routed(HostWorker) /\ Goto(HostWorker, Fallback(HostWorker, status))
  BY <1>2, <1>4, TurnFallsBack
<1>5. ASSUME Routed(HostWorker), NEW reason \in Verdicts,
             Goto(HostWorker, [Done(HostWorker, status) EXCEPT
                                  !.report = Append(@, Line(HostWorker, reason))])
      PROVE  TurnKept(work[HostWorker], work'[HostWorker])
  <2>1. PICK next : next = [Done(HostWorker, status) EXCEPT
                               !.report = Append(@, Line(HostWorker, reason))]
    OBVIOUS
  <2>2. work[HostWorker].next \in DOMAIN Route /\ status \in Verdicts
    BY <1>2, <1>5
  <2>3. /\ next.at = "done" /\ next.next = 1 /\ next.status = status
        /\ next.context = work[HostWorker].context
    BY <1>1, <2>1, <2>2, FinalFields
  <2>4. work'[HostWorker] = next
    BY <1>1, <1>5, <2>1 DEF Goto, RuntimeInv
  <2>5. TurnKept(work[HostWorker], next)
    BY <1>5, <2>3 DEF TurnKept, TurnInv, InTurn, Resting
  <2>6. QED BY <2>4, <2>5
<1>6. QED
  <2>1. PICK reason \in Verdicts : reason = IF status = "disposed" THEN "failed" ELSE status
    BY DEF Verdicts
  <2>2. QED BY <1>3, <1>4, <1>5, <2>1 DEF Finished

\* The step goes on, with the same executor.
LEMMA TurnGoesOn ==
    ASSUME NEW step, NEW next, TurnInv(step),
           next.at \in (Resting \cup Owning) \ {"idle"},
           next.at \in Resting => step.at \in Resting,
           next.next = step.next, Routed(HostWorker) => next.context = step.context
    PROVE  TurnKept(step, next)
BY DEF TurnKept, TurnInv, InTurn, Resting, Owning

\* What a step of one executor has not used up.
LEMMA OneTurn ==
    ASSUME RuntimeInv, TurnInv(work[HostWorker]), work[HostWorker].at \in {"bind", "check", "admit"}
    PROVE  /\ InTurn(work[HostWorker])
           /\ work[HostWorker].attempt = NoAttempt
<1>1. work[HostWorker].at \in Resting
  BY DEF Resting
<1>2. DOMAIN Route = {1}
  BY HostAssumption, RuntimeAssumption
<1>3. ControlInv(HostWorker)
  BY HostAssumption, WorkerFacts
<1>4. work[HostWorker].next = 1
  <2>1. CASE Routed(HostWorker)
    <3>1. work[HostWorker].at # "bind"
      BY <1>3, <2>1 DEF ControlInv
    <3>2. work[HostWorker].next \in DOMAIN Route
      BY <1>3, <2>1, <3>1 DEF ControlInv
    <3>3. QED BY <1>2, <3>2
  <2>2. CASE ~Routed(HostWorker)
    BY <2>2 DEF TurnInv
  <2>3. QED BY <2>1, <2>2
<1>5. QED BY <1>1, <1>3, <1>4 DEF InTurn, ControlInv

\* The steps that end or pass over before an admission.
LEMMA TurnUnadmitted ==
    ASSUME RuntimeInv, TurnInv(work[HostWorker]), NEW now \in Instants,
           \/ \E status \in {"cancelled", "timeout"} : Stop(HostWorker, status)
           \/ Exhaust(HostWorker) \/ Skip(HostWorker) \/ DisposeRaises(HostWorker, now)
           \/ AdmitConflict(HostWorker, now) \/ AdmitWaiting(HostWorker, now)
           \/ AdmitOverflow(HostWorker, now)
    PROVE  TurnKept(work[HostWorker], work'[HostWorker])
<1>1. HostWorker \in Workers /\ ControlInv(HostWorker)
  BY HostAssumption, WorkerFacts
<1>2. CASE \E status \in {"cancelled", "timeout", "exhausted", "raised", "conflict"} :
              Goto(HostWorker, Done(HostWorker, status))
  BY <1>2, TurnEnds DEF Verdicts
<1>3. CASE AdmitWaiting(HostWorker, now)
  BY <1>3, OneTurn, TurnEnds DEF AdmitWaiting, At, Verdicts
<1>4. CASE Skip(HostWorker)
  <2>1. /\ work[HostWorker].at = "select" /\ work[HostWorker].next \in DOMAIN Route
        /\ Goto(HostWorker, Fallback(HostWorker, "skipped"))
    BY <1>1, <1>4, TurnInRange DEF Skip, At
  <2>2. Routed(HostWorker) /\ work[HostWorker].status = "none" /\ "skipped" \in Verdicts
    BY <1>1, <2>1 DEF ControlInv, Verdicts
  <2>3. QED BY <2>1, <2>2, TurnFallsBack
<1>5. CASE Routed(HostWorker) /\ AdmitOverflow(HostWorker, now)
  <2>1. /\ work[HostWorker].at = "admit"
        /\ Goto(HostWorker, Fallback(HostWorker, "context_overflow"))
    BY <1>5 DEF AdmitOverflow, At
  <2>2. /\ work[HostWorker].next \in DOMAIN Route /\ work[HostWorker].status = "none"
        /\ "context_overflow" \in Verdicts
    BY <1>1, <1>5, <2>1 DEF ControlInv, Verdicts
  <2>3. QED BY <1>5, <2>1, <2>2, TurnFallsBack
<1>6. QED
  BY <1>2, <1>3, <1>4, <1>5 DEF Stop, Exhaust, DisposeRaises, AdmitConflict, AdmitOverflow

\* The steps that go on, or settle.
LEMMA TurnAdmitted ==
    ASSUME RuntimeInv, TurnInv(work[HostWorker]), NEW now \in Instants,
           \/ CheckAdmitted(HostWorker) \/ SettleRejected(HostWorker)
           \/ \E status \in {"cancelled", "timeout"} : Interrupt(HostWorker, status)
           \/ FailAnswer(HostWorker, now) \/ DisposeAnswer(HostWorker, now)
           \/ AbstainAnswer(HostWorker)
           \/ \E request \in WakeRequests \cup {NoTime} : CommitAnswer(HostWorker, now, request)
    PROVE  TurnKept(work[HostWorker], work'[HostWorker])
<1>1. HostWorker \in Workers /\ work[HostWorker] \in WorkRow
  BY HostAssumption, WorkerFacts
<1>2. CASE CheckAdmitted(HostWorker)
  <2>1. work[HostWorker].at = "owned"
    BY <1>2 DEF CheckAdmitted, At
  <2>2. CASE Goto(HostWorker, Done(HostWorker, "conflict"))
    BY <2>2, TurnEnds DEF Verdicts
  <2>3. CASE Goto(HostWorker, Step(HostWorker, "respond"))
    <3>1. PICK next : next = Step(HostWorker, "respond")
      OBVIOUS
    <3>2. "respond" \in Places /\ "respond" \in Owning \ Resting
      BY DEF Places, Owning, Resting
    <3>3. /\ next.at = "respond" /\ next.next = work[HostWorker].next
          /\ next.context = work[HostWorker].context
      BY <1>1, <3>1, <3>2, StepFields
    <3>4. work'[HostWorker] = next
      BY <1>1, <2>3, <3>1 DEF Goto, RuntimeInv
    <3>5. TurnKept(work[HostWorker], next)
      BY <3>2, <3>3, TurnGoesOn DEF Resting
    <3>6. QED BY <3>4, <3>5
  <2>4. QED BY <1>2, <2>2, <2>3 DEF CheckAdmitted
<1>3. CASE SettleRejected(HostWorker)
  <2>1. work[HostWorker].at \in {"judge", "settle"}
    BY <1>3 DEF SettleRejected, At
  <2>2. \/ \E status \in {"conflict", "failed"} : Finished(HostWorker, status)
        \/ Goto(HostWorker, Done(HostWorker, "raised"))
    BY <1>3 DEF SettleRejected
  <2>3. QED BY <2>1, <2>2, TurnFinishes, TurnEnds DEF Verdicts
<1>4. CASE ~CheckAdmitted(HostWorker) /\ ~SettleRejected(HostWorker)
  <2>1. work[HostWorker].at \in {"judge", "settle"}
    BY <1>4 DEF Interrupt, FailAnswer, DisposeAnswer, AbstainAnswer, CommitAnswer, At
  <2>2. \E status \in {"cancelled", "timeout", "raised", "failed", "disposed", "abstained",
                       "committed"} : Finished(HostWorker, status)
    BY <1>4 DEF Interrupt, FailAnswer, FailedStatus, DisposeAnswer, AbstainAnswer, CommitAnswer
  <2>3. QED BY <2>1, <2>2, TurnFinishes DEF Verdicts
<1>5. QED BY <1>2, <1>3, <1>4

\* The steps that go on before an attempt is settled.
LEMMA TurnAdvances ==
    ASSUME RuntimeInv, TurnInv(work[HostWorker]), NEW now \in Instants,
           \/ Bind(HostWorker, now) \/ OpenSession(HostWorker) \/ CheckHead(HostWorker)
           \/ \E answer \in Answers : Respond(HostWorker, answer)
           \/ \E reason \in {"conflict", "error", "overflow"} : Reject(HostWorker, reason)
    PROVE  TurnKept(work[HostWorker], work'[HostWorker])
<1>1. /\ HostWorker \in Workers /\ work[HostWorker] \in WorkRow /\ ControlInv(HostWorker)
      /\ work \in [Workers -> WorkRow]
  BY HostAssumption, WorkerFacts DEF RuntimeInv
<1>2. ASSUME NEW pc \in {"check", "admit", "judge", "settle"},
             NEW next, work'[HostWorker] = next, next.at = pc,
             pc \in {"check", "admit"} => work[HostWorker].at \in Resting,
             next.next = work[HostWorker].next,
             Routed(HostWorker) => next.context = work[HostWorker].context
      PROVE  TurnKept(work[HostWorker], work'[HostWorker])
  <2>1. /\ pc \in (Resting \cup Owning) \ {"idle"}
        /\ pc \in Resting => work[HostWorker].at \in Resting
    BY <1>2 DEF Resting, Owning
  <2>2. TurnKept(work[HostWorker], next)
    BY <1>2, <2>1, TurnGoesOn
  <2>3. QED BY <1>2, <2>2
<1>3. ASSUME NEW pc \in {"check", "admit", "judge", "settle"},
             NEW next, next = Step(HostWorker, pc)
      PROVE  /\ next \in WorkRow /\ next.at = pc /\ next.next = work[HostWorker].next
             /\ next.context = work[HostWorker].context
  <2>1. pc \in Places
    BY DEF Places, Resting, Owning
  <2>2. QED BY <1>1, <1>3, <2>1, StepFields
<1>4. CASE Bind(HostWorker, now)
  <2>1. work[HostWorker].at = "bind"
    BY <1>4 DEF Bind, At
  <2>2. CASE \E status \in {"raised", "waiting"} : Goto(HostWorker, Done(HostWorker, status))
    BY <2>1, <2>2, OneTurn, TurnEnds DEF Verdicts
  <2>3. ASSUME NEW seen, Goto(HostWorker, [Step(HostWorker, "admit") EXCEPT !.context = seen])
        PROVE  TurnKept(work[HostWorker], work'[HostWorker])
    <3>1. PICK r : r = Step(HostWorker, "admit")
      OBVIOUS
    <3>2. r \in WorkRow /\ r.at = "admit" /\ r.next = work[HostWorker].next
      BY <1>3, <3>1
    <3>3. PICK next : next = [r EXCEPT !.context = seen]
      OBVIOUS
    <3>4. next.at = "admit" /\ next.next = work[HostWorker].next
      BY <3>2, <3>3 DEF WorkRow
    <3>5. work'[HostWorker] = next
      BY <1>1, <2>3, <3>1, <3>3 DEF Goto
    <3>6. ~Routed(HostWorker)
      BY <1>1, <2>1 DEF ControlInv
    <3>7. QED BY <1>2, <2>1, <3>4, <3>5, <3>6 DEF Resting
  <2>4. QED BY <1>4, <2>2, <2>3 DEF Bind
<1>5. CASE OpenSession(HostWorker)
  <2>1. PICK next : next = Step(HostWorker, "check")
    OBVIOUS
  <2>2. work'[HostWorker] = next /\ work[HostWorker].at \in Resting
    BY <1>1, <1>5, <2>1 DEF OpenSession, Goto, At, Resting
  <2>3. QED BY <1>2, <1>3, <2>1, <2>2
<1>6. CASE CheckHead(HostWorker)
  <2>1. work[HostWorker].at \in Resting
    BY <1>6 DEF CheckHead, At, Resting
  <2>2. CASE Goto(HostWorker, Done(HostWorker, "conflict"))
    BY <2>2, TurnEnds DEF Verdicts
  <2>3. CASE Goto(HostWorker, Step(HostWorker, "admit"))
    <3>1. PICK next : next = Step(HostWorker, "admit")
      OBVIOUS
    <3>2. work'[HostWorker] = next
      BY <1>1, <2>3, <3>1 DEF Goto
    <3>3. QED BY <1>2, <1>3, <2>1, <3>1, <3>2
  <2>4. QED BY <1>6, <2>2, <2>3 DEF CheckHead
<1>7. ASSUME NEW answer \in Answers, Respond(HostWorker, answer)
      PROVE  TurnKept(work[HostWorker], work'[HostWorker])
  <2>1. PICK r : r = Step(HostWorker, "judge")
    OBVIOUS
  <2>2. PICK next : next = [r EXCEPT !.answer = answer]
    OBVIOUS
  <2>3. work'[HostWorker] = next
    BY <1>1, <1>7, <2>1, <2>2 DEF Respond, Goto
  <2>4. r \in WorkRow /\ next.at = r.at /\ next.next = r.next /\ next.context = r.context
    BY <1>3, <2>1, <2>2 DEF WorkRow
  <2>5. QED BY <1>2, <1>3, <2>1, <2>3, <2>4
<1>8. ASSUME NEW why \in {"conflict", "error", "overflow"}, Reject(HostWorker, why)
      PROVE  TurnKept(work[HostWorker], work'[HostWorker])
  <2>1. PICK r : r = Step(HostWorker, "settle")
    OBVIOUS
  <2>2. PICK next : next = [r EXCEPT !.reason = why]
    OBVIOUS
  <2>3. work'[HostWorker] = next
    BY <1>1, <1>8, <2>1, <2>2 DEF Reject, Goto
  <2>4. r \in WorkRow /\ next.at = r.at /\ next.next = r.next /\ next.context = r.context
    BY <1>3, <2>1, <2>2 DEF WorkRow
  <2>5. QED BY <1>2, <1>3, <2>1, <2>3, <2>4
<1>9. QED BY <1>4, <1>5, <1>6, <1>7, <1>8

\* The admission uses the turn up.
LEMMA TurnIsSpent ==
    ASSUME RuntimeInv, TurnInv(work[HostWorker]),
           NEW now \in Instants, NEW maintenance \in MaintenanceModes,
           AdmitAttempt(HostWorker, now, maintenance)
    PROVE  /\ TurnKept(work[HostWorker], work'[HostWorker])
           /\ InTurn(work[HostWorker])
           /\ ~InTurn(work'[HostWorker])
           /\ Len(attempts') = Len(attempts) + 1
<1>1. /\ HostWorker \in Workers /\ work[HostWorker] \in WorkRow
      /\ work \in [Workers -> WorkRow]
  BY HostAssumption, WorkerFacts DEF RuntimeInv
<1>2. /\ work[HostWorker].at = "admit" /\ Admit(now, maintenance)
      /\ Goto(HostWorker, [Step(HostWorker, IF Routed(HostWorker) THEN "owned" ELSE "respond")
                              EXCEPT !.attempt = Len(attempts) + 1])
  BY DEF AdmitAttempt, At
<1>3. PICK pc : pc = IF Routed(HostWorker) THEN "owned" ELSE "respond"
  OBVIOUS
<1>4. pc \in Places /\ pc \in Owning \ Resting /\ pc # "done" /\ pc # "idle"
  BY <1>3 DEF Places, Owning, Resting
<1>5. PICK r : r = Step(HostWorker, pc)
  OBVIOUS
<1>6. /\ r \in WorkRow /\ r.at = pc /\ r.next = work[HostWorker].next
      /\ r.context = work[HostWorker].context
  BY <1>1, <1>4, <1>5, StepFields
<1>7. PICK next : next = [r EXCEPT !.attempt = Len(attempts) + 1]
  OBVIOUS
<1>8. next.at = r.at /\ next.next = r.next /\ next.context = r.context
  BY <1>6, <1>7 DEF WorkRow
<1>9. work'[HostWorker] = next
  BY <1>1, <1>2, <1>3, <1>5, <1>7 DEF Goto
<1>10. TurnKept(work[HostWorker], next)
  BY <1>4, <1>6, <1>8, TurnGoesOn
<1>11. ~InTurn(next)
  BY <1>4, <1>6, <1>8 DEF InTurn
<1>12. Len(attempts') = Len(attempts) + 1
  <2>1. TypeOK
    BY DEF RuntimeInv, StoreInv, KernelInv
  <2>2. QED BY <1>2, <2>1 DEF Admit, TypeOK
<1>13. QED BY <1>2, <1>9, <1>10, <1>11, <1>12, OneTurn

\* A step of the host's worker admits at most once.
LEMMA TurnStep ==
    ASSUME RuntimeInv, TurnInv(work[HostWorker]), NEW now \in Instants,
           StepNext(HostWorker, now)
    PROVE  /\ TurnKept(work[HostWorker], work'[HostWorker])
           /\ \/ Len(attempts') = Len(attempts)
              \/ /\ Len(attempts') = Len(attempts) + 1
                 /\ InTurn(work[HostWorker])
                 /\ ~InTurn(work'[HostWorker])
<1>1. CASE \E maintenance \in MaintenanceModes : AdmitAttempt(HostWorker, now, maintenance)
  BY <1>1, TurnIsSpent
<1>2. CASE ~\E maintenance \in MaintenanceModes : AdmitAttempt(HostWorker, now, maintenance)
  <2>1. Len(attempts') = Len(attempts)
    BY <1>2, HostAssumption, OnlyAdmissionGrows
  <2>2. TurnKept(work[HostWorker], work'[HostWorker])
    BY <1>2, TurnUnadmitted, TurnAdmitted, TurnAdvances DEF StepNext
  <2>3. QED BY <2>1, <2>2
<1>3. QED BY <1>1, <1>2

-----------------------------------------------------------------------------
(* The loop, while store and workers rest.                                 *)

LEMMA NothingRow == Nothing \in StagedRow /\ NoContext \in ContextRow
<1>1. NoContext \in ContextRow
  BY IdleRow DEF ContextRow
<1>2. QED BY <1>1 DEF Nothing, StagedRow

\* What the assignments of the loop and its operator make of Control.
LEMMA HostUpdate ==
    ASSUME NEW h \in HostRow
    PROVE  /\ \A at \in Spots, paused \in BOOLEAN, running \in BOOLEAN, last \in Words,
                 staged \in StagedRow, held \in StagedRow, target \in ContextRow :
                 [h EXCEPT !.at = at, !.paused = paused, !.running = running, !.last = last,
                           !.staged = staged, !.held = held, !.target = target] \in HostRow
           /\ \A at \in Spots : [h EXCEPT !.at = at] \in HostRow
           /\ \A at \in Spots, target \in ContextRow :
                 [h EXCEPT !.at = at, !.target = target] \in HostRow
           /\ \A at \in Spots, target \in ContextRow, held \in StagedRow :
                 [h EXCEPT !.at = at, !.target = target, !.held = held] \in HostRow
           /\ \A at \in Spots, running \in BOOLEAN, held \in StagedRow, staged \in StagedRow :
                 [h EXCEPT !.at = at, !.running = running, !.held = held, !.staged = staged]
                    \in HostRow
           /\ \A paused \in BOOLEAN : [h EXCEPT !.paused = paused] \in HostRow
           /\ \A paused \in BOOLEAN, staged \in StagedRow :
                 [h EXCEPT !.paused = paused, !.staged = staged] \in HostRow
BY DEF HostRow

\* And what operator and observer count.
LEMMA TraceUpdate ==
    ASSUME NEW t \in TraceRow
    PROVE  /\ \A openings \in Nat, quiet \in BOOLEAN :
                 [t EXCEPT !.openings = openings, !.quiet = quiet] \in TraceRow
           /\ \A openings \in Nat, reports \in Nat, quiet \in BOOLEAN :
                 [t EXCEPT !.openings = openings, !.reports = reports, !.quiet = quiet]
                    \in TraceRow
           /\ \A quiet \in BOOLEAN : [t EXCEPT !.quiet = quiet] \in TraceRow
           /\ \A delivered \in Nat : [t EXCEPT !.delivered = delivered] \in TraceRow
           /\ \A fruitless \in Nat : [t EXCEPT !.fruitless = fruitless] \in TraceRow
           /\ t.openings + 1 \in Nat /\ t.reports + 1 \in Nat /\ t.delivered + 1 \in Nat
           /\ t.fruitless + 1 \in Nat
           /\ t.delivered \in Nat /\ t.fruitless \in Nat
<1>1. ASSUME NEW openings \in Nat, NEW reports \in Nat, NEW quiet \in BOOLEAN
      PROVE  /\ [t EXCEPT !.openings = openings, !.quiet = quiet] \in TraceRow
             /\ [t EXCEPT !.openings = openings, !.reports = reports, !.quiet = quiet]
                   \in TraceRow
  BY DEF TraceRow
<1>2. /\ \A quiet \in BOOLEAN : [t EXCEPT !.quiet = quiet] \in TraceRow
      /\ \A delivered \in Nat : [t EXCEPT !.delivered = delivered] \in TraceRow
      /\ \A fruitless \in Nat : [t EXCEPT !.fruitless = fruitless] \in TraceRow
  BY DEF TraceRow
<1>3. /\ t.openings \in Nat /\ t.reports \in Nat /\ t.delivered \in Nat
      /\ t.fruitless \in Nat
  BY DEF TraceRow
<1>4. /\ \A openings \in Nat, quiet \in BOOLEAN :
            [t EXCEPT !.openings = openings, !.quiet = quiet] \in TraceRow
      /\ \A openings \in Nat, reports \in Nat, quiet \in BOOLEAN :
            [t EXCEPT !.openings = openings, !.reports = reports, !.quiet = quiet] \in TraceRow
  <2>1. 0 \in Nat
    OBVIOUS
  <2>2. QED BY <1>1, <2>1
<1>5. /\ t.openings + 1 \in Nat /\ t.reports + 1 \in Nat /\ t.delivered + 1 \in Nat
      /\ t.fruitless + 1 \in Nat
  BY <1>3
<1>6. QED BY <1>2, <1>3, <1>4, <1>5

\* What the invariant says of a loop outside of a step.
LEMMA LoopFacts ==
    ASSUME HostInv
    PROVE  /\ host \in HostRow /\ trace \in TraceRow
           /\ host.at \in Spots /\ host.paused \in BOOLEAN /\ host.running \in BOOLEAN
           /\ host.last \in Words /\ host.staged \in StagedRow /\ host.held \in StagedRow
           /\ host.target \in ContextRow
           /\ host.running <=> host.at \in Busy
           /\ host.running => host.staged = Nothing
           /\ ~host.running => host.held = Nothing
           /\ Named(host.staged) /\ Named(host.held)
           /\ host.at \in {"observe", "recheck", "merge"} => host.target.occasion # NoRow
           /\ trace.quiet => host.paused /\ ~host.running
           /\ trace.fruitless + (IF host.paused /\ ~host.running THEN 0 ELSE 1) <= trace.openings
           /\ host.at # "stepping" =>
                 trace.delivered + Unspent(host.staged) + Unspent(host.held) <= trace.reports
<1>1. host \in HostRow /\ trace \in TraceRow /\ LoopInv /\ ContextInv /\ QuietInv
      /\ OpeningInv /\ DeliveryInv
  BY DEF HostInv
<1>2. /\ host.at \in Spots /\ host.paused \in BOOLEAN /\ host.running \in BOOLEAN
      /\ host.last \in Words /\ host.staged \in StagedRow /\ host.held \in StagedRow
      /\ host.target \in ContextRow
  BY <1>1 DEF HostRow
<1>3. host.at # "stepping" =>
         trace.delivered + Unspent(host.staged) + Unspent(host.held) <= trace.reports
  BY <1>1 DEF DeliveryInv, Usable, Loop
<1>4. QED BY <1>1, <1>2, <1>3 DEF LoopInv, ContextInv, QuietInv, OpeningInv

\* The loop, or its operator, moves outside of a step.
LEMMA LoopMove ==
    ASSUME HostInv, UNCHANGED runtimeVars, NEW h \in HostRow, host' = h,
           NEW t \in TraceRow, trace' = t,
           host.at # "stepping", h.at # "stepping",
           h.running <=> h.at \in Busy,
           h.running => h.staged = Nothing,
           ~h.running => h.held = Nothing,
           Named(h.staged), Named(h.held),
           h.at \in {"observe", "recheck", "merge"} => h.target.occasion # NoRow,
           t.quiet => h.paused /\ ~h.running,
           t.fruitless + (IF h.paused /\ ~h.running THEN 0 ELSE 1) <= t.openings,
           t.delivered + Unspent(h.staged) + Unspent(h.held) <= t.reports
    PROVE  HostInv'
<1>1. RuntimeInv'
  BY NextRuntimeInv DEF HostInv
<1>2. UNCHANGED work
  BY DEF runtimeVars, localVars
<1>3. TurnInv(work[HostWorker])' /\ LoopInv'
  BY <1>2 DEF HostInv, TurnInv, Routed, LoopInv, Loop
<1>4. ContextInv' /\ QuietInv' /\ OpeningInv'
  BY DEF ContextInv, QuietInv, OpeningInv, Loop
<1>5. DeliveryInv'
  BY DEF DeliveryInv, Usable, Loop
<1>6. QED BY <1>1, <1>3, <1>4, <1>5 DEF HostInv

\* The loop goes to another line.
LEMMA LoopGoes ==
    ASSUME HostInv, UNCHANGED runtimeVars, UNCHANGED trace,
           NEW at \in Spots \ {"stepping"}, host.at # "stepping",
           at \in Busy <=> host.at \in Busy,
           NEW target \in ContextRow,
           at \in {"observe", "recheck", "merge"} => target.occasion # NoRow,
           \/ host' = [host EXCEPT !.at = at] /\ target = host.target
           \/ host' = [host EXCEPT !.at = at, !.target = target]
    PROVE  HostInv'
<1>1. PICK h \in HostRow : h = host'
  BY LoopFacts, HostUpdate
<1>2. PICK r \in HostRow : r = host
  BY LoopFacts
<1>3. /\ h.at = at /\ h.paused = r.paused /\ h.running = r.running /\ h.staged = r.staged
      /\ h.held = r.held /\ h.target = target
  BY <1>1, <1>2 DEF HostRow
<1>4. PICK t \in TraceRow : t = trace /\ trace' = t
  BY LoopFacts
<1>5. QED BY <1>1, <1>2, <1>3, <1>4, LoopFacts, LoopMove

\* A preparation that leads to no step.
LEMMA LoopDrops ==
    ASSUME HostInv, UNCHANGED runtimeVars, UNCHANGED trace,
           host.at \in Busy \ {"stepping"},
           \/ host' = ImageFailed
           \/ /\ host.paused
              /\ host' = [host EXCEPT !.at = "top", !.running = FALSE, !.held = Nothing,
                                      !.target = NoContext]
    PROVE  HostInv'
<1>1. PICK r \in HostRow : r = host
  BY LoopFacts
<1>2. /\ "top" \in Spots \ Busy /\ "top" # "stepping" /\ "image_failed" \in Words
      /\ TRUE \in BOOLEAN /\ FALSE \in BOOLEAN
  BY DEF Spots, Busy, Words
<1>3. /\ r.staged \in StagedRow /\ r.last \in Words /\ r.running /\ r.staged = Nothing
  BY <1>1, LoopFacts
<1>4. PICK h : h = host'
  OBVIOUS
<1>5. /\ h \in HostRow /\ h.at = "top" /\ h.paused = TRUE /\ h.running = FALSE
      /\ h.staged = Nothing /\ h.held = Nothing
  <2>1. CASE host' = ImageFailed
    <3>1. h = [r EXCEPT !.at = "top", !.paused = TRUE, !.running = FALSE, !.last = "image_failed",
                        !.staged = r.staged, !.held = Nothing, !.target = NoContext]
      BY <1>1, <1>4, <2>1 DEF ImageFailed, HostRow
    <3>2. h \in HostRow
      BY <1>2, <1>3, <3>1, NothingRow, HostUpdate
    <3>3. QED BY <1>3, <3>1, <3>2 DEF HostRow
  <2>2. CASE /\ r.paused
             /\ h = [r EXCEPT !.at = "top", !.running = FALSE, !.held = Nothing,
                              !.target = NoContext]
    <3>1. h = [r EXCEPT !.at = "top", !.paused = r.paused, !.running = FALSE, !.last = r.last,
                        !.staged = r.staged, !.held = Nothing, !.target = NoContext]
      BY <2>2 DEF HostRow
    <3>2. r.paused \in BOOLEAN /\ r.paused = TRUE
      BY <2>2 DEF HostRow
    <3>3. h \in HostRow
      BY <1>2, <1>3, <3>1, <3>2, NothingRow, HostUpdate
    <3>4. QED BY <1>3, <3>1, <3>2, <3>3 DEF HostRow
  <2>3. QED BY <1>1, <1>4, <2>1, <2>2
<1>6. PICK t \in TraceRow : t = trace /\ trace' = t
  BY LoopFacts
<1>7. /\ t.fruitless + 1 <= t.openings
      /\ t.delivered + Unspent(Nothing) + Unspent(host.held) <= t.reports
  BY <1>1, <1>3, <1>6, LoopFacts
<1>8. t.fruitless <= t.openings /\ t.delivered + Unspent(Nothing) + Unspent(Nothing) <= t.reports
  BY <1>7 DEF TraceRow, Unspent, Nothing
<1>9. Named(Nothing) /\ h.at \notin Busy \cup {"observe", "recheck", "merge", "stepping"}
  BY <1>2, <1>5 DEF Named, Busy
<1>10. QED BY <1>4, <1>5, <1>6, <1>8, <1>9, LoopMove DEF TraceRow

\* The staged context moves into the step to come.
LEMMA TakeInv ==
    ASSUME HostInv, Take
    PROVE  HostInv'
<1>1. host.at = "take" /\ UNCHANGED runtimeVars /\ UNCHANGED trace
  BY DEF Take, Loop, OnlyLoop
<1>2. CASE host' = [host EXCEPT !.at = "top"]
  BY <1>1, <1>2, LoopFacts, LoopGoes DEF Spots, Busy
<1>3. CASE ~host.paused /\ host' = Taken
  <2>1. PICK r \in HostRow : r = host
    BY LoopFacts
  <2>2. /\ r.staged \in StagedRow /\ r.held = Nothing /\ r.paused = FALSE
        /\ "prepare" \in Spots /\ "prepare" \in Busy /\ TRUE \in BOOLEAN
    BY <1>1, <1>3, <2>1, LoopFacts DEF Spots, Busy
  <2>3. PICK h \in HostRow : /\ h = host'
                             /\ h = [r EXCEPT !.at = "prepare", !.running = TRUE,
                                              !.held = r.staged, !.staged = Nothing]
    <3>1. [r EXCEPT !.at = "prepare", !.running = TRUE, !.held = r.staged, !.staged = Nothing]
             \in HostRow
      BY <2>2, NothingRow, HostUpdate
    <3>2. host' = [r EXCEPT !.at = "prepare", !.running = TRUE, !.held = r.staged,
                            !.staged = Nothing]
      BY <1>3, <2>1 DEF Taken
    <3>3. QED BY <3>1, <3>2
  <2>4. /\ h.at = "prepare" /\ h.running = TRUE /\ h.paused = FALSE /\ h.held = r.staged
        /\ h.staged = Nothing
    BY <2>2, <2>3 DEF HostRow
  <2>5. PICK t \in TraceRow : t = trace /\ trace' = t
    BY <1>1, LoopFacts
  <2>6. ~t.quiet /\ t.fruitless + 1 <= t.openings
    BY <2>1, <2>2, <2>5, LoopFacts
  <2>7. t.delivered + Unspent(h.staged) + Unspent(h.held) <= t.reports
    <3>1. t.delivered + Unspent(r.staged) + Unspent(Nothing) <= t.reports
      BY <1>1, <2>1, <2>2, <2>5, LoopFacts
    <3>2. QED BY <2>4, <3>1 DEF TraceRow, Unspent
  <2>8. Named(h.held) /\ Named(h.staged)
    BY <2>1, <2>4, LoopFacts DEF Named
  <2>9. h.at \notin {"observe", "recheck", "merge", "stepping"} /\ h.at \in Busy
    BY <2>2, <2>4
  <2>10. QED BY <1>1, <2>3, <2>4, <2>5, <2>6, <2>7, <2>8, <2>9, LoopMove
<1>4. QED BY <1>2, <1>3 DEF Take

\* The observation joins the operator's packets.
LEMMA MergeInv ==
    ASSUME HostInv, Merge
    PROVE  HostInv'
<1>1. host.at = "merge" /\ UNCHANGED runtimeVars /\ UNCHANGED trace
  BY DEF Merge, Loop, OnlyLoop
<1>2. host.at \in Busy \ {"stepping"}
  BY <1>1 DEF Busy
<1>3. CASE \/ host' = ImageFailed
           \/ /\ host.paused
              /\ host' = [host EXCEPT !.at = "top", !.running = FALSE, !.held = Nothing,
                                      !.target = NoContext]
  BY <1>1, <1>2, <1>3, LoopDrops
<1>4. CASE /\ ~host.paused
           /\ host' = [host EXCEPT !.at = "step", !.target = NoContext,
                                   !.held = [bind |-> host.target,
                                             packets |-> host.held.packets \cup {"image"}]]
  <2>1. PICK r \in HostRow : r = host
    BY LoopFacts
  <2>2. PICK held \in StagedRow :
           held = [bind |-> r.target, packets |-> r.held.packets \cup {"image"}]
    BY DEF HostRow, StagedRow
  <2>3. "step" \in Spots /\ "step" \in Busy
    BY DEF Spots, Busy
  <2>4. PICK h \in HostRow : /\ h = host'
                             /\ h = [r EXCEPT !.at = "step", !.target = NoContext,
                                              !.held = held]
    <3>1. [r EXCEPT !.at = "step", !.target = NoContext, !.held = held] \in HostRow
      BY <2>3, NothingRow, HostUpdate
    <3>2. host' = [r EXCEPT !.at = "step", !.target = NoContext, !.held = held]
      BY <1>4, <2>1, <2>2
    <3>3. QED BY <3>1, <3>2
  <2>5. /\ h.at = "step" /\ h.running = r.running /\ h.paused = r.paused /\ h.held = held
        /\ h.staged = r.staged
    BY <2>4 DEF HostRow
  <2>6. PICK t \in TraceRow : t = trace /\ trace' = t
    BY <1>1, LoopFacts
  <2>7. Unspent(held) = Unspent(r.held)
    BY <2>2 DEF Unspent
  <2>8. Named(held)
    BY <1>1, <2>1, <2>2, LoopFacts DEF Named
  <2>9. /\ t.delivered + Unspent(r.staged) + Unspent(r.held) <= t.reports
        /\ t.fruitless + (IF r.paused /\ ~r.running THEN 0 ELSE 1) <= t.openings
        /\ t.quiet => r.paused /\ ~r.running
        /\ r.running => r.staged = Nothing
        /\ r.running
        /\ Named(r.staged)
    BY <1>1, <1>2, <2>1, <2>6, LoopFacts
  <2>10. /\ t.delivered + Unspent(h.staged) + Unspent(h.held) <= t.reports
         /\ t.fruitless + (IF h.paused /\ ~h.running THEN 0 ELSE 1) <= t.openings
    BY <2>5, <2>7, <2>9
  <2>11. h.at \notin {"observe", "recheck", "merge", "stepping"}
    BY <2>5
  <2>12. QED
    BY <1>1, <2>3, <2>4, <2>5, <2>6, <2>8, <2>9, <2>10, <2>11, LoopMove
<1>5. QED BY <1>3, <1>4 DEF Merge

\* What a host sees in the store names an occasion when one is offered.
LEMMA OfferedContext ==
    ASSUME HostInv, NEW now \in Instants
    PROVE  /\ ContextAt(now) \in ContextRow
           /\ OfferedOccasions(now) # {} => ContextAt(now).occasion # NoRow
<1>1. ContextAt(now) \in ContextRow
  BY ContextType DEF HostInv, RuntimeInv, ContextRow
<1>2. ASSUME OfferedOccasions(now) # {} PROVE ContextAt(now).occasion # NoRow
  <2>1. OfferedOccasions(now) \subseteq OccasionIds
    BY DEF OfferedOccasions
  <2>2. OfferedOccasions(now) \in SUBSET Nat
    BY <2>1 DEF OccasionIds
  <2>3. Min(OfferedOccasions(now)) \in OccasionIds
    BY <1>2, <2>1, <2>2, MinIsMember
  <2>4. Min(OfferedOccasions(now)) # NoRow
    BY <2>3 DEF OccasionIds, NoRow
  <2>5. QED BY <1>2, <2>4 DEF ContextAt
<1>3. QED BY <1>1, <1>2

\* The worker's loop outside of a step.
LEMMA LoopStepInv ==
    ASSUME HostInv,
           \/ Exit \/ Take \/ Observe \/ ObserveFails \/ Merge
           \/ \E now \in Instants : Poll(now) \/ Prepare(now) \/ Recheck(now)
    PROVE  HostInv'
<1>1. CASE Exit
  BY <1>1, LoopFacts, LoopGoes DEF Exit, Loop, OnlyLoop, Spots, Busy
<1>2. CASE Take
  BY <1>2, TakeInv
<1>3. CASE Observe
  <2>1. host.at = "observe" /\ host' = [host EXCEPT !.at = "recheck"]
    BY <1>3 DEF Observe, Loop
  <2>2. UNCHANGED runtimeVars /\ UNCHANGED trace
    BY <1>3 DEF Observe
  <2>3. host.target.occasion # NoRow /\ host.target \in ContextRow
    BY <2>1, LoopFacts
  <2>4. "recheck" \in Spots \ {"stepping"} /\ "recheck" \in Busy /\ "observe" \in Busy
    BY DEF Spots, Busy
  <2>5. QED BY <2>1, <2>2, <2>3, <2>4, LoopGoes
<1>4. CASE ObserveFails
  BY <1>4, LoopDrops DEF ObserveFails, OnlyLoop, Busy
<1>5. CASE Merge
  BY <1>5, MergeInv
<1>6. ASSUME NEW now \in Instants, Poll(now) PROVE HostInv'
  <2>1. /\ host.at = "top" /\ host' = [host EXCEPT !.at = "take"]
        /\ UNCHANGED runtimeVars /\ UNCHANGED trace
    BY <1>6 DEF Poll, Loop, OnlyLoop
  <2>2. "take" \in Spots \ {"stepping"} /\ "take" \notin Busy /\ "top" \notin Busy
    BY DEF Spots, Busy
  <2>3. host.target \in ContextRow
    BY LoopFacts
  <2>4. QED BY <2>1, <2>2, <2>3, LoopGoes
<1>7. ASSUME NEW now \in Instants, Prepare(now) PROVE HostInv'
  <2>1. host.at = "prepare" /\ UNCHANGED runtimeVars /\ UNCHANGED trace
    BY <1>7 DEF Prepare, Loop, OnlyLoop
  <2>2. "prepare" \in Busy /\ host.target \in ContextRow
    BY LoopFacts DEF Busy
  <2>3. CASE host' = [host EXCEPT !.at = "step"]
    <3>1. "step" \in Spots \ {"stepping"} /\ "step" \in Busy
      BY DEF Spots, Busy
    <3>2. QED BY <2>1, <2>2, <2>3, <3>1, LoopGoes
  <2>4. ASSUME NEW at \in {"recheck", "observe"}, ImageOffered(now),
               host' = [host EXCEPT !.target = ContextAt(now), !.at = at]
        PROVE  HostInv'
    <3>1. ContextAt(now) \in ContextRow /\ ContextAt(now).occasion # NoRow
      BY <2>4, OfferedContext DEF ImageOffered
    <3>2. PICK r \in HostRow : r = host
      BY LoopFacts
    <3>3. host' = [host EXCEPT !.at = at, !.target = ContextAt(now)]
      BY <2>4, <3>2 DEF HostRow
    <3>4. at \in Spots \ {"stepping"} /\ at \in Busy
      BY <2>4 DEF Spots, Busy
    <3>5. QED BY <2>1, <2>2, <3>1, <3>3, <3>4, LoopGoes
  <2>5. QED BY <1>7, <2>3, <2>4 DEF Prepare
<1>8. ASSUME NEW now \in Instants, Recheck(now) PROVE HostInv'
  <2>1. /\ host.at = "recheck" /\ UNCHANGED runtimeVars /\ UNCHANGED trace
        /\ host' = ImageFailed \/ host' = [host EXCEPT !.at = "merge"]
    BY <1>8 DEF Recheck, Loop, OnlyLoop
  <2>2. CASE host' = ImageFailed
    BY <2>1, <2>2, LoopDrops DEF Busy
  <2>3. CASE host' = [host EXCEPT !.at = "merge"]
    <3>1. host.target.occasion # NoRow /\ host.target \in ContextRow
      BY <2>1, LoopFacts
    <3>2. QED BY <2>1, <2>3, <3>1, LoopGoes DEF Spots, Busy
  <2>4. QED BY <2>1, <2>2, <2>3
<1>9. QED BY <1>1, <1>2, <1>3, <1>4, <1>5, <1>6, <1>7, <1>8

\* The operator, at any point of the loop.
LEMMA OperatorInv ==
    ASSUME HostInv, Pause \/ Resume \/ \E now \in Instants : Evidence(now)
    PROVE  HostInv'
<1>1. PICK r \in HostRow, t \in TraceRow : r = host /\ t = trace
  BY LoopFacts
<1>2. UNCHANGED runtimeVars /\ UNCHANGED work
  BY DEF Pause, Resume, Evidence, OnlyLoop, runtimeVars, localVars
<1>3. RuntimeInv' /\ TurnInv(work[HostWorker])'
  BY <1>2, NextRuntimeInv DEF HostInv, TurnInv, Routed
<1>4. ASSUME NEW paused \in BOOLEAN, host' = [r EXCEPT !.paused = paused],
             NEW u \in TraceRow, trace' = u,
             u.quiet => paused /\ ~r.running,
             u.fruitless + (IF paused /\ ~r.running THEN 0 ELSE 1) <= u.openings,
             u.delivered = t.delivered, u.reports = t.reports
      PROVE  HostInv'
  <2>1. PICK h \in HostRow : h = host'
    BY <1>4, HostUpdate
  <2>2. /\ h.at = r.at /\ h.paused = paused /\ h.running = r.running /\ h.staged = r.staged
        /\ h.held = r.held /\ h.target = r.target
    BY <1>4, <2>1 DEF HostRow
  <2>3. LoopInv' /\ ContextInv'
    BY <1>1, <1>2, <2>1, <2>2 DEF HostInv, LoopInv, ContextInv, Loop, Routed
  <2>4. QuietInv' /\ OpeningInv'
    BY <1>4, <2>1, <2>2 DEF QuietInv, OpeningInv
  <2>5. DeliveryInv'
    BY <1>1, <1>2, <1>4, <2>1, <2>2 DEF HostInv, DeliveryInv, Usable, Loop
  <2>6. QED BY <1>3, <1>4, <2>1, <2>3, <2>4, <2>5 DEF HostInv
<1>5. CASE Pause
  <2>1. PICK u \in TraceRow : u = trace' /\ u = [t EXCEPT !.quiet = ~r.running]
    <3>1. (~r.running) \in BOOLEAN
      OBVIOUS
    <3>2. [t EXCEPT !.quiet = ~r.running] \in TraceRow
      BY <3>1, TraceUpdate
    <3>3. QED BY <1>1, <1>5, <3>2 DEF Pause
  <2>2. /\ u.quiet = ~r.running /\ u.fruitless = t.fruitless /\ u.openings = t.openings
        /\ u.delivered = t.delivered /\ u.reports = t.reports
    BY <2>1 DEF TraceRow
  <2>3. host' = [r EXCEPT !.paused = TRUE]
    BY <1>1, <1>5 DEF Pause
  <2>4. t.fruitless + (IF r.paused /\ ~r.running THEN 0 ELSE 1) <= t.openings
    BY <1>1, LoopFacts
  <2>5. u.fruitless + (IF TRUE /\ ~r.running THEN 0 ELSE 1) <= u.openings
    BY <2>2, <2>4 DEF TraceRow
  <2>6. QED BY <1>4, <2>1, <2>2, <2>3, <2>5
<1>6. CASE Resume
  <2>1. PICK u \in TraceRow : u = trace' /\ u = [t EXCEPT !.openings = @ + 1, !.quiet = FALSE]
    <3>1. trace' = [t EXCEPT !.openings = t.openings + 1, !.quiet = FALSE]
      BY <1>1, <1>6 DEF Resume
    <3>2. [t EXCEPT !.openings = t.openings + 1, !.quiet = FALSE] \in TraceRow
      BY TraceUpdate
    <3>3. QED BY <3>1, <3>2
  <2>2. /\ u.quiet = FALSE /\ u.fruitless = t.fruitless /\ u.openings = t.openings + 1
        /\ u.delivered = t.delivered /\ u.reports = t.reports
    BY <2>1 DEF TraceRow
  <2>3. host' = [r EXCEPT !.paused = FALSE]
    BY <1>1, <1>6 DEF Resume
  <2>4. t.fruitless + (IF r.paused /\ ~r.running THEN 0 ELSE 1) <= t.openings
    BY <1>1, LoopFacts
  <2>5. u.fruitless + 1 <= u.openings
    BY <2>2, <2>4 DEF TraceRow
  <2>6. QED BY <1>4, <2>1, <2>2, <2>3, <2>5
<1>7. ASSUME NEW now \in Instants, Evidence(now) PROVE HostInv'
  <2>1. /\ r.paused /\ ~r.running
        /\ host' = [r EXCEPT !.paused = FALSE,
                             !.staged = [bind |-> ContextAt(now), packets |-> {"report"}]]
        /\ trace' = [t EXCEPT !.openings = @ + 1, !.reports = @ + 1, !.quiet = FALSE]
        /\ OfferedOccasions(now) # {}
    BY <1>1, <1>7 DEF Evidence
  <2>2. PICK staged \in StagedRow :
           staged = [bind |-> ContextAt(now), packets |-> {"report"}]
    BY OfferedContext DEF StagedRow
  <2>3. Named(staged) /\ Unspent(staged) = 1
    BY <2>1, <2>2, OfferedContext DEF Named, Unspent
  <2>4. PICK h \in HostRow : h = host' /\ h = [r EXCEPT !.paused = FALSE, !.staged = staged]
    BY <2>1, <2>2, HostUpdate
  <2>5. /\ h.at = r.at /\ h.paused = FALSE /\ h.running = r.running /\ h.staged = staged
        /\ h.held = r.held /\ h.target = r.target
    BY <2>4 DEF HostRow
  <2>6. PICK u \in TraceRow :
           /\ u = trace'
           /\ u = [t EXCEPT !.openings = @ + 1, !.reports = @ + 1, !.quiet = FALSE]
    <3>1. [t EXCEPT !.openings = t.openings + 1, !.reports = t.reports + 1, !.quiet = FALSE]
             \in TraceRow
      BY TraceUpdate
    <3>2. QED BY <2>1, <3>1
  <2>7. /\ u.quiet = FALSE /\ u.fruitless = t.fruitless /\ u.openings = t.openings + 1
        /\ u.delivered = t.delivered /\ u.reports = t.reports + 1
    BY <2>6 DEF TraceRow
  <2>8. /\ r.at \notin Busy /\ r.at # "stepping" /\ r.held = Nothing
        /\ Named(r.held)
        /\ t.fruitless + 0 <= t.openings
        /\ t.delivered + Unspent(r.staged) + Unspent(r.held) <= t.reports
    BY <1>1, <2>1, LoopFacts DEF Busy
  <2>9. /\ u.fruitless + 1 <= u.openings
        /\ u.delivered + Unspent(staged) + Unspent(r.held) <= u.reports
    BY <2>3, <2>7, <2>8 DEF TraceRow, Unspent
  <2>10. r.at \notin {"observe", "recheck", "merge"}
    BY <2>8 DEF Busy
  <2>11. QED
    BY <1>1, <1>2, <2>1, <2>3, <2>4, <2>5, <2>6, <2>7, <2>8, <2>9, <2>10, LoopMove
<1>8. QED BY <1>5, <1>6, <1>7

-----------------------------------------------------------------------------
(* The step, and the end of the process.                                   *)

\* The step begins with the context the loop holds.
LEMMA StepBeginsInv ==
    ASSUME HostInv, StepBegins
    PROVE  HostInv'
<1>1. /\ host.at = "step" /\ host' = [host EXCEPT !.at = "stepping"]
      /\ Goto(HostWorker, Started(HostWorker, Binding))
      /\ UNCHANGED <<vars, registry, crashes, abandoned>> /\ UNCHANGED trace
  BY DEF StepBegins, Loop, Goto
<1>2. PICK r \in HostRow : r = host
  BY LoopFacts
<1>3. /\ HostWorker \in Workers /\ RuntimeInv /\ work[HostWorker].at = "idle"
  BY <1>1, HostAssumption DEF HostInv, LoopInv, Loop
<1>4. PICK context \in ContextRow : context = Binding
  BY <1>2, NothingRow DEF Binding, HostRow, StagedRow
<1>5. context \in [head : Nat, occasion : Nat]
  BY DEF ContextRow
<1>6. /\ RuntimeInv'
      /\ work'[HostWorker].at \in {"bind", "select", "admit"}
      /\ work'[HostWorker].next = 1 /\ work'[HostWorker].context = context
  BY <1>1, <1>3, <1>4, <1>5, StartInv
<1>7. "stepping" \in Spots /\ "stepping" \in Busy /\ "step" \in Busy
  BY DEF Spots, Busy
<1>8. PICK h \in HostRow : h = host' /\ h = [r EXCEPT !.at = "stepping"]
  BY <1>1, <1>2, <1>7, HostUpdate
<1>9. /\ h.at = "stepping" /\ h.paused = r.paused /\ h.running = r.running
      /\ h.staged = r.staged /\ h.held = r.held
  BY <1>8 DEF HostRow
<1>10. TurnInv(work[HostWorker])'
  BY <1>6 DEF TurnInv, Routed
<1>11. LoopInv'
  BY <1>1, <1>2, <1>6, <1>7, <1>8, <1>9, LoopFacts DEF LoopInv, Loop
<1>12. ContextInv'
  BY <1>2, <1>4, <1>6, <1>8, <1>9, LoopFacts DEF ContextInv, Loop, Binding, Routed, Named
<1>13. QuietInv' /\ OpeningInv'
  BY <1>1, <1>2, <1>8, <1>9, LoopFacts DEF QuietInv, OpeningInv
<1>14. DeliveryInv'
  <2>1. trace.delivered + Unspent(r.staged) + Unspent(r.held) <= trace.reports
    BY <1>1, <1>2, LoopFacts
  <2>2. trace'.delivered + Unspent(h.staged) + Unspent(h.held) <= trace'.reports
    BY <1>1, <1>9, <2>1
  <2>3. Usable'
    BY <1>6 DEF Usable, InTurn, Resting
  <2>4. QED BY <1>8, <2>2, <2>3 DEF DeliveryInv
<1>15. trace' \in TraceRow
  BY <1>1, LoopFacts
<1>16. QED
  BY <1>6, <1>8, <1>10, <1>11, <1>12, <1>13, <1>14, <1>15 DEF HostInv

\* The step goes on: an attempt it admits has the report, and no other will.
LEMMA HostStepsInv ==
    ASSUME HostInv, NEW now \in Instants, HostSteps(now)
    PROVE  HostInv'
<1>1. host.at = "stepping" /\ StepNext(HostWorker, now) /\ UNCHANGED host
  BY DEF HostSteps, Loop
<1>2. /\ HostWorker \in Workers /\ RuntimeInv /\ TurnInv(work[HostWorker])
      /\ LoopInv /\ ContextInv /\ QuietInv /\ OpeningInv /\ DeliveryInv
  BY HostAssumption DEF HostInv
<1>3. RuntimeInv'
  <2>1. RuntimeNext
    BY <1>1, <1>2 DEF RuntimeNext, WorkerNext
  <2>2. QED BY <1>2, <2>1, NextRuntimeInv
<1>4. /\ TurnKept(work[HostWorker], work'[HostWorker])
      /\ \/ Len(attempts') = Len(attempts)
         \/ /\ Len(attempts') = Len(attempts) + 1
            /\ InTurn(work[HostWorker])
            /\ ~InTurn(work'[HostWorker])
  BY <1>1, <1>2, TurnStep
<1>5. TurnInv(work[HostWorker])' /\ LoopInv' /\ ContextInv'
  BY <1>1, <1>2, <1>4 DEF TurnKept, TurnInv, LoopInv, ContextInv, Loop, Routed
<1>6. PICK t \in TraceRow : t = trace
  BY LoopFacts
<1>7. trace' = [t EXCEPT !.delivered =
                   IF Len(attempts') > Len(attempts) /\ "report" \in host.held.packets
                   THEN t.delivered + 1 ELSE t.delivered]
  BY <1>6 DEF HostSteps
<1>8. PICK delivered \in Nat :
         delivered = IF Len(attempts') > Len(attempts) /\ "report" \in host.held.packets
                     THEN t.delivered + 1 ELSE t.delivered
  BY TraceUpdate
<1>9. PICK u \in TraceRow : u = trace' /\ u = [t EXCEPT !.delivered = delivered]
  BY <1>7, <1>8, TraceUpdate
<1>10. /\ u.delivered = delivered /\ u.reports = t.reports /\ u.openings = t.openings
       /\ u.fruitless = t.fruitless /\ u.quiet = t.quiet
  BY <1>9 DEF TraceRow
<1>11. QuietInv' /\ OpeningInv'
  BY <1>1, <1>2, <1>6, <1>9, <1>10 DEF QuietInv, OpeningInv
<1>12. Len(attempts) \in Nat
  <2>1. TypeOK
    BY <1>2 DEF RuntimeInv, StoreInv, KernelInv
  <2>2. QED BY <2>1 DEF TypeOK
<1>13. DeliveryInv'
  <2>1. t.delivered + Unspent(host.staged) +
           (IF InTurn(work[HostWorker]) THEN Unspent(host.held) ELSE 0) <= t.reports
    BY <1>1, <1>2, <1>6 DEF DeliveryInv, Usable, Loop
  <2>2. PICK staged \in {0, 1}, held \in {0, 1} :
           staged = Unspent(host.staged) /\ held = Unspent(host.held)
    BY DEF Unspent
  <2>3. InTurn(work'[HostWorker]) => InTurn(work[HostWorker])
    BY <1>4 DEF TurnKept
  <2>4. t.delivered \in Nat /\ t.reports \in Nat
    BY DEF TraceRow
  <2>5. CASE Len(attempts') = Len(attempts)
    <3>1. u.delivered = t.delivered
      BY <1>8, <1>10, <1>12, <2>5
    <3>2. u.delivered + staged + (IF InTurn(work'[HostWorker]) THEN held ELSE 0) <= u.reports
      BY <1>10, <2>1, <2>2, <2>3, <2>4, <3>1
    <3>3. QED BY <1>1, <1>9, <2>2, <3>2 DEF DeliveryInv, Usable, Loop
  <2>6. CASE /\ Len(attempts') = Len(attempts) + 1
             /\ InTurn(work[HostWorker])
             /\ ~InTurn(work'[HostWorker])
    <3>1. u.delivered = t.delivered + held
      BY <1>8, <1>10, <1>12, <2>2, <2>4, <2>6 DEF Unspent
    <3>2. u.delivered + staged + 0 <= u.reports
      BY <1>10, <2>1, <2>2, <2>4, <2>6, <3>1
    <3>3. QED BY <1>1, <1>9, <2>2, <2>6, <3>2 DEF DeliveryInv, Usable, Loop
  <2>7. QED BY <1>4, <2>5, <2>6
<1>14. QED BY <1>1, <1>3, <1>5, <1>9, <1>11, <1>13, LoopFacts DEF HostInv

\* What remains of an iteration, as the operator finds it.
LEMMA EndedFields ==
    ASSUME HostInv, host.at = "stepping", NEW status \in Verdicts,
           NEW h, h = Ended(status)
    PROVE  /\ h \in HostRow
           /\ h.at \in {"top", "stopped"}
           /\ h.running = FALSE
           /\ h.held = Nothing
           /\ h.staged = IF status = "waiting" THEN host.held ELSE Nothing
           /\ status \notin {"committed", "waiting"} => h.paused
<1>1. PICK r \in HostRow : r = host
  BY LoopFacts
<1>2. /\ r.paused \in BOOLEAN /\ r.held \in StagedRow /\ r.target \in ContextRow
      /\ r.last \in Words
  BY DEF HostRow
<1>3. r.staged = Nothing
  BY <1>1, LoopFacts DEF Busy
<1>4. /\ "top" \in Spots /\ "stopped" \in Spots /\ "worker stopped" \in Words
      /\ status \in Words /\ TRUE \in BOOLEAN /\ FALSE \in BOOLEAN
  BY DEF Spots, Words
<1>5. CASE status = "raised"
  <2>1. h = [r EXCEPT !.at = "stopped", !.paused = TRUE, !.running = FALSE,
                      !.last = "worker stopped", !.staged = Nothing, !.held = Nothing,
                      !.target = r.target]
    BY <1>1, <1>3, <1>5 DEF Ended, HostRow
  <2>2. h \in HostRow
    <3>1. Nothing \in StagedRow
      BY NothingRow
    <3>2. [r EXCEPT !.at = "stopped", !.paused = TRUE, !.running = FALSE,
                    !.last = "worker stopped", !.staged = Nothing, !.held = Nothing,
                    !.target = r.target] \in HostRow
      BY <1>2, <1>4, <3>1, HostUpdate
    <3>3. QED BY <2>1, <3>2
  <2>3. QED BY <1>5, <2>1, <2>2 DEF HostRow
<1>6. CASE status # "raised"
  <2>1. PICK paused \in BOOLEAN :
           paused = (r.paused \/ status \notin {"committed", "waiting"})
    OBVIOUS
  <2>2. PICK staged \in StagedRow :
           staged = IF status = "waiting" /\ r.held # Nothing THEN r.held ELSE Nothing
    BY <1>2, NothingRow
  <2>3. h = [r EXCEPT !.at = "top", !.paused = paused, !.running = FALSE, !.last = status,
                      !.staged = staged, !.held = Nothing, !.target = r.target]
    BY <1>1, <1>3, <1>6, <2>1, <2>2 DEF Ended, HostRow
  <2>4. h \in HostRow
    <3>1. Nothing \in StagedRow
      BY NothingRow
    <3>2. [r EXCEPT !.at = "top", !.paused = paused, !.running = FALSE, !.last = status,
                    !.staged = staged, !.held = Nothing, !.target = r.target] \in HostRow
      BY <1>2, <1>4, <3>1, HostUpdate
    <3>3. QED BY <2>3, <3>2
  <2>5. /\ h.at = "top" /\ h.running = FALSE /\ h.held = Nothing /\ h.staged = staged
        /\ h.paused = paused
    BY <2>3, <2>4 DEF HostRow
  <2>6. staged = IF status = "waiting" THEN host.held ELSE Nothing
    BY <1>1, <2>2
  <2>7. status \notin {"committed", "waiting"} => paused
    BY <2>1
  <2>8. QED BY <2>4, <2>5, <2>6, <2>7
<1>7. QED BY <1>5, <1>6

\* An attempt that leaves its occasion pending pauses the host; a wait hands the
\* context back.
LEMMA StepEndsInv ==
    ASSUME HostInv, StepEnds
    PROVE  HostInv'
<1>1. /\ host.at = "stepping" /\ Return(HostWorker) /\ host' = Ended(work[HostWorker].status)
      /\ HostWorker \in Workers /\ RuntimeInv /\ TurnInv(work[HostWorker])
  BY HostAssumption DEF StepEnds, Loop, HostInv
<1>2. PICK step \in WorkRow : step = work[HostWorker]
  BY <1>1, WorkerFacts
<1>3. step.at = "done" /\ step.status \in Verdicts
  BY <1>1, <1>2 DEF Return, At, WorkRow
<1>4. RuntimeInv' /\ work'[HostWorker] = Idle
  BY <1>1, IdleInv DEF Return, Goto, RuntimeInv
<1>5. PICK h : h = host'
  OBVIOUS
<1>6. /\ h \in HostRow /\ h.at \in {"top", "stopped"} /\ h.running = FALSE
      /\ h.held = Nothing
      /\ h.staged = IF step.status = "waiting" THEN host.held ELSE Nothing
      /\ step.status \notin {"committed", "waiting"} => h.paused
  BY <1>1, <1>2, <1>3, <1>5, EndedFields
<1>7. PICK t \in TraceRow : t = trace
  BY LoopFacts
<1>8. PICK fruitless \in Nat :
         fruitless = IF step.attempt # NoAttempt /\ step.status \notin {"committed", "disposed"}
                     THEN t.fruitless + 1 ELSE t.fruitless
  BY TraceUpdate
<1>9. PICK u \in TraceRow : u = trace' /\ u = [t EXCEPT !.fruitless = fruitless]
  <2>1. trace' = [t EXCEPT !.fruitless = fruitless]
    BY <1>2, <1>7, <1>8 DEF StepEnds
  <2>2. [t EXCEPT !.fruitless = fruitless] \in TraceRow
    BY TraceUpdate
  <2>3. QED BY <2>1, <2>2
<1>10. /\ u.fruitless = fruitless /\ u.openings = t.openings /\ u.reports = t.reports
       /\ u.delivered = t.delivered /\ u.quiet = t.quiet
  BY <1>9 DEF TraceRow
<1>11. /\ host.running /\ host.staged = Nothing /\ Named(host.held) /\ ~t.quiet
       /\ t.fruitless + 1 <= t.openings
  BY <1>1, <1>7, LoopFacts DEF Busy
<1>12. TurnInv(work[HostWorker])'
  BY <1>4 DEF TurnInv, Idle, Routed
<1>13. LoopInv'
  BY <1>4, <1>5, <1>6 DEF LoopInv, Loop, Idle, Busy
<1>14. ContextInv'
  BY <1>5, <1>6, <1>11 DEF ContextInv, Loop, Named
<1>15. QuietInv'
  BY <1>9, <1>10, <1>11 DEF QuietInv
<1>16. OpeningInv'
  <2>1. t.fruitless \in Nat /\ t.openings \in Nat
    BY DEF TraceRow
  <2>2. CASE step.attempt # NoAttempt /\ step.status \notin {"committed", "disposed"}
    <3>1. step.status # "waiting"
      BY <1>1, <1>2, <1>3, <2>2 DEF TurnInv
    <3>2. h.paused /\ ~h.running
      BY <1>6, <2>2, <3>1
    <3>3. u.fruitless + 0 <= u.openings
      BY <1>8, <1>10, <1>11, <2>1, <2>2
    <3>4. QED BY <1>5, <1>9, <3>2, <3>3 DEF OpeningInv
  <2>3. CASE ~(step.attempt # NoAttempt /\ step.status \notin {"committed", "disposed"})
    <3>1. u.fruitless + (IF h.paused /\ ~h.running THEN 0 ELSE 1) <= u.openings
      BY <1>8, <1>10, <1>11, <2>1, <2>3
    <3>2. QED BY <1>5, <1>9, <3>1 DEF OpeningInv
  <2>4. QED BY <2>2, <2>3
<1>17. DeliveryInv'
  <2>1. t.delivered + Unspent(Nothing) +
           (IF InTurn(step) THEN Unspent(host.held) ELSE 0) <= t.reports
    BY <1>1, <1>2, <1>7, <1>11 DEF HostInv, DeliveryInv, Usable, Loop
  <2>2. Unspent(Nothing) = 0 /\ Unspent(host.held) \in {0, 1}
    BY DEF Unspent, Nothing
  <2>3. step.status = "waiting" => InTurn(step)
    BY <1>3 DEF InTurn
  <2>4. t.delivered \in Nat /\ t.reports \in Nat
    BY DEF TraceRow
  <2>5. u.delivered + Unspent(h.staged) + Unspent(h.held) <= u.reports
    BY <1>6, <1>10, <2>1, <2>2, <2>3, <2>4
  <2>6. Usable'
    BY <1>5, <1>6 DEF Usable, Loop
  <2>7. QED BY <1>5, <1>9, <2>5, <2>6 DEF DeliveryInv
<1>18. QED
  BY <1>4, <1>5, <1>6, <1>9, <1>12, <1>13, <1>14, <1>15, <1>16, <1>17 DEF HostInv

\* What a new process starts with.
LEMMA FreshRow ==
    /\ HostFresh \in HostRow
    /\ HostFresh.at = "top" /\ HostFresh.paused = TRUE /\ HostFresh.running = FALSE
    /\ HostFresh.staged = Nothing /\ HostFresh.held = Nothing
<1>1. ASSUME NEW at \in Spots, NEW paused \in BOOLEAN, NEW running \in BOOLEAN,
             NEW last \in Words, NEW staged \in StagedRow, NEW held \in StagedRow,
             NEW target \in ContextRow, NEW stopping \in BOOLEAN
      PROVE  [at |-> at, paused |-> paused, running |-> running, last |-> last,
              staged |-> staged, held |-> held, target |-> target,
              stopping |-> stopping] \in HostRow
  BY DEF HostRow
<1>2. "top" \in Spots /\ "started paused" \in Words
  BY DEF Spots, Words
<1>3. HostFresh \in HostRow
  <2>1. [at |-> "top", paused |-> TRUE, running |-> FALSE, last |-> "started paused",
         staged |-> Nothing, held |-> Nothing, target |-> NoContext,
         stopping |-> FALSE] \in HostRow
    BY <1>1, <1>2, NothingRow
  <2>2. QED BY <2>1 DEF HostFresh
<1>4. /\ HostFresh.at = "top" /\ HostFresh.paused = TRUE /\ HostFresh.running = FALSE
      /\ HostFresh.staged = Nothing /\ HostFresh.held = Nothing
  BY DEF HostFresh
<1>5. QED BY <1>3, <1>4

\* A new process starts paused, with nothing staged.
LEMMA FreshInv ==
    ASSUME HostInv, RuntimeInv', Restarted,
           work'[HostWorker].at = "idle", TurnInv(work'[HostWorker])
    PROVE  HostInv'
<1>1. PICK h : h = host' /\ h = HostFresh
  BY DEF Restarted
<1>2. /\ h \in HostRow /\ h.at = "top" /\ h.paused = TRUE /\ h.running = FALSE
      /\ h.staged = Nothing /\ h.held = Nothing
  BY <1>1, FreshRow
<1>3. PICK t \in TraceRow : t = trace
  BY LoopFacts
<1>4. PICK u \in TraceRow : u = trace' /\ u = [t EXCEPT !.quiet = TRUE]
  <2>1. [t EXCEPT !.quiet = TRUE] \in TraceRow
    BY TraceUpdate
  <2>2. QED BY <1>3, <2>1 DEF Restarted
<1>5. /\ u.fruitless = t.fruitless /\ u.openings = t.openings /\ u.reports = t.reports
      /\ u.delivered = t.delivered
  BY <1>4 DEF TraceRow
<1>6. LoopInv' /\ ContextInv' /\ QuietInv'
  BY <1>1, <1>2 DEF LoopInv, ContextInv, QuietInv, Loop, Busy, Named
<1>7. OpeningInv'
  <2>1. t.fruitless + (IF host.paused /\ ~host.running THEN 0 ELSE 1) <= t.openings
    BY <1>3, LoopFacts
  <2>2. u.fruitless + 0 <= u.openings
    BY <1>5, <2>1 DEF TraceRow
  <2>3. QED BY <1>1, <1>2, <1>4, <2>2 DEF OpeningInv
<1>8. DeliveryInv'
  <2>1. t.delivered + Unspent(host.staged) +
           (IF Usable THEN Unspent(host.held) ELSE 0) <= t.reports
    BY <1>3 DEF HostInv, DeliveryInv
  <2>2. /\ Unspent(Nothing) = 0 /\ Unspent(host.held) \in {0, 1}
        /\ Unspent(host.staged) \in {0, 1}
    BY DEF Unspent, Nothing
  <2>3. u.delivered + 0 + 0 <= u.reports
    BY <1>5, <2>1, <2>2 DEF TraceRow
  <2>4. QED BY <1>1, <1>2, <1>4, <2>2, <2>3 DEF DeliveryInv
<1>9. QED BY <1>1, <1>2, <1>4, <1>6, <1>7, <1>8 DEF HostInv

\* The process is asked to stop, ends and starts again, or is killed.
LEMMA ProcessInv ==
    ASSUME HostInv, Signal \/ Restart \/ Kill
    PROVE  HostInv'
<1>1. HostWorker \in Workers /\ RuntimeInv /\ TurnInv(work[HostWorker])
  BY HostAssumption DEF HostInv
<1>2. CASE Signal
  <2>1. /\ host' = [host EXCEPT !.stopping = TRUE]
        /\ UNCHANGED <<vars, work, registry, abandoned>> /\ UNCHANGED trace
    BY <1>2 DEF Signal
  <2>2. RuntimeInv'
    BY <1>1, <2>1, RuntimeAtRest
  <2>3. PICK r \in HostRow : r = host
    BY LoopFacts
  <2>4. PICK h \in HostRow : h = host' /\ h = [r EXCEPT !.stopping = TRUE]
    <3>1. [r EXCEPT !.stopping = TRUE] \in HostRow
      BY DEF HostRow
    <3>2. QED BY <2>1, <2>3, <3>1
  <2>5. /\ h.at = r.at /\ h.paused = r.paused /\ h.running = r.running
        /\ h.staged = r.staged /\ h.held = r.held /\ h.target = r.target
    BY <2>4 DEF HostRow
  <2>6. TurnInv(work[HostWorker])' /\ LoopInv' /\ ContextInv'
    BY <1>1, <2>1, <2>3, <2>4, <2>5 DEF HostInv, TurnInv, LoopInv, ContextInv, Loop, Routed
  <2>7. QuietInv' /\ OpeningInv'
    BY <2>1, <2>3, <2>4, <2>5, LoopFacts DEF QuietInv, OpeningInv
  <2>8. DeliveryInv'
    BY <2>1, <2>3, <2>4, <2>5 DEF HostInv, DeliveryInv, Usable, Loop
  <2>9. QED BY <2>1, <2>2, <2>4, <2>6, <2>7, <2>8, LoopFacts DEF HostInv
<1>3. ASSUME work[HostWorker].at = "idle", UNCHANGED <<vars, work, abandoned>>,
             registry' = [registry EXCEPT ![HostWorker] =
                             [enabled |-> Executors, sessions |-> {}]],
             Restarted
      PROVE  HostInv'
  <2>1. [enabled |-> Executors, sessions |-> {}] \in RegistryRow
    BY DEF RegistryRow
  <2>2. /\ registry' \in [Workers -> RegistryRow]
        /\ \A v \in Workers \ {HostWorker} : registry'[v] = registry[v]
    BY <1>1, <1>3, <2>1 DEF RuntimeInv
  <2>3. RuntimeInv'
    BY <1>1, <1>3, <2>2, IdleRegistry
  <2>4. QED BY <1>1, <1>3, <2>3, FreshInv
<1>4. CASE Restart
  <2>1. work[HostWorker].at = "idle"
    BY <1>4 DEF Restart, HostInv, LoopInv, Loop
  <2>2. QED BY <1>3, <1>4, <2>1 DEF Restart
<1>5. CASE Crash(HostWorker) /\ Restarted
  <2>1. RuntimeInv' /\ work'[HostWorker] = Idle
    BY <1>1, <1>5, IdleInv DEF Crash, Goto, RuntimeInv
  <2>2. work'[HostWorker].at = "idle" /\ TurnInv(work'[HostWorker])
    BY <2>1 DEF Idle, TurnInv
  <2>3. QED BY <1>5, <2>1, <2>2, FreshInv
<1>6. CASE KillIdle /\ Restarted
  BY <1>3, <1>6 DEF KillIdle, At
<1>7. QED BY <1>2, <1>4, <1>5, <1>6 DEF Kill

-----------------------------------------------------------------------------
(* Every step preserves the invariant.                                     *)

\* Other workers and messages leave the host's step alone.
LEMMA OthersInv ==
    ASSUME HostInv, [RuntimeNext]_runtimeVars, UNCHANGED hostVars,
           work'[HostWorker] = work[HostWorker]
    PROVE  HostInv'
<1>1. RuntimeInv'
  BY NextRuntimeInv DEF HostInv
<1>2. UNCHANGED <<host, trace>>
  BY DEF hostVars
<1>3. TurnInv(work[HostWorker])' /\ LoopInv' /\ ContextInv' /\ QuietInv' /\ OpeningInv'
  BY <1>2 DEF HostInv, TurnInv, LoopInv, ContextInv, QuietInv, OpeningInv, Loop, Routed
<1>4. DeliveryInv'
  BY <1>2 DEF HostInv, DeliveryInv, Usable, Loop
<1>5. QED BY <1>1, <1>2, <1>3, <1>4 DEF HostInv

LEMMA InitHostInv == HostInit => HostInv
<1> SUFFICES ASSUME HostInit PROVE HostInv
  OBVIOUS
<1>1. RuntimeInv /\ HostWorker \in Workers /\ work[HostWorker] = Idle
  BY InitRuntimeInv, HostAssumption DEF HostInit, RuntimeInit
<1>2. PICK h : h = host /\ h = HostFresh
  BY DEF HostInit
<1>3. /\ h \in HostRow /\ h.at = "top" /\ h.paused = TRUE /\ h.running = FALSE
      /\ h.staged = Nothing /\ h.held = Nothing
  BY <1>2, FreshRow
<1>4. /\ trace \in TraceRow /\ trace.fruitless = 0 /\ trace.openings = 0
      /\ trace.reports = 0 /\ trace.delivered = 0
  BY DEF HostInit, TraceRow
<1>5. TurnInv(work[HostWorker])
  BY <1>1 DEF TurnInv, Idle
<1>6. LoopInv /\ ContextInv /\ QuietInv
  BY <1>1, <1>2, <1>3 DEF LoopInv, ContextInv, QuietInv, Loop, Busy, Named, Idle
<1>7. OpeningInv
  BY <1>2, <1>3, <1>4 DEF OpeningInv
<1>8. DeliveryInv
  <2>1. Unspent(Nothing) = 0
    BY DEF Unspent, Nothing
  <2>2. QED BY <1>2, <1>3, <1>4, <2>1 DEF DeliveryInv
<1>9. QED BY <1>1, <1>2, <1>3, <1>4, <1>5, <1>6, <1>7, <1>8 DEF HostInv

LEMMA NextHostInv == HostInv /\ [HostNext]_allVars => HostInv'
<1> SUFFICES ASSUME HostInv, [HostNext]_allVars PROVE HostInv'
  OBVIOUS
<1>1. HostWorker \in Workers /\ RuntimeInv
  BY HostAssumption DEF HostInv
<1>2. CASE UNCHANGED allVars
  <2>1. UNCHANGED runtimeVars /\ UNCHANGED hostVars /\ UNCHANGED work
    BY <1>2 DEF allVars, runtimeVars, localVars
  <2>2. QED BY <2>1, OthersInv
<1>3. ASSUME NEW now \in Instants, NEW w \in Workers \ {HostWorker},
             WorkerNext(w, now), UNCHANGED hostVars
      PROVE  HostInv'
  <2>1. RuntimeNext
    BY <1>3 DEF RuntimeNext
  <2>2. work'[HostWorker] = work[HostWorker]
    <3>1. CASE StepNext(w, now)
      BY <1>1, <3>1, OneWorkerMoves
    <3>2. CASE Return(w) \/ \E bound \in Contexts : Begin(w, bound, now)
      BY <1>1, <3>2 DEF Return, Begin, Goto, RuntimeInv
    <3>3. QED BY <1>3, <3>1, <3>2 DEF WorkerNext
  <2>3. QED BY <1>3, <2>1, <2>2, OthersInv
<1>4. CASE SubmitMessage /\ UNCHANGED hostVars
  <2>1. RuntimeNext /\ UNCHANGED work
    BY <1>4 DEF RuntimeNext, SubmitMessage, localVars
  <2>2. QED BY <1>4, <2>1, OthersInv
<1>5. CASE \/ Exit \/ Take \/ Observe \/ ObserveFails \/ Merge
           \/ \E now \in Instants : Poll(now) \/ Prepare(now) \/ Recheck(now)
  BY <1>5, LoopStepInv
<1>6. CASE Pause \/ Resume \/ \E now \in Instants : Evidence(now)
  BY <1>6, OperatorInv
<1>7. CASE StepBegins \/ StepEnds \/ \E now \in Instants : HostSteps(now)
  BY <1>7, StepBeginsInv, StepEndsInv, HostStepsInv
<1>8. CASE Signal \/ Restart \/ Kill
  BY <1>8, ProcessInv
<1>9. QED BY <1>2, <1>3, <1>4, <1>5, <1>6, <1>7, <1>8 DEF HostNext

\* The host's inductive invariant holds in every state of every behaviour.
LEMMA HostInvHolds == HostSpec => []HostInv
BY InitHostInv, NextHostInv, PTL DEF HostSpec

-----------------------------------------------------------------------------
(* Theorems.                                                               *)

\* Whatever the loop, the operator, a signal or a kill does between two lines of
\* the worker, the store sees one transaction of its own or none.
LEMMA HostStoreStep ==
    ASSUME HostInv, [HostNext]_allVars
    PROVE  [Next]_vars
<1>1. HostWorker \in Workers /\ RuntimeInv
  BY HostAssumption DEF HostInv
<1>2. UNCHANGED runtimeVars => UNCHANGED vars
  BY DEF runtimeVars
<1>3. RuntimeNext => [Next]_vars
  BY <1>1, RuntimeStoreStep
<1>4. CASE UNCHANGED allVars
  BY <1>2, <1>4 DEF allVars
<1>5. CASE \/ Exit \/ Take \/ Observe \/ ObserveFails \/ Merge \/ Pause \/ Resume
           \/ \E now \in Instants : Poll(now) \/ Prepare(now) \/ Recheck(now) \/ Evidence(now)
  <2>1. UNCHANGED runtimeVars
    BY <1>5 DEF Exit, Take, Observe, ObserveFails, Merge, Pause, Resume, Poll, Prepare,
                Recheck, Evidence, OnlyLoop
  <2>2. QED BY <1>2, <2>1
<1>6. CASE StepBegins \/ StepEnds \/ Signal \/ Restart \/ Kill
  BY <1>6 DEF StepBegins, StepEnds, Return, Signal, Restart, Kill, KillIdle, Crash, vars
<1>7. ASSUME NEW now \in Instants, HostSteps(now) PROVE RuntimeNext
  BY <1>1, <1>7 DEF HostSteps, RuntimeNext, WorkerNext
<1>8. ASSUME NEW now \in Instants, NEW w \in Workers, WorkerNext(w, now) PROVE RuntimeNext
  BY <1>8 DEF RuntimeNext
<1>9. CASE SubmitMessage
  BY <1>3, <1>9 DEF RuntimeNext
<1>10. QED BY <1>3, <1>4, <1>5, <1>6, <1>7, <1>8, <1>9 DEF HostNext

\* A host with its operator, its signals and its kills, beside any other workers
\* on the same subject, makes only transactions of the store: the loop of
\* tools/tui/host.cpp changes a subject through a step of its runtime alone, and
\* every restart of it finds what an admission and a settlement left.  Whatever is
\* proved of the store holds of a hosted subject.
THEOREM HostsImplementTheStore == HostSpec => Spec
<1>1. HostInit => Init
  BY DEF HostInit, RuntimeInit
<1>2. HostInv /\ [HostNext]_allVars => [Next]_vars
  BY HostStoreStep
<1>3. QED BY <1>1, <1>2, HostInvHolds, PTL DEF HostSpec, Spec

\* A pause acknowledged while nothing runs is final until the operator resumes.
THEOREM PausesAreFinal == HostSpec => []PauseIsFinal
<1>1. HostInv => PauseIsFinal
  BY DEF HostInv, QuietInv, PauseIsFinal
<1>2. QED BY <1>1, HostInvHolds, PTL

\* Every attempt that left its occasion pending was opened by a decision of the
\* operator of its own.
THEOREM NothingIsRetriedInvisibly == HostSpec => []NoInvisibleRetries
<1>1. HostInv => NoInvisibleRetries
  <2> SUFFICES ASSUME HostInv PROVE NoInvisibleRetries
    OBVIOUS
  <2>1. PICK t \in TraceRow : t = trace
    BY LoopFacts
  <2>2. t.fruitless + (IF host.paused /\ ~host.running THEN 0 ELSE 1) <= t.openings
    BY <2>1, LoopFacts
  <2>3. t.fruitless <= t.openings
    BY <2>2 DEF TraceRow
  <2>4. QED BY <2>1, <2>3 DEF NoInvisibleRetries
<1>2. QED BY <1>1, HostInvHolds, PTL

\* A report reaches one attempt at most, however often a wait stages it again.
THEOREM ReportsServeOneAttempt == HostSpec => []OneAttemptPerReport
<1>1. HostInv => OneAttemptPerReport
  <2> SUFFICES ASSUME HostInv PROVE OneAttemptPerReport
    OBVIOUS
  <2>1. PICK t \in TraceRow : t = trace
    BY LoopFacts
  <2>2. t.delivered + Unspent(host.staged) +
           (IF Usable THEN Unspent(host.held) ELSE 0) <= t.reports
    BY <2>1 DEF HostInv, DeliveryInv
  <2>3. Unspent(host.held) \in {0, 1} /\ Unspent(host.staged) \in {0, 1}
    BY DEF Unspent
  <2>4. t.delivered <= t.reports
    BY <2>2, <2>3 DEF TraceRow
  <2>5. QED BY <2>1, <2>4 DEF OneAttemptPerReport
<1>2. QED BY <1>1, HostInvHolds, PTL

\* For a routed subject an observation or a report never reaches an attempt at
\* another head or of another occasion.  (A guarded step binds only a report:
\* the run images_guarded has the counterexample.)
THEOREM RoutedPacketsAreBound ==
    ASSUME Routed(HostWorker)
    PROVE  HostSpec => []PacketsAreBound
<1>1. HostInv => PacketsAreBound
  <2> SUFFICES ASSUME HostInv, Loop("stepping"), work[HostWorker].attempt # NoAttempt,
                      host.held # Nothing
               PROVE  LET a == attempts[work[HostWorker].attempt]
                      IN  [head |-> a.parent, occasion |-> a.occasion] = host.held.bind
    BY DEF PacketsAreBound
  <2>1. /\ work[HostWorker].context = host.held.bind
        /\ host.held.bind.occasion # NoRow
        /\ host.held.bind \in ContextRow
    BY DEF HostInv, ContextInv, Named, HostRow, StagedRow
  <2>2. PICK c \in ContextRow : c = host.held.bind
    BY <2>1
  <2>3. PICK a : a = attempts[work[HostWorker].attempt]
    OBVIOUS
  <2>4. c # NoContext /\ BoundInv(HostWorker)
    BY <2>1, <2>2, HostAssumption, WorkerFacts DEF NoContext, HostInv
  <2>5. a.parent = c.head /\ a.occasion = c.occasion
    BY <2>1, <2>2, <2>3, <2>4 DEF BoundInv
  <2>6. c = [head |-> c.head, occasion |-> c.occasion]
    BY DEF ContextRow
  <2>7. QED BY <2>2, <2>3, <2>5, <2>6
<1>2. QED BY <1>1, HostInvHolds, PTL


\* Without images the loop prepares nothing.
Imageless == host.at \notin {"observe", "recheck", "merge"}

\* What a step may do with a report in the host's memory.
Keeps ==
    (Reported /\ ~Reported') =>
        \/ Loop("stepping") /\ host'.last # "waiting"
        \/ host' = ImageFailed
        \/ host' = HostFresh

LEMMA EvidenceStep ==
    ASSUME HostInv, Imageless, Images = {}, [HostNext]_allVars
    PROVE  Imageless' /\ Keeps
<1>1. PICK r \in HostRow : r = host
  BY LoopFacts
<1>2. r.at \in Spots /\ r.at \notin {"observe", "recheck", "merge"}
  BY <1>1 DEF Imageless, HostRow
<1>3. ASSUME host'.at \notin {"observe", "recheck", "merge"},
             host'.staged = r.staged, host'.held = r.held
      PROVE  Imageless' /\ Keeps
  BY <1>1, <1>3 DEF Imageless, Keeps, Reported
<1>4. CASE UNCHANGED host
  BY <1>1, <1>2, <1>3, <1>4
<1>5. CASE \/ Exit \/ StepBegins \/ Pause \/ Resume \/ Signal
           \/ \E now \in Instants : Poll(now) \/ Prepare(now)
  <2>1. \A now \in Instants : ~ImageOffered(now)
    BY DEF ImageOffered
  <2>2. \/ \E at \in {"exited", "stepping", "take", "step"} : host' = [r EXCEPT !.at = at]
        \/ \E paused : host' = [r EXCEPT !.paused = paused]
        \/ \E stopping : host' = [r EXCEPT !.stopping = stopping]
    BY <1>1, <1>5, <2>1 DEF Exit, StepBegins, Pause, Resume, Signal, Poll, Prepare
  <2>3. host'.at \in {"exited", "stepping", "take", "step", r.at}
    BY <2>2 DEF HostRow
  <2>4. host'.staged = r.staged /\ host'.held = r.held
    BY <2>2 DEF HostRow
  <2>5. QED BY <1>2, <1>3, <2>3, <2>4
<1>6. CASE Take
  <2>1. r.at = "take" /\ r.held = Nothing
    BY <1>1, <1>6, LoopFacts DEF Take, Loop, Busy
  <2>2. CASE r.paused
    <3>1. host' = [r EXCEPT !.at = "top"]
      BY <1>1, <1>6, <2>2 DEF Take
    <3>2. host'.at = "top" /\ host'.staged = r.staged /\ host'.held = r.held
      BY <3>1 DEF HostRow
    <3>3. QED BY <1>3, <3>2
  <2>3. CASE ~r.paused
    <3>1. host' = [r EXCEPT !.at = "prepare", !.running = TRUE, !.held = r.staged,
                            !.staged = Nothing]
      BY <1>1, <1>6, <2>3 DEF Take, Taken
    <3>2. host'.at = "prepare" /\ host'.held = r.staged
      BY <3>1 DEF HostRow
    <3>3. Nothing.packets = {}
      BY DEF Nothing
    <3>4. QED BY <1>1, <2>1, <3>2, <3>3 DEF Imageless, Keeps, Reported
  <2>4. QED BY <2>2, <2>3
<1>7. CASE Observe \/ ObserveFails \/ Merge \/ \E now \in Instants : Recheck(now)
  BY <1>1, <1>2, <1>7 DEF Observe, ObserveFails, Merge, Recheck, Loop
<1>8. CASE StepEnds
  <2>1. PICK status : host' = Ended(status)
    BY <1>8 DEF StepEnds
  <2>2. Loop("stepping") /\ r.running /\ r.staged = Nothing
    BY <1>1, <1>8, LoopFacts DEF StepEnds, Loop, Busy
  <2>3. CASE status = "waiting"
    <3>1. PICK paused, staged :
             /\ host' = [r EXCEPT !.at = "top", !.running = FALSE, !.last = status,
                                  !.held = Nothing, !.staged = staged, !.paused = paused]
             /\ staged = IF r.held # Nothing THEN r.held ELSE r.staged
      BY <1>1, <2>1, <2>3 DEF Ended
    <3>2. host'.at = "top" /\ host'.staged = staged
      BY <3>1 DEF HostRow
    <3>3. Nothing.packets = {}
      BY DEF Nothing
    <3>4. r.held.packets \subseteq host'.staged.packets
      BY <3>1, <3>2, <3>3
    <3>5. QED BY <1>1, <2>2, <3>2, <3>3, <3>4 DEF Imageless, Keeps, Reported
  <2>4. CASE status # "waiting"
    <3>1. \E at \in {"top", "stopped"}, last \in {status, "worker stopped"} :
             \E paused, staged :
                 host' = [r EXCEPT !.at = at, !.running = FALSE, !.last = last,
                                   !.held = Nothing, !.staged = staged, !.paused = paused]
      <4>1. CASE status = "raised"
        <5>1. host' = [r EXCEPT !.at = "stopped", !.running = FALSE, !.last = "worker stopped",
                                !.held = Nothing, !.staged = r.staged, !.paused = TRUE]
          BY <1>1, <2>1, <4>1 DEF Ended, HostRow
        <5>2. QED BY <5>1
      <4>2. CASE status # "raised"
        <5>1. PICK paused, staged :
                 host' = [r EXCEPT !.at = "top", !.running = FALSE, !.last = status,
                                   !.held = Nothing, !.staged = staged, !.paused = paused]
          BY <1>1, <2>1, <4>2 DEF Ended
        <5>2. QED BY <5>1
      <4>3. QED BY <4>1, <4>2
    <3>2. host'.at \in {"top", "stopped"} /\ host'.last \in {status, "worker stopped"}
      BY <3>1 DEF HostRow
    <3>3. QED BY <2>2, <2>4, <3>2 DEF Imageless, Keeps
  <2>5. QED BY <2>3, <2>4
<1>9. ASSUME NEW now \in Instants, Evidence(now) PROVE Imageless' /\ Keeps
  <2>1. PICK staged : /\ host' = [r EXCEPT !.paused = FALSE, !.staged = staged]
                      /\ staged = [bind |-> ContextAt(now), packets |-> {"report"}]
    BY <1>1, <1>9 DEF Evidence
  <2>2. host'.at = r.at /\ host'.staged = staged
    BY <2>1 DEF HostRow
  <2>3. "report" \in host'.staged.packets
    BY <2>1, <2>2
  <2>4. QED BY <1>2, <2>2, <2>3 DEF Imageless, Keeps, Reported
<1>10. CASE Restart \/ Kill
  <2>1. host' = HostFresh /\ HostFresh.at = "top"
    BY <1>10 DEF Restart, Kill, Restarted, HostFresh
  <2>2. QED BY <2>1 DEF Imageless, Keeps
<1>11. UNCHANGED allVars => UNCHANGED host
  BY DEF allVars, hostVars
<1>12. \A now \in Instants : HostSteps(now) => UNCHANGED host
  BY DEF HostSteps
<1>13. UNCHANGED hostVars => UNCHANGED host
  BY DEF hostVars
<1>14. QED
  BY <1>4, <1>5, <1>6, <1>7, <1>8, <1>9, <1>10, <1>11, <1>12, <1>13 DEF HostNext

\* A staged report leaves the host's memory only with the step that used it or
\* with a restart: neither a wait nor a pause discards it.  (With images the
\* pause in the middle of a preparation does: Merge.)
THEOREM EvidenceStays ==
    ASSUME Images = {}
    PROVE  HostSpec => EvidenceIsKept
<1>1. HostInit => Imageless
  <2>1. HostFresh.at = "top"
    BY DEF HostFresh
  <2>2. QED BY <2>1 DEF HostInit, Imageless
<1>2. HostInv /\ Imageless /\ [HostNext]_allVars => Imageless' /\ Keeps
  BY EvidenceStep
<1>3. Keeps => [(Reported /\ ~Reported') =>
                   \/ Loop("stepping") /\ host'.last # "waiting"
                   \/ host' = ImageFailed
                   \/ host' = HostFresh]_allVars
  BY DEF Keeps
<1>4. QED BY <1>1, <1>2, <1>3, HostInvHolds, PTL DEF HostSpec, EvidenceIsKept
=============================================================================
