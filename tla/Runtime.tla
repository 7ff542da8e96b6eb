------------------------------- MODULE Runtime -------------------------------
(***************************************************************************)
(* Workers that drive one subject: Runtime::step and Runtime::step_result  *)
(* (src/kernel.cpp), RoutedRuntime::step with its Registry                 *)
(* (src/routing.cpp), SelfRuntime::step (src/self_state.cpp) and           *)
(* execute_attempt, which they share.  What a self-state grant allows is   *)
(* module SelfState's matter.                                              *)
(*                                                                         *)
(* A worker is one process with its own Store connection.  Each step of a  *)
(* worker below makes at most one store transaction; between two of them   *)
(* any other worker may run.  Inference happens outside every transaction. *)
(* The cancellation callback and the deadlines are read anew at each check *)
(* and may turn true at any of them.                                       *)
(***************************************************************************)
EXTENDS Kernel, Http

CONSTANTS
    Workers,
    Mode,        \* per worker: "step", "result", "route" or "self"
    Executors,   \* the executor ids of the registry
    Route,       \* Route::executors
    Managed,     \* executors the host may enable, disable and evict
    Refused,     \* executors whose capabilities the route does not admit
    MaxSessions, \* Registry::max_sessions_
    Contexts,    \* whether a step may carry an admission context
    Answers,     \* what a backend may do with an attempt
    CrashBound   \* bound on process crashes, for model checking

ASSUME RuntimeAssumption ==
    /\ Mode \in [Workers -> {"step", "result", "route", "self"}]
    /\ Route \in Seq(Executors)
    /\ \A i, j \in DOMAIN Route : Route[i] = Route[j] => i = j
    /\ Managed \subseteq Executors
    /\ Refused \subseteq Executors
    /\ MaxSessions \in Nat \ {0}
    /\ Contexts \subseteq BOOLEAN
    /\ Answers \subseteq {"proposal", "mute", "ungranted"} \cup Abstentions \cup Failures
    /\ CrashBound \in Nat

VARIABLES
    work,       \* the local state of each worker's current step
    registry,   \* each worker's Registry: enabled executors and open sessions
    crashes,    \* number of crashes so far
    abandoned   \* reservations whose worker crashed or could not settle them

localVars == <<work, registry, crashes, abandoned>>
runtimeVars == <<vars, localVars>>

NoAttempt == 0
NoContext == [head |-> NoCommit, occasion |-> NoRow]

Idle == [at |-> "idle", original |-> NoCommit, context |-> NoContext, next |-> 1,
         attempt |-> NoAttempt, answer |-> "none", reason |-> "none",
         status |-> "none", report |-> <<>>]

Routed(w) == Mode[w] = "route"
At(w, pc) == work[w].at = pc
Goto(w, record) == work' = [work EXCEPT ![w] = record]
Step(w, pc) == [work[w] EXCEPT !.at = pc]

\* The step is over; its caller sees `status' ("raised": an exception).
Done(w, status) ==
    [work[w] EXCEPT !.at = "done", !.next = 1, !.answer = "none", !.reason = "none",
                    !.status = status]

\* The executor whose turn it is, and its line in RouteResult::attempts.
Current(w) == Route[work[w].next]
Line(w, status) ==
    [executor |-> Current(w), attempt |-> work[w].attempt, status |-> status]

\* continue: the route's next executor.
Fallback(w, status) ==
    [work[w] EXCEPT !.at = "select", !.next = @ + 1, !.attempt = NoAttempt,
                    !.answer = "none", !.reason = "none",
                    !.report = Append(@, Line(w, status))]

RuntimeInit ==
    /\ Init
    /\ work = [w \in Workers |-> Idle]
    /\ registry = [w \in Workers |-> [enabled |-> Executors, sessions |-> {}]]
    /\ crashes = 0
    /\ abandoned = {}

-----------------------------------------------------------------------------
(* The start of a step.                                                    *)

\* The evidence a host staged for the occasion it saw in schedule(); NoRow is
\* JSON null, the due wake that has no row yet.
ContextAt(observed) ==
    [head |-> head,
     occasion |-> IF OfferedOccasions(observed) = {} THEN NoRow
                  ELSE Min(OfferedOccasions(observed))]

\* Where a step starts, with the context its caller gives it.
Entry(w) == CASE Routed(w) -> "select" [] Mode[w] = "self" -> "bind" [] OTHER -> "admit"

Started(w, context) ==
    [Idle EXCEPT !.at = Entry(w), !.original = head, !.context = context]

Begin(w, bound, observed) ==
    /\ At(w, "idle")
    /\ bound => NextOccasion(observed) # NoRow
    /\ Goto(w, Started(w, IF bound THEN ContextAt(observed) ELSE NoContext))
    /\ UNCHANGED <<vars, registry, crashes, abandoned>>

\* The caller has read the result.
Return(w) ==
    /\ At(w, "done")
    /\ Goto(w, Idle)
    /\ UNCHANGED <<vars, registry, crashes, abandoned>>

-----------------------------------------------------------------------------
(* SelfRuntime::step up to the admission.                                  *)

\* The step binds its packet to the head it verified and the occasion it sees,
\* which must be the one a supplied grant names.  A head that moved while the
\* history was replayed is a Conflict, a stale grant an Error: both propagate.
Bind(w, observed) ==
    LET seen == [head |-> work[w].original, occasion |-> ContextAt(observed).occasion]
    IN  /\ At(w, "bind")
        /\ \/ /\ head # work[w].original
              /\ Goto(w, Done(w, "raised"))
           \/ /\ NextOccasion(observed) = NoRow
              /\ Goto(w, Done(w, "waiting"))
           \/ /\ NextOccasion(observed) # NoRow
              /\ Goto(w, IF work[w].context \in {NoContext, seen}
                         THEN [Step(w, "admit") EXCEPT !.context = seen]
                         ELSE Done(w, "raised"))
        /\ UNCHANGED <<vars, registry, crashes, abandoned>>

-----------------------------------------------------------------------------
(* RoutedRuntime::step: the loop over the route's executors.               *)

\* cancelled() or an expired route deadline, checked before and after a session
\* is opened, and the deadline once more behind the loop.  SelfRuntime checks
\* cancelled() once, first.
Stop(w, status) ==
    /\ \/ work[w].at \in {"select", "check"}
       \/ At(w, "bind") /\ status = "cancelled"
    /\ status = "cancelled" /\ Routed(w) => work[w].next <= Len(Route)
    /\ Goto(w, Done(w, status))
    /\ UNCHANGED <<vars, registry, crashes, abandoned>>

Exhaust(w) ==
    /\ At(w, "select")
    /\ work[w].next > Len(Route)
    /\ Goto(w, Done(w, "exhausted"))
    /\ UNCHANGED <<vars, registry, crashes, abandoned>>

\* disabled, remote_denied or capability_missing.
Ineligible(w) ==
    Current(w) \notin registry[w].enabled \/ Current(w) \in Refused

HasRoom(w) ==
    \/ Current(w) \in registry[w].sessions
    \/ Cardinality(registry[w].sessions) < MaxSessions

\* An executor that is ineligible, or whose session cannot be opened (no room,
\* or its factory fails), is passed over without an admission.
Skip(w) ==
    /\ At(w, "select")
    /\ work[w].next <= Len(Route)
    /\ Ineligible(w) \/ Current(w) \notin registry[w].sessions
    /\ Goto(w, Fallback(w, "skipped"))
    /\ UNCHANGED <<vars, registry, crashes, abandoned>>

OpenSession(w) ==
    /\ At(w, "select")
    /\ work[w].next <= Len(Route)
    /\ ~Ineligible(w)
    /\ HasRoom(w)
    /\ registry' = [registry EXCEPT ![w].sessions = @ \cup {Current(w)}]
    /\ Goto(w, Step(w, "check"))
    /\ UNCHANGED <<vars, crashes, abandoned>>

\* The head is compared with the route's before the admission ...
CheckHead(w) ==
    /\ At(w, "check")
    /\ Goto(w, IF head = work[w].original THEN Step(w, "admit") ELSE Done(w, "conflict"))
    /\ UNCHANGED <<vars, registry, crashes, abandoned>>

\* Registry::enable and Registry::evict, by the host between two steps.
Enable(w, e) ==
    /\ At(w, "idle") /\ Routed(w)
    /\ \E on \in {registry[w].enabled \cup {e}, registry[w].enabled \ {e}} :
          registry' = [registry EXCEPT ![w].enabled = on]
    /\ UNCHANGED <<vars, work, crashes, abandoned>>

Evict(w, e) ==
    /\ At(w, "idle") /\ Routed(w)
    /\ registry' = [registry EXCEPT ![w].sessions = @ \ {e}]
    /\ UNCHANGED <<vars, work, crashes, abandoned>>

-----------------------------------------------------------------------------
(* The admission.                                                          *)

\* Mutant: a context is matched by its occasion alone.
StaleContextByOccasion(w, observed) ==
    /\ work[w].context # NoContext
    /\ work[w].context.occasion # ContextAt(observed).occasion

\* "stale admission context".
StaleContext(w, observed) ==
    /\ work[w].context # NoContext
    /\ \/ NextOccasion(observed) = NoRow
       \/ work[w].context # ContextAt(observed)

AdmitConflict(w, observed) ==
    /\ At(w, "admit")
    /\ StaleContext(w, observed)
    /\ Goto(w, Done(w, IF Routed(w) THEN "conflict" ELSE "raised"))
    /\ UNCHANGED <<vars, registry, crashes, abandoned>>

AdmitWaiting(w, observed) ==
    /\ At(w, "admit")
    /\ ~StaleContext(w, observed)
    /\ ScheduleStatus(observed) # "ready"
    /\ Goto(w, Done(w, "waiting"))
    /\ UNCHANGED <<vars, registry, crashes, abandoned>>

\* ContextOverflow rolls the admission back: it spends no quota.
AdmitOverflow(w, observed) ==
    /\ At(w, "admit")
    /\ ~StaleContext(w, observed)
    /\ ScheduleStatus(observed) = "ready"
    /\ Goto(w, IF Routed(w) THEN Fallback(w, "context_overflow") ELSE Done(w, "raised"))
    /\ UNCHANGED <<vars, registry, crashes, abandoned>>

AdmitAttempt(w, observed, maintenance) ==
    /\ At(w, "admit")
    /\ ~StaleContext(w, observed)
    /\ Admit(observed, maintenance)
    /\ Goto(w, [Step(w, IF Routed(w) THEN "owned" ELSE "respond") EXCEPT
                   !.attempt = Len(attempts) + 1])
    /\ UNCHANGED <<registry, crashes, abandoned>>

\* fail(attempt, reason), and fail with a transient scope: idempotent.
FailIfReserved(a) ==
    \/ FailTransient(a)
    \/ attempts[a].status # "reserved" /\ UNCHANGED vars

\* Mutant: the route does not look at the head again after the admission.
CheckAdmittedBlindly(w) ==
    /\ At(w, "owned")
    /\ Goto(w, Step(w, "respond"))
    /\ UNCHANGED <<vars, registry, crashes, abandoned>>

\* ... and again after it: another worker may have committed in between.
CheckAdmitted(w) ==
    /\ At(w, "owned")
    /\ IF attempts[work[w].attempt].parent = work[w].original
       THEN Goto(w, Step(w, "respond")) /\ UNCHANGED vars
       ELSE Goto(w, Done(w, "conflict")) /\ FailIfReserved(work[w].attempt)
    /\ UNCHANGED <<registry, crashes, abandoned>>

-----------------------------------------------------------------------------
(* execute_attempt.                                                        *)

\* respond_attempt and validate_backend_outcome.  An answer is an outcome, a
\* failure of module Http, or an exception without a message; a proposal can lack
\* a grant only where grants are, in SelfRuntime.
Respond(w, answer) ==
    /\ At(w, "respond")
    /\ answer = "ungranted" => Mode[w] = "self"
    /\ Goto(w, [Step(w, "judge") EXCEPT !.answer = answer])
    /\ UNCHANGED <<vars, registry, crashes, abandoned>>

\* execute_attempt takes an answer for a failure by its diagnostic.  That is never
\* empty when diagnostics are redacted; Runtime::step keeps the exception's own
\* message, which may be.
Diagnosed(w) == work[w].answer = "mute" => Mode[w] # "step"

\* The proposal guard of SelfRuntime rejects what no grant allows.
Failed(w) ==
    \/ work[w].answer \in Failures \cup {"mute"} /\ Diagnosed(w)
    \/ work[w].answer = "ungranted"

\* An invalid output, or a proposal the guard rejects, blames the occasion.
OccasionScope(w) ==
    \/ work[w].answer \in Failures /\ failure_scope(FailureKind(work[w].answer)) = "occasion"
    \/ work[w].answer = "ungranted"

\* execute_attempt returned `status': a step ends with it; a route ends, falls
\* back to the next executor, or, its deadline expired, times out.
Ends == {"committed", "abstained", "disposed", "conflict", "cancelled"}

Finished(w, status) ==
    LET reason == IF status = "disposed" THEN "failed" ELSE status  \* error_reason
        final == [Done(w, status) EXCEPT !.report = Append(@, Line(w, reason))]
    IN  IF ~Routed(w) THEN Goto(w, Done(w, status))
        ELSE IF status \in Ends THEN Goto(w, final)
        ELSE \/ Goto(w, Fallback(w, status))
             \/ status = "timeout" /\ Goto(w, final)

\* Mutant: an interrupted step returns without settling its attempt.
InterruptUnsettled(w, status) ==
    /\ At(w, "judge")
    /\ Finished(w, status)
    /\ UNCHANGED <<vars, registry, crashes, abandoned>>

\* cancelled() after the answer, or an answer behind the attempt's deadline.
\* Runtime::step takes no cancellation callback.
Interrupt(w, status) ==
    /\ At(w, "judge")
    /\ status = "cancelled" => Mode[w] # "step"
    /\ FailIfReserved(work[w].attempt)
    /\ Finished(w, status)
    /\ UNCHANGED <<registry, crashes, abandoned>>

\* Runtime::step rethrows the backend's exception after settling the attempt.
FailedStatus(w) == IF Mode[w] = "step" THEN "raised" ELSE "failed"

\* settle_failure of a failed answer that leaves its occasion pending.
FailAnswer(w, now) ==
    /\ At(w, "judge")
    /\ Failed(w)
    /\ IF OccasionScope(w) /\ MaxOccasionFailures > 0
       THEN \/ RecordFailure(work[w].attempt)
            \/ DisposeOverflow(work[w].attempt, now)
            \/ attempts[work[w].attempt].status # "reserved" /\ UNCHANGED vars
       ELSE FailIfReserved(work[w].attempt)
    /\ Finished(w, FailedStatus(w))
    /\ UNCHANGED <<registry, crashes, abandoned>>

\* Mutant: a disposition is reported as a plain failure.
DisposeAnswerUnreported(w, now) ==
    /\ At(w, "judge")
    /\ Failed(w) /\ OccasionScope(w)
    /\ Dispose(work[w].attempt, now)
    /\ Finished(w, FailedStatus(w))
    /\ UNCHANGED <<registry, crashes, abandoned>>

\* settle_failure of the failed answer that settles its occasion.
DisposeAnswer(w, now) ==
    /\ At(w, "judge")
    /\ Failed(w) /\ OccasionScope(w)
    /\ Dispose(work[w].attempt, now)
    /\ Finished(w, IF Mode[w] = "step" THEN "raised" ELSE "disposed")
    /\ UNCHANGED <<registry, crashes, abandoned>>

\* The settlement's instant is not representable: fail() throws, its transaction
\* is rolled back and the reservation stays.
DisposeRaises(w, now) ==
    /\ At(w, "judge")
    /\ Failed(w) /\ OccasionScope(w) /\ MaxOccasionFailures > 0
    /\ LET a == work[w].attempt
       IN  /\ attempts[a].status = "reserved"
           /\ Settles(a)
           /\ ~Representable(CommitPlan(a, now, SettlementRequest(a, now)))
           /\ abandoned' = abandoned \cup {a}
    /\ Goto(w, Done(w, "raised"))
    /\ UNCHANGED <<vars, registry, crashes>>

\* The null proposal of a default Outcome, or the backend's own.
Requests(w) ==
    IF work[w].answer = "mute" THEN {NoTime} ELSE WakeRequests \cup {NoTime}

Proposed(w) == work[w].answer \in {"proposal", "mute"} /\ ~Failed(w)

CommitAnswer(w, now, request) ==
    /\ At(w, "judge")
    /\ Proposed(w)
    /\ request \in Requests(w)
    /\ Commit(work[w].attempt, now, request)
    /\ Finished(w, "committed")
    /\ UNCHANGED <<registry, crashes, abandoned>>

AbstainAnswer(w) ==
    /\ At(w, "judge")
    /\ work[w].answer \in Abstentions
    /\ Abstain(work[w].attempt)
    /\ Finished(w, "abstained")
    /\ UNCHANGED <<registry, crashes, abandoned>>

\* The attempt can no longer commit, or abstain: Conflict.
Lost(w) ==
    IF Proposed(w) THEN ~Committable(work[w].attempt)
    ELSE \/ attempts[work[w].attempt].status # "reserved"
         \/ attempts[work[w].attempt].parent # head

\* The exception of commit() or abstain(): a Conflict, a projection that
\* overflows, or another error (telemetry, receipt, guard, memory, storage).
Reject(w, reason) ==
    /\ At(w, "judge")
    /\ Proposed(w) \/ work[w].answer \in Abstentions
    /\ reason = "conflict" => Lost(w)
    /\ reason = "overflow" => Proposed(w) /\ ~Lost(w)
    /\ Goto(w, [Step(w, "settle") EXCEPT !.reason = reason])
    /\ UNCHANGED <<vars, registry, crashes, abandoned>>

\* Its handler settles the attempt in a transaction of its own.
SettleRejected(w) ==
    /\ At(w, "settle")
    /\ FailIfReserved(work[w].attempt)
    /\ CASE work[w].reason = "conflict" -> Finished(w, "conflict")
         [] work[w].reason = "overflow" /\ Mode[w] \in {"result", "self"} -> Finished(w, "failed")
         [] OTHER -> Goto(w, Done(w, "raised"))
    /\ UNCHANGED <<registry, crashes, abandoned>>

-----------------------------------------------------------------------------
\* The process dies: its step, sessions and switches are gone, a reservation
\* it made stays.
Crash(w) ==
    /\ crashes < CrashBound
    /\ ~At(w, "idle")
    /\ crashes' = crashes + 1
    /\ abandoned' = IF work[w].at \in {"owned", "respond", "judge", "settle"}
                    THEN abandoned \cup {work[w].attempt} ELSE abandoned
    /\ registry' = [registry EXCEPT ![w] = [enabled |-> Executors, sessions |-> {}]]
    /\ Goto(w, Idle)
    /\ UNCHANGED vars

\* Worker w goes on with its step, and observes the wall clock `now' if it
\* reads it.
StepNext(w, now) ==
    \/ Bind(w, now)
    \/ \E status \in {"cancelled", "timeout"} : Stop(w, status) \/ Interrupt(w, status)
    \/ Exhaust(w)
    \/ Skip(w)
    \/ OpenSession(w)
    \/ CheckHead(w)
    \/ AdmitConflict(w, now)
    \/ AdmitWaiting(w, now)
    \/ AdmitOverflow(w, now)
    \/ \E maintenance \in MaintenanceModes : AdmitAttempt(w, now, maintenance)
    \/ CheckAdmitted(w)
    \/ \E answer \in Answers : Respond(w, answer)
    \/ FailAnswer(w, now)
    \/ DisposeAnswer(w, now)
    \/ DisposeRaises(w, now)
    \/ \E request \in WakeRequests \cup {NoTime} : CommitAnswer(w, now, request)
    \/ AbstainAnswer(w)
    \/ \E reason \in {"conflict", "error", "overflow"} : Reject(w, reason)
    \/ SettleRejected(w)

WorkerNext(w, now) ==
    \/ \E bound \in Contexts : Begin(w, bound, now)
    \/ Return(w)
    \/ StepNext(w, now)

SubmitMessage ==
    /\ \E key \in Keys, payload \in Payloads : Submit(key, payload)
    /\ UNCHANGED localVars

RuntimeNext ==
    \/ SubmitMessage
    \/ \E w \in Workers :
          \/ \E now \in Instants : WorkerNext(w, now)
          \/ \E e \in Managed : Enable(w, e) \/ Evict(w, e)
          \/ Crash(w)

RuntimeSpec == RuntimeInit /\ [][RuntimeNext]_runtimeVars

-----------------------------------------------------------------------------
(* Properties.                                                             *)

Disposed(a) == \E c \in CommitIds : commits[c].attempt = a /\ commits[c].disposition # {}

\* What the store may hold of an attempt that was reported with `status'.
Durable(a, status) ==
    LET stored == attempts[a].status
    IN  CASE status = "committed" -> stored = "committed" /\ ~Disposed(a)
          [] status = "disposed"  -> stored = "committed" /\ Disposed(a)
          [] status = "abstained" -> stored = "abstained"
          [] status = "raised"    -> \/ stored \in {"failed", "superseded"}
                                     \/ stored = "committed" /\ Disposed(a)
                                     \/ a \in abandoned
          [] OTHER                -> stored \in {"failed", "superseded"}

\* What a step reports of its attempt is what the store keeps of it, whatever
\* other workers committed between the answer and its settlement: no committed
\* transition is reported as a failure, no failure as a commit, and a reported
\* attempt is never left reserved.
ReportsAreDurable ==
    \A w \in Workers :
        /\ (At(w, "done") /\ work[w].attempt # NoAttempt) =>
              Durable(work[w].attempt, work[w].status)
        /\ \A i \in DOMAIN work[w].report :
              LET line == work[w].report[i]
              IN  (line.attempt # NoAttempt /\ work[w].status # "disposed") =>
                      Durable(line.attempt, line.status)

\* A route is one transition at most: every attempt that reached a backend was
\* admitted at the head the route started from, and only the last executor it
\* tried committed, abstained or disposed.
RouteStaysAtOneHead ==
    \A w \in Workers :
        Routed(w) =>
            /\ work[w].at \in {"respond", "judge", "settle"} =>
                  attempts[work[w].attempt].parent = work[w].original
            /\ \A i \in DOMAIN work[w].report :
                  work[w].report[i].attempt # NoAttempt =>
                      /\ attempts[work[w].report[i].attempt].parent = work[w].original
                      /\ attempts[work[w].report[i].attempt].status \in {"committed", "abstained"} =>
                            i = Len(work[w].report) /\ At(w, "done")

\* Whoever settles a reservation owns it: only the worker whose step holds an
\* attempt fails, abstains, disposes or commits it, however many reservations of
\* one occasion stand side by side; an orphan stays as it is until a commit moves
\* the head it was made at, and nothing but that takes one from its owner.
ReservationsAreSettledByTheirOwner ==
    [][\A a \in AttemptIds :
          (attempts[a].status = "reserved" /\ attempts'[a].status # "reserved") =>
              \/ \E w \in Workers :
                    work[w].attempt = a /\ work[w].at # "done" /\ work'[w] # work[w]
              \/ /\ attempts'[a].status = "superseded"
                 /\ attempts[a].parent = head /\ head' # head]_runtimeVars

\* A reservation is held by the worker that will settle it, unless that worker
\* crashed or could not settle it: no error path leaks one.
OrphansAreAbandoned ==
    \A a \in AttemptIds :
        attempts[a].status = "reserved" =>
            \/ a \in abandoned
            \/ \E w \in Workers :
                  /\ work[w].attempt = a
                  /\ work[w].at \in {"owned", "respond", "judge", "settle"}

\* Evidence reaches only the occasion and the head it was staged for, also when
\* another worker advanced the subject between staging and admission.
EvidenceIsBound ==
    \A w \in Workers :
        LET a == work[w].attempt
            c == work[w].context
        IN  (c # NoContext /\ a # NoAttempt) =>
                /\ attempts[a].parent = c.head
                /\ IF c.occasion = NoRow
                   THEN occasions[attempts[a].occasion].key = WakeKey(c.head)
                   ELSE attempts[a].occasion = c.occasion

Outage == Keyless \cup Stopped \cup Late \cup Unreachable \cup Fault \cup {"mute"}

PreservesOccasion(w) == work'[w] # work[w] => occasions' = occasions /\ failures' = failures

\* A failure without a 2xx reply that left a diagnostic leaves the occasion
\* pending and counts nothing against it, also when other failures of that
\* occasion already count.  It is not so for every failure, as kernel.hpp:43 has
\* it: without a message, Runtime::step commits a null transition in its place
\* (CommitAnswer), which consumes the occasion.
DiagnosedOutagesPreserveOccasion ==
    [][\A w \in Workers :
          work[w].answer \in Outage /\ Diagnosed(w) => PreservesOccasion(w)]_runtimeVars
=============================================================================
