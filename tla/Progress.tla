------------------------------ MODULE Progress ------------------------------
(***************************************************************************)
(* Workers that keep polling one subject while time passes: the run loops  *)
(* of tools/main.cpp around Runtime::step, started again after an exception *)
(* has ended the process, and hosts that call RoutedRuntime::step in a     *)
(* loop.  One wall clock is read by all; it moves only while the schedule  *)
(* is waiting for it, which loses no admission and keeps it bounded.       *)
(* Backends answer every attempt with a proposal or an invalid output, and *)
(* no step is cancelled or late: what is left of failure is a message no   *)
(* backend can digest, lost races and crashes.                             *)
(***************************************************************************)
EXTENDS Runtime

CONSTANT WakeTicks  \* bound on the transitions that may ask for a wake

ASSUME ProgressAssumption == WakeTicks \in Nat

VARIABLE clock

progressVars == <<runtimeVars, clock>>

ProgressInit == RuntimeInit /\ Create(0) /\ clock = 0

\* The steps of a polling worker; a settlement overflows no projection.
Poll(w) ==
    /\ \/ Begin(w, FALSE, clock)
       \/ Return(w)
       \/ Exhaust(w)
       \/ OpenSession(w)
       \/ CheckHead(w)
       \/ AdmitWaiting(w, clock)
       \/ AdmitAttempt(w, clock, FALSE)
       \/ CheckAdmitted(w)
       \/ \E answer \in Answers : Respond(w, answer)
       \/ FailAnswer(w, clock) /\ ~Settles(work[w].attempt)
       \/ DisposeAnswer(w, clock)
       \/ \E request \in WakeRequests \cup {NoTime} :
             CommitAnswer(w, clock, request) /\ (tick < WakeTicks \/ request = NoTime)
       \/ Reject(w, "conflict")
       \/ SettleRejected(w)
    /\ UNCHANGED clock

\* A reason to run that only time can make ready.
Tick ==
    /\ clock < MaxMillis
    /\ ScheduleStatus(clock) \in {"sleeping", "budget_exhausted", "minimum_interval"}
    /\ clock' = clock + 1
    /\ UNCHANGED runtimeVars

ProgressNext ==
    \/ Tick
    \/ \E w \in Workers : Poll(w) \/ (Crash(w) /\ UNCHANGED clock)
    \/ SubmitMessage /\ UNCHANGED clock

\* The loops poll again after every result, and time passes.
ProgressSpec ==
    /\ ProgressInit
    /\ [][ProgressNext]_progressVars
    /\ WF_progressVars(Tick)
    /\ \A w \in Workers : WF_progressVars(Poll(w))

Pending ==
    \/ wake # NoTime
    \/ \E o \in OccasionIds : Message(o) /\ occasions[o].consumed = NoCommit

\* A subject with a pending message or an armed wake works it off, although
\* every backend may reject the message and a worker may crash with a
\* reservation: the failure count settles a message that cannot be delivered,
\* spent quota comes back, and no orphaned reservation blocks the inbox.
SubjectAdvances == Pending ~> ~Pending
=============================================================================
