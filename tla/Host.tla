-------------------------------- MODULE Host --------------------------------
(***************************************************************************)
(* cogg-host (tools/tui/host.cpp): one process that owns a database, with  *)
(* a worker thread that drives the subject and an IPC thread that serves   *)
(* its operator, both over the record Control under one mutex; and the     *)
(* image preparation of src/perception.cpp that the worker makes before an *)
(* attempt.  Other processes may drive the same subject meanwhile: the     *)
(* host's lock only keeps other hosts away.                                *)
(*                                                                         *)
(* Each action below holds the mutex at most once and makes at most one    *)
(* store transaction.                                                      *)
(***************************************************************************)
EXTENDS Runtime

CONSTANTS
    HostWorker,     \* the worker thread; its mode is "route", or "self" for a
                    \* subject with a self profile
    Images,         \* payloads that name an image
    OperatorBound   \* bound on /resume and /evidence, for model checking

ASSUME HostAssumption ==
    /\ HostWorker \in Workers
    /\ Mode[HostWorker] \in {"route", "self"}
    /\ Len(Route) = 1          \* the host's executor
    /\ Images \subseteq Payloads
    /\ OperatorBound \in Nat

VARIABLES
    host,       \* Control, and the locals of the worker's loop
    receipts,   \* bindings with an observation receipt in the media directory
    trace       \* what operator and observer can count

hostVars == <<host, receipts, trace>>
allVars == <<runtimeVars, hostVars>>

\* An admission context, or JSON null: a binding and its input packets.
Nothing == [bind |-> NoContext, packets |-> {}]

\* Control, and the loop at its top.
HostFresh ==
    [at |-> "top", paused |-> TRUE, running |-> FALSE, last |-> "started paused",
     staged |-> Nothing, held |-> Nothing, target |-> NoContext, stopping |-> FALSE]

HostInit ==
    /\ RuntimeInit
    /\ host = HostFresh
    /\ receipts = {}
    /\ trace = [openings |-> 0, fruitless |-> 0, reports |-> 0, delivered |-> 0, quiet |-> TRUE]

Loop(pc) == host.at = pc

\* Nothing but the loop and the trace moves.
OnlyLoop == UNCHANGED <<runtimeVars, receipts>>

-----------------------------------------------------------------------------
(* The worker's loop.                                                      *)

Exit ==
    /\ Loop("top")
    /\ host.stopping
    /\ host' = [host EXCEPT !.at = "exited"]
    /\ OnlyLoop /\ UNCHANGED trace

Poll(now) ==
    /\ Loop("top")
    /\ ~host.stopping
    /\ ~host.paused
    /\ ScheduleStatus(now) = "ready"
    /\ host' = [host EXCEPT !.at = "take"]
    /\ OnlyLoop /\ UNCHANGED trace

Taken == [host EXCEPT !.at = "prepare", !.running = TRUE, !.held = host.staged,
                      !.staged = Nothing]

\* Mutant: paused is not read again under the lock.
TakeUnchecked ==
    /\ Loop("take")
    /\ host' = Taken
    /\ OnlyLoop /\ UNCHANGED trace

\* Mutant: the staged context is copied, not moved.
TakeCopy ==
    /\ Loop("take")
    /\ host' = IF host.paused THEN [host EXCEPT !.at = "top"]
               ELSE [Taken EXCEPT !.staged = host.staged]
    /\ OnlyLoop /\ UNCHANGED trace

\* An operator may have paused since the poll; else the staged context moves.
Take ==
    /\ Loop("take")
    /\ host' = IF host.paused THEN [host EXCEPT !.at = "top"] ELSE Taken
    /\ OnlyLoop /\ UNCHANGED trace

-----------------------------------------------------------------------------
(* Image preparation.                                                      *)

ImageOffered(now) ==
    /\ OfferedOccasions(now) # {}
    /\ occasions[Min(OfferedOccasions(now))].kind = "external"
    /\ occasions[Min(OfferedOccasions(now))].payload \in Images

\* image_context up to the receipt: an existing one is used.
Prepare(now) ==
    /\ Loop("prepare")
    /\ host' = IF ~ImageOffered(now) THEN [host EXCEPT !.at = "step"]
               ELSE [host EXCEPT !.target = ContextAt(now),
                                 !.at = IF ContextAt(now) \in receipts THEN "recheck"
                                        ELSE "observe"]
    /\ OnlyLoop /\ UNCHANGED trace

\* The vision call, outside lock and transaction, and its receipt.
Observe ==
    /\ Loop("observe")
    /\ receipts' = receipts \cup {host.target}
    /\ host' = [host EXCEPT !.at = "recheck"]
    /\ UNCHANGED <<runtimeVars, trace>>

\* The handler of preparation errors.
ImageFailed ==
    [host EXCEPT !.at = "top", !.running = FALSE, !.paused = TRUE, !.last = "image_failed",
                 !.held = Nothing, !.target = NoContext]

\* The media file, the receipt or the call fails, or the vision executor
\* abstains.
ObserveFails ==
    /\ host.at \in {"observe", "recheck"}
    /\ host' = ImageFailed
    /\ OnlyLoop /\ UNCHANGED trace

\* image_context after the receipt: cancelled, or stale, or done.
Recheck(now) ==
    /\ Loop("recheck")
    /\ host' = IF host.stopping \/ NextOccasion(now) = NoRow \/ ContextAt(now) # host.target
               THEN ImageFailed
               ELSE [host EXCEPT !.at = "merge"]
    /\ OnlyLoop /\ UNCHANGED trace

\* "stale image evidence", and duplicate packets, are refused.
Mergeable ==
    /\ host.held # Nothing => host.held.bind = host.target
    /\ "image" \notin host.held.packets

\* The prepared context with the operator's packets; then paused is read again.
Merge ==
    /\ Loop("merge")
    /\ host' = IF ~Mergeable THEN ImageFailed
               ELSE IF host.paused
               THEN [host EXCEPT !.at = "top", !.running = FALSE, !.held = Nothing,
                                 !.target = NoContext]
               ELSE [host EXCEPT !.at = "step", !.target = NoContext,
                                 !.held = [bind |-> host.target,
                                           packets |-> host.held.packets \cup {"image"}]]
    /\ OnlyLoop /\ UNCHANGED trace

-----------------------------------------------------------------------------
(* The attempt.                                                            *)

\* A route is bound by the context.  A self step is bound by the grant, which
\* only evidence carries; the context's packets are passed as plain inputs.
Binding ==
    IF Routed(HostWorker) \/ "report" \in host.held.packets THEN host.held.bind ELSE NoContext

\* Mutant: the packets are passed without their binding.
StepUnbound ==
    /\ Loop("step")
    /\ work' = [work EXCEPT ![HostWorker] = Started(HostWorker, NoContext)]
    /\ host' = [host EXCEPT !.at = "stepping"]
    /\ UNCHANGED <<vars, registry, crashes, abandoned, receipts, trace>>

StepBegins ==
    /\ Loop("step")
    /\ work' = [work EXCEPT ![HostWorker] = Started(HostWorker, Binding)]
    /\ host' = [host EXCEPT !.at = "stepping"]
    /\ UNCHANGED <<vars, registry, crashes, abandoned, receipts, trace>>

\* The step runs on its own; only a stopping host cancels it.
HostSteps(now) ==
    /\ Loop("stepping")
    /\ StepNext(HostWorker, now)
    /\ work'[HostWorker].status = "cancelled" => host.stopping
    /\ trace' = [trace EXCEPT !.delivered =
                    IF Len(attempts') > Len(attempts) /\ "report" \in host.held.packets
                    THEN @ + 1 ELSE @]
    /\ UNCHANGED <<host, receipts>>

\* Mutant: a fruitless attempt does not pause the host.
EndedUnpaused(status) ==
    [host EXCEPT !.at = "top", !.running = FALSE, !.last = status, !.held = Nothing,
                 !.staged = IF status = "waiting" /\ host.held # Nothing THEN host.held ELSE @]

\* Mutant: a wait drops the context it was given.
EndedForgetful(status) ==
    [host EXCEPT !.at = "top", !.running = FALSE, !.last = status, !.held = Nothing,
                 !.paused = @ \/ status \notin {"committed", "waiting"}]

\* What remains of the loop's iteration: a wait stages the context again, every
\* other failure pauses; an exception ends the thread.
Ended(status) ==
    IF status = "raised"
    THEN [host EXCEPT !.at = "stopped", !.running = FALSE, !.paused = TRUE,
                      !.last = "worker stopped", !.held = Nothing]
    ELSE [host EXCEPT !.at = "top", !.running = FALSE, !.last = status, !.held = Nothing,
                      !.staged = IF status = "waiting" /\ host.held # Nothing THEN host.held ELSE @,
                      !.paused = @ \/ status \notin {"committed", "waiting"}]

StepEnds ==
    LET step == work[HostWorker]
    IN  /\ Loop("stepping")
        /\ Return(HostWorker)
        /\ host' = Ended(step.status)
        /\ trace' = [trace EXCEPT !.fruitless =
                        IF step.attempt # NoAttempt /\ step.status \notin {"committed", "disposed"}
                        THEN @ + 1 ELSE @]
        /\ UNCHANGED receipts

-----------------------------------------------------------------------------
(* The operator, through the IPC thread.                                   *)

Serving == ~host.stopping /\ ~Loop("stopped")

Pause ==
    /\ Serving
    /\ host' = [host EXCEPT !.paused = TRUE]
    /\ trace' = [trace EXCEPT !.quiet = ~host.running]
    /\ OnlyLoop

Resume ==
    /\ Serving
    /\ trace.openings < OperatorBound
    /\ host' = [host EXCEPT !.paused = FALSE]
    /\ trace' = [trace EXCEPT !.openings = @ + 1, !.quiet = FALSE]
    /\ OnlyLoop

\* Bound to the pending external occasion; staged, and the host resumes.
Evidence(now) ==
    /\ Serving
    /\ host.paused /\ ~host.running
    /\ trace.openings < OperatorBound
    /\ OfferedOccasions(now) # {}
    /\ occasions[Min(OfferedOccasions(now))].kind = "external"
    /\ host' = [host EXCEPT !.paused = FALSE,
                            !.staged = [bind |-> ContextAt(now), packets |-> {"report"}]]
    /\ trace' = [trace EXCEPT !.openings = @ + 1, !.reports = @ + 1, !.quiet = FALSE]
    /\ OnlyLoop

-----------------------------------------------------------------------------
(* The end of the process.                                                 *)

\* SIGINT or SIGTERM: the IPC loop ends and the worker is asked to stop.
Signal ==
    /\ ~host.stopping
    /\ crashes < CrashBound
    /\ crashes' = crashes + 1
    /\ host' = [host EXCEPT !.stopping = TRUE]
    /\ UNCHANGED <<vars, work, registry, abandoned, receipts, trace>>

\* A new process, paused, after the old one is joined or killed.
Restarted ==
    /\ host' = HostFresh
    /\ trace' = [trace EXCEPT !.quiet = TRUE]
    /\ UNCHANGED receipts

Restart ==
    /\ host.stopping /\ host.at \in {"exited", "stopped"}
    /\ registry' = [registry EXCEPT ![HostWorker] = [enabled |-> Executors, sessions |-> {}]]
    /\ Restarted
    /\ UNCHANGED <<vars, work, crashes, abandoned>>

\* Between two steps there is no attempt to lose.
KillIdle ==
    /\ At(HostWorker, "idle")
    /\ crashes < CrashBound
    /\ crashes' = crashes + 1
    /\ registry' = [registry EXCEPT ![HostWorker] = [enabled |-> Executors, sessions |-> {}]]
    /\ UNCHANGED <<vars, work, abandoned>>

Kill == (Crash(HostWorker) \/ KillIdle) /\ Restarted

HostNext ==
    \/ Exit \/ Take \/ Observe \/ ObserveFails \/ Merge \/ StepBegins \/ StepEnds
    \/ \E now \in Instants :
          \/ Poll(now) \/ Prepare(now) \/ Recheck(now) \/ HostSteps(now) \/ Evidence(now)
          \/ \E w \in Workers \ {HostWorker} : WorkerNext(w, now) /\ UNCHANGED hostVars
    \/ Pause \/ Resume \/ Signal \/ Restart \/ Kill
    \/ SubmitMessage /\ UNCHANGED hostVars

HostSpec == HostInit /\ [][HostNext]_allVars

-----------------------------------------------------------------------------
(* Properties.                                                             *)

\* A pause acknowledged while nothing runs is final: the worker neither prepares
\* nor makes an attempt until the operator resumes or supplies evidence, whatever
\* it had already read of the schedule; so it is after a restart.
PauseIsFinal == trace.quiet => ~host.running

\* No invisible retries: every attempt of the host that left its occasion pending
\* was opened by an operator's decision of its own.
NoInvisibleRetries == trace.fruitless <= trace.openings

\* Evidence applies to one attempt only, also when waits stage it again.
OneAttemptPerReport == trace.delivered <= trace.reports

\* The packets of an attempt were made for its head and its occasion: an
\* observation or a report never reaches another occasion.
PacketsAreBound ==
    (Loop("stepping") /\ work[HostWorker].attempt # NoAttempt /\ host.held # Nothing) =>
        LET a == attempts[work[HostWorker].attempt]
        IN  [head |-> a.parent, occasion |-> a.occasion] = host.held.bind

Reported == "report" \in host.staged.packets \cup host.held.packets

\* Staged evidence leaves the host's memory only with the step that used it, whose
\* status the operator is shown, with a failed preparation, or with a restart:
\* neither a wait nor a pause discards it.
EvidenceIsKept ==
    [][(Reported /\ ~Reported') =>
          \/ Loop("stepping") /\ host'.last # "waiting"
          \/ host' = ImageFailed
          \/ host' = HostFresh]_allVars
=============================================================================
