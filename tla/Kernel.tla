------------------------------- MODULE Kernel -------------------------------
(***************************************************************************)
(* One subject of the cogg store (class Store, src/kernel.cpp).            *)
(*                                                                         *)
(* Every operation of Store runs in one SQLite write transaction, so it is *)
(* one action.  A call that throws rolls its transaction back: it is a     *)
(* stuttering step and needs no action.  Nothing else is shared between    *)
(* callers: any process may settle any reserved attempt at any time and    *)
(* with any observed wall clock, which covers concurrent workers, a worker *)
(* that crashed (its attempt stays reserved), late answers, repeated calls *)
(* and clocks that jump forward or roll back.                              *)
(*                                                                         *)
(* Rows are identified by their position: an attempt by its seq, an        *)
(* occasion by its seq, a commit by the order of insertion.  The position  *)
(* stands for the content hash the code uses as an id.                     *)
(***************************************************************************)
EXTENDS Budget

CONSTANTS
    Keys,                 \* idempotency keys of external messages
    Payloads,             \* their contents
    WakeRequests,         \* delays a proposal may ask for (wake_after_ms)
    MaxOccasionFailures,  \* Limits::max_occasion_failures; 0 disables disposition
    MaintenanceModes,     \* whether an admission may be task maintenance
    AttemptBound          \* bound on the attempts table, for model checking

ASSUME KernelAssumption ==
    /\ WakeRequests \subseteq Nat
    /\ MaxOccasionFailures \in Nat
    /\ MaintenanceModes \subseteq BOOLEAN
    /\ AttemptBound \in Nat

VARIABLES
    tick, head, wake,   \* subjects.tick, .head and .wake of the subject
    accounting_wall,    \* subjects.accounting_wall: the clock's high-water mark
    occasions,          \* the inbox, in seq order
    attempts,           \* admissions, in seq order
    commits,            \* committed transitions, in insertion order
    failures,           \* occasion_failures: attempts counted against their occasion
    abstentions         \* attempts with an abstention receipt

vars == <<tick, head, wake, accounting_wall, occasions, attempts, commits,
          failures, abstentions>>

Genesis == 1     \* the genesis commit, tick 0
NoCommit == 0    \* SQL NULL in occasions.consumed, and the parent of genesis
NoRow == 0

\* A key is namespaced by who enqueues: "user:"+key, "system:created", "wake:"+head.
UserKey(k) == <<"user", k>>
CreatedKey == <<"system", NoRow>>
WakeKey(h) == <<"wake", h>>

AttemptIds == 1 .. Len(attempts)
OccasionIds == 1 .. Len(occasions)
CommitIds == 1 .. Len(commits)

\* The admission instants of the first `through' attempts.
AdmittedAt(through) == [i \in 1 .. through |-> attempts[i].admitted_at]

-----------------------------------------------------------------------------
(* Impl::enqueue: idempotent in the key.                                   *)

KeyRows(key) == {o \in OccasionIds : occasions[o].key = key}

\* The id the call returns: the row that has the key, else a new one.
EnqueueId(key) ==
    IF KeyRows(key) = {} THEN Len(occasions) + 1 ELSE Min(KeyRows(key))

\* "idempotency key reused with different content" is refused.
EnqueueAccepted(key, kind, payload) ==
    \A o \in KeyRows(key) : occasions[o].kind = kind /\ occasions[o].payload = payload

\* Mutant: a retried delivery of the same key is inserted again.
EnqueueDuplicates(key, kind, payload) ==
    Append(occasions, [key |-> key, kind |-> kind, payload |-> payload,
                       parent |-> head, consumed |-> NoCommit])

Enqueued(key, kind, payload) ==
    IF KeyRows(key) # {} THEN occasions
    ELSE Append(occasions, [key |-> key, kind |-> kind, payload |-> payload,
                            parent |-> head, consumed |-> NoCommit])

-----------------------------------------------------------------------------
(* Impl::schedule: what may be admitted at an observed wall clock.         *)

Accounting(observed) == Later(observed, accounting_wall)

\* The WHERE clause over the inbox. A queued wake is still a physical deadline:
\* it is offered only for the head that asked for it, at an observed clock that
\* reached it.
Offered(o, observed) ==
    /\ occasions[o].consumed = NoCommit
    /\ occasions[o].kind = "scheduled" =>
          /\ occasions[o].parent = head
          /\ observed >= (IF wake = NoTime THEN MaxMillis ELSE wake)

OfferedOccasions(observed) == {o \in OccasionIds : Offered(o, observed)}

\* Mutant: an armed wake is due at once.
WakeDueAtOnce(observed) == wake # NoTime

WakeDue(observed) == wake # NoTime /\ observed >= wake

\* Mutant: the newest message is admitted first.
NextOccasionLifo(observed) ==
    IF OfferedOccasions(observed) # {} THEN Max(OfferedOccasions(observed))
    ELSE IF WakeDue(observed) THEN EnqueueId(WakeKey(head)) ELSE NoRow

\* ORDER BY seq LIMIT 1, else the due wake that has no row yet, else none.
NextOccasion(observed) ==
    IF OfferedOccasions(observed) # {} THEN Min(OfferedOccasions(observed))
    ELSE IF WakeDue(observed) THEN EnqueueId(WakeKey(head)) ELSE NoRow

LiveDecision(observed) ==
    LiveBudget(AdmittedAt(Len(attempts)), Accounting(observed))

\* Mutant: the rolling quota is not consulted.
ScheduleStatusNoQuota(observed) ==
    LET b == LiveDecision(observed)
    IN  IF NextOccasion(observed) = NoRow
        THEN IF wake = NoTime THEN "waiting_external" ELSE "sleeping"
        ELSE IF b.floor_at > Accounting(observed) THEN "minimum_interval"
        ELSE "ready"

\* Mutant: an unsettled reservation blocks the next admission.
ScheduleStatusExclusive(observed) ==
    IF NextOccasion(observed) = NoRow
    THEN IF wake = NoTime THEN "waiting_external" ELSE "sleeping"
    ELSE IF LiveDecision(observed).quota_at > Accounting(observed) THEN "budget_exhausted"
    ELSE IF \/ LiveDecision(observed).floor_at > Accounting(observed)
            \/ \E a \in AttemptIds : attempts[a].status = "reserved"
         THEN "minimum_interval"
    ELSE "ready"

ScheduleStatus(observed) ==
    LET b == LiveDecision(observed)
    IN  IF NextOccasion(observed) = NoRow
        THEN IF wake = NoTime THEN "waiting_external" ELSE "sleeping"
        ELSE IF b.quota_at > Accounting(observed) THEN "budget_exhausted"
        ELSE IF b.floor_at > Accounting(observed) THEN "minimum_interval"
        ELSE "ready"

-----------------------------------------------------------------------------
(* Store::create: genesis, and the occasion that wakes a new subject.      *)
(* Genesis has no wake plan; the empty one stands for it.                  *)

Create(now) ==
    /\ tick = 0
    /\ head = Genesis
    /\ wake = NoTime
    /\ accounting_wall = now
    /\ commits = <<[parent |-> NoCommit, tick |-> 0, occasion |-> NoRow,
                    attempt |-> NoRow, committed_at |-> now, wake_at |-> NoTime,
                    plan |-> WakePlan(now, NoTime, LiveBudget(<<>>, now)),
                    disposition |-> {}]>>
    /\ occasions = <<[key |-> CreatedKey, kind |-> "created", payload |-> NoRow,
                      parent |-> Genesis, consumed |-> NoCommit]>>
    /\ attempts = <<>>
    /\ failures = {}
    /\ abstentions = {}

Init == \E now \in Instants : Create(now)

\* Store::submit.
Submit(key, payload) ==
    /\ EnqueueAccepted(UserKey(key), "external", payload)
    /\ occasions' = Enqueued(UserKey(key), "external", payload)
    /\ UNCHANGED <<tick, head, wake, accounting_wall, attempts, commits,
                   failures, abstentions>>

-----------------------------------------------------------------------------
(* Store::admit.  A stale admission context, a projection that overflows   *)
(* the backend's capacity and an unready schedule leave nothing behind.    *)

\* The attempt row of an admission of occasion o at an observed clock.
Admission(o, observed, maintenance) ==
    [parent |-> head, tick |-> tick, occasion |-> o,
     admitted_at |-> Accounting(observed), observed_at |-> observed,
     budget |-> LiveDecision(observed), maintenance |-> maintenance,
     status |-> "reserved"]

Admit(observed, maintenance) ==
    LET o == NextOccasion(observed)
    IN  /\ Len(attempts) < AttemptBound
        /\ ScheduleStatus(observed) = "ready"
        /\ \/ /\ OfferedOccasions(observed) # {}
              /\ UNCHANGED occasions
           \/ /\ OfferedOccasions(observed) = {}
              /\ EnqueueAccepted(WakeKey(head), "scheduled", wake)
              /\ occasions' = Enqueued(WakeKey(head), "scheduled", wake)
        /\ accounting_wall' = Accounting(observed)
        /\ attempts' = Append(attempts, Admission(o, observed, maintenance))
        /\ UNCHANGED <<tick, head, wake, commits, failures, abstentions>>

-----------------------------------------------------------------------------
(* Store::commit and Store::commit_locked.                                 *)

\* The conflicts of commit_locked: the attempt is settled, the head moved, or
\* the occasion was consumed.
Committable(a) ==
    /\ attempts[a].status = "reserved"
    /\ attempts[a].parent = head
    /\ attempts[a].tick = tick
    /\ occasions[attempts[a].occasion].consumed = NoCommit

\* Mutant: the commit's instant may precede the accounting high-water mark.
CommitInstantByWall(a, now) == Later(now, attempts[a].admitted_at)

\* A commit's instant moves behind neither admission nor the accounting clock.
\* Inference time measured by the steady clock (inference_elapsed_ms) can only
\* move it later, to an instant that another `now' gives as well.
CommitInstant(a, now) == Later(Later(now, attempts[a].admitted_at), accounting_wall)

\* Mutant: losing reservations of the same head are left reserved.
SettledOnlyWinner(a) == [attempts EXCEPT ![a].status = "committed"]

\* The winner is committed, every other reservation at this head superseded.
Settled(a) ==
    [i \in AttemptIds |->
        IF i = a THEN [attempts[i] EXCEPT !.status = "committed"]
        ELSE IF attempts[i].parent = head /\ attempts[i].status = "reserved"
        THEN [attempts[i] EXCEPT !.status = "superseded"]
        ELSE attempts[i]]

\* The wake plan of a commit, over every admission made so far.
CommitPlan(a, now, request) ==
    WakePlan(CommitInstant(a, now), request,
             LiveBudget(AdmittedAt(Len(attempts)), CommitInstant(a, now)))

\* The write transaction shared by a model's proposal (disposition = {}) and
\* by the kernel's own settlement of an undeliverable occasion.
CommitLocked(a, now, request, disposition) ==
    LET o == attempts[a].occasion
        at == CommitInstant(a, now)
        plan == CommitPlan(a, now, request)
        id == Len(commits) + 1
    IN  /\ Committable(a)
        /\ attempts[a].maintenance => request = NoTime   \* memory_transition
        /\ Representable(plan)
        /\ commits' = Append(commits,
              [parent |-> head, tick |-> tick + 1, occasion |-> o, attempt |-> a,
               committed_at |-> at, wake_at |-> plan.granted_at, plan |-> plan,
               disposition |-> disposition])
        /\ tick' = tick + 1
        /\ head' = id
        /\ wake' = plan.granted_at
        /\ accounting_wall' = at
        /\ occasions' = [occasions EXCEPT ![o].consumed = id]
        /\ attempts' = Settled(a)

Commit(a, now, request) ==
    /\ CommitLocked(a, now, request, {})
    /\ UNCHANGED <<failures, abstentions>>

-----------------------------------------------------------------------------
(* Store::abstain, and both overloads of Store::fail.                      *)

\* Mutant: the update of the status names no attempt.
WithStatusEverywhere(a, status) ==
    [b \in AttemptIds |-> IF attempts[b].status = "reserved" THEN [attempts[b] EXCEPT !.status = status]
                         ELSE attempts[b]]

WithStatus(a, status) == [attempts EXCEPT ![a].status = status]

\* A provider's refusal settles the attempt and leaves its occasion pending.
Abstain(a) ==
    /\ attempts[a].status = "reserved"
    /\ attempts[a].parent = head
    /\ abstentions' = abstentions \cup {a}
    /\ attempts' = WithStatus(a, "abstained")
    /\ UNCHANGED <<tick, head, wake, accounting_wall, occasions, commits, failures>>

\* A transient failure, or any failure of a subject without disposition.
FailTransient(a) ==
    /\ attempts[a].status = "reserved"
    /\ attempts' = WithStatus(a, "failed")
    /\ UNCHANGED <<tick, head, wake, accounting_wall, occasions, commits,
                   failures, abstentions>>

\* ORDER BY seq LIMIT cap - 1: the earliest other failures of the occasion.
EarlierFailures(a) ==
    LET others == {f \in failures \ {a} : attempts[f].occasion = attempts[a].occasion}
    IN  {f \in others : Cardinality({g \in others : g < f}) < MaxOccasionFailures - 1}

\* The failures a disposition by attempt a would list, a itself last.
CountedFailures(a) == EarlierFailures(a) \cup {a}

\* The failure that completes the count settles the occasion, if the attempt
\* still owns the head and the occasion is still pending.
Settles(a) ==
    /\ Cardinality(CountedFailures(a)) >= MaxOccasionFailures
    /\ attempts[a].parent = head
    /\ occasions[attempts[a].occasion].consumed = NoCommit

\* Mutant: settling an undeliverable message drops the pending wake.
SettlementRequestDropped(a, now) == NoTime

\* A settlement asks again for the pending wake, unless the occasion was that
\* wake or the attempt was task maintenance.
SettlementRequest(a, now) ==
    IF /\ wake # NoTime
       /\ occasions[attempts[a].occasion].kind # "scheduled"
       /\ ~attempts[a].maintenance
    THEN Later(0, wake - CommitInstant(a, now))
    ELSE NoTime

\* An invalid output is counted, and leaves the occasion pending: the count is
\* not complete, or the attempt no longer owns the head.
RecordFailure(a) ==
    /\ MaxOccasionFailures > 0
    /\ attempts[a].status = "reserved"
    /\ ~Settles(a)
    /\ failures' = failures \cup {a}
    /\ attempts' = WithStatus(a, "failed")
    /\ UNCHANGED <<tick, head, wake, accounting_wall, occasions, commits, abstentions>>

\* The invalid output that completes the count settles the occasion.
Dispose(a, now) ==
    /\ MaxOccasionFailures > 0
    /\ attempts[a].status = "reserved"
    /\ Settles(a)
    /\ CommitLocked(a, now, SettlementRequest(a, now), CountedFailures(a))
    /\ failures' = failures \cup {a}
    /\ UNCHANGED abstentions

\* ... unless the memory projection of the next head overflows its capacity:
\* the savepoint undoes the settlement, and the failure stays counted.
DisposeOverflow(a, now) ==
    /\ MaxOccasionFailures > 0
    /\ attempts[a].status = "reserved"
    /\ Settles(a)
    /\ Representable(CommitPlan(a, now, SettlementRequest(a, now)))
    /\ failures' = failures \cup {a}
    /\ attempts' = WithStatus(a, "failed")
    /\ UNCHANGED <<tick, head, wake, accounting_wall, occasions, commits, abstentions>>

-----------------------------------------------------------------------------
Next ==
    \/ \E key \in Keys, payload \in Payloads : Submit(key, payload)
    \/ \E observed \in Instants, maintenance \in MaintenanceModes :
          Admit(observed, maintenance)
    \/ \E a \in AttemptIds :
          \/ \E now \in Instants, request \in WakeRequests \cup {NoTime} :
                Commit(a, now, request)
          \/ Abstain(a)
          \/ FailTransient(a)
          \/ RecordFailure(a)
          \/ \E now \in Instants : Dispose(a, now) \/ DisposeOverflow(a, now)

Spec == Init /\ [][Next]_vars

-----------------------------------------------------------------------------
(* Properties.                                                             *)

Statuses == {"reserved", "committed", "failed", "superseded", "abstained"}

OccasionRow ==
    [key : {"user", "system", "wake"} \X (Keys \cup Nat),
     kind : {"created", "external", "scheduled"},
     payload : Payloads \cup Nat, parent : Nat \ {0}, consumed : Nat]

BudgetRow == [used : Nat, through : Nat, floor_at : Nat, quota_at : Nat, eligible_at : Nat]

AttemptRow ==
    [parent : Nat \ {0}, tick : Nat, occasion : Nat \ {0}, admitted_at : Instants,
     observed_at : Instants, budget : BudgetRow, maintenance : BOOLEAN, status : Statuses]

PlanRow ==
    [decided_at : Instants, requested_after : Nat \cup {NoTime},
     granted_at : Instants \cup {NoTime}, budget : BudgetRow]

CommitRow ==
    [parent : Nat, tick : Nat, occasion : Nat, attempt : Nat, committed_at : Instants,
     wake_at : Instants \cup {NoTime}, plan : PlanRow,
     disposition : SUBSET Nat]

\* Every row refers to rows that exist (the foreign keys of the schema) and
\* every instant is representable.
TypeOK ==
    /\ tick \in Nat
    /\ occasions \in Seq(OccasionRow)
    /\ attempts \in Seq(AttemptRow)
    /\ commits \in Seq(CommitRow)
    /\ head \in CommitIds
    /\ wake \in Instants \cup {NoTime}
    /\ accounting_wall \in Instants
    /\ failures \subseteq AttemptIds
    /\ abstentions \subseteq AttemptIds
    /\ \A o \in OccasionIds :
          occasions[o].parent \in CommitIds /\ occasions[o].consumed \in CommitIds \cup {NoCommit}
    /\ \A a \in AttemptIds :
          attempts[a].parent \in CommitIds /\ attempts[a].occasion \in OccasionIds

\* The rate limit of Limits, on the persisted admissions and whatever the wall
\* clock did: two admissions are MinWake apart, and any MaxAttempts + 1
\* consecutive ones span a Period.  Failed, superseded, abstained and crashed
\* attempts spend quota as committed ones do.
RateLimit ==
    \A i \in AttemptIds :
        /\ i > 1 => attempts[i].admitted_at >= attempts[i - 1].admitted_at + MinWake
        /\ i > MaxAttempts =>
              attempts[i].admitted_at >= attempts[i - MaxAttempts].admitted_at + Period

Message(o) == occasions[o].kind # "scheduled"

\* A key names one occasion, however often it is delivered, and messages (the
\* created occasion and external ones) are settled in the order in which the
\* inbox accepted them, each by a later commit than the one before, whichever
\* worker wins and whatever fails, abstains or is disposed.
InboxOrder ==
    \A o, p \in OccasionIds :
        /\ occasions[o].key = occasions[p].key => o = p
        /\ (Message(o) /\ Message(p) /\ o < p /\ occasions[p].consumed # NoCommit) =>
              /\ occasions[o].consumed # NoCommit
              /\ occasions[o].consumed < occasions[p].consumed

\* A wake that ran was still the wake of the head it advanced, and the admitting
\* worker had observed its deadline: neither a newer head, nor a queued row, nor
\* a clock rollback lets an obsolete or early timer drive a transition.
WakeIsCurrentAndDue ==
    \A c \in CommitIds \ {Genesis} :
        LET o == commits[c].occasion
            p == commits[c].parent
        IN  occasions[o].kind = "scheduled" =>
                /\ occasions[o].parent = p
                /\ commits[p].wake_at # NoTime
                /\ attempts[commits[c].attempt].observed_at >= commits[p].wake_at

\* A reservation can still win: it owns the current head and its occasion is
\* pending.  A commit leaves no reservation of an older head behind.
ReservationsAreLive ==
    \A a \in AttemptIds :
        attempts[a].status = "reserved" =>
            /\ attempts[a].parent = head
            /\ attempts[a].tick = tick
            /\ occasions[attempts[a].occasion].consumed = NoCommit

\* schedule() reports when a pending occasion becomes admissible: the instant
\* it publishes as eligible_at is ready, and no later poll whose accounting
\* clock is still short of it is.
EligibleAt(observed) ==
    IF NextOccasion(observed) = NoRow
    THEN Later(wake, LiveDecision(observed).eligible_at)
    ELSE LiveDecision(observed).eligible_at

EligibilityIsExact ==
    \A observed \in Instants :
        LET e == EligibleAt(observed)
        IN  (ScheduleStatus(observed) # "waiting_external" /\ e <= MaxMillis) =>
                /\ ScheduleStatus(e) = "ready"
                /\ \A t \in observed .. e : Accounting(t) < e => ScheduleStatus(t) # "ready"

\* A disposition of a message keeps the pending wake: it is never lost nor
\* brought forward, and moves later only as far as the minimum interval and
\* the admission budget at the settlement demand.
DispositionKeepsWake ==
    [][\A a \in AttemptIds :
          (/\ Len(commits') > Len(commits)
           /\ commits'[Len(commits')].attempt = a
           /\ commits'[Len(commits')].disposition # {}
           /\ wake # NoTime
           /\ Message(attempts[a].occasion)
           /\ ~attempts[a].maintenance) =>
              LET c == commits'[Len(commits')]
              IN  wake' = Later(wake, Later(c.committed_at + MinWake,
                                            c.plan.budget.eligible_at))]_vars
=============================================================================
