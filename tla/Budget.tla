------------------------------- MODULE Budget -------------------------------
(***************************************************************************)
(* The admission limiter of the store (struct Impl in src/kernel.cpp): a   *)
(* rolling quota of MaxAttempts admissions per Period and a minimum        *)
(* spacing of MinWake between two admissions, computed from the persisted  *)
(* admission instants, and the wake plan that resolves a requested delay   *)
(* against it.                                                             *)
(*                                                                         *)
(* `at' is the sequence of admission instants of one subject in the order  *)
(* of the attempts' seq column; a watermark (through_seq) is a position in *)
(* that sequence, so "seq <= through" is a prefix of `at'.                 *)
(***************************************************************************)
EXTENDS FiniteSetsExt, Sequences

CONSTANTS
    MinWake,      \* Limits::min_wake_ms
    MaxAttempts,  \* Limits::max_attempts
    Period,       \* Limits::period_ms
    MaxWake,      \* Limits::max_wake_ms
    MaxMillis     \* numeric_limits<millis>::max(): no later instant exists

\* What limits_json accepts. A subject cannot be created with other limits.
ASSUME LimitsAssumption ==
    /\ MinWake \in Nat \ {0}
    /\ MaxAttempts \in Nat \ {0}
    /\ Period \in Nat \ {0}
    /\ MaxWake \in Nat /\ MaxWake >= MinWake
    /\ MaxMillis \in Nat

\* check_time accepts the non-negative values of millis.
Instants == 0 .. MaxMillis

\* JSON null, where an optional instant or delay is absent.
NoTime == -1

\* The later of two instants (std::max).
Later(s, t) == IF s >= t THEN s ELSE t

Nondecreasing(at) == \A i, j \in 1 .. Len(at) : i <= j => at[i] <= at[j]

-----------------------------------------------------------------------------
(* The window (now - period, now]: `lower' is its excluded lower end.      *)

\* Mutant: an admission leaves the window one millisecond early.
LowerEarly(now) == IF now >= Period THEN now - Period + 1 ELSE -1

Lower(now) == IF now >= Period THEN now - Period ELSE -1

\* SELECT ... WHERE admitted_at > lower AND seq <= through
Recent(at, now) == {i \in 1 .. Len(at) : at[i] > Lower(now)}

\* ORDER BY admitted_at DESC, seq DESC: i comes before j.
Fresher(at, i, j) == at[i] > at[j] \/ (at[i] = at[j] /\ i > j)

\* ... LIMIT 1 OFFSET cap - 1: the MaxAttempts-th freshest row of the window.
QuotaSource(at, now) ==
    CHOOSE k \in Recent(at, now) :
        Cardinality({i \in Recent(at, now) : Fresher(at, i, k)}) = MaxAttempts - 1

\* The decision record built from the number of admissions in the window and
\* the admission that must leave the window before another is allowed.
Decision(at, now, used, source) ==
    LET floor_at == IF at = <<>> THEN now ELSE Later(now, at[Len(at)] + MinWake)
        quota_at == IF used >= MaxAttempts THEN at[source] + Period ELSE now
    IN  [used |-> used, through |-> Len(at), floor_at |-> floor_at,
         quota_at |-> quota_at, eligible_at |-> Later(floor_at, quota_at)]

\* budget() as live decisions compute it, with SQL over the attempts table.
LiveBudget(at, now) ==
    Decision(at, now, Cardinality(Recent(at, now)), QuotaSource(at, now))

\* budget() as verify() replays it over BudgetHistory: upper_bound finds the
\* end of the prefix at or below `lower', and the quota's source is the
\* MaxAttempts-th entry from the end (history->at[end - cap], from zero).
ReplayBudget(at, now) ==
    LET end == Len(at)
        begin == CHOOSE b \in 0 .. end :
                    /\ \A i \in 1 .. b : at[i] <= Lower(now)
                    /\ b < end => at[b + 1] > Lower(now)
    IN  Decision(at, now, end - begin, end - MaxAttempts + 1)

-----------------------------------------------------------------------------
(* wake_plan(): `request' is the proposal's wake_after_ms or NoTime.       *)

\* The requested delay clamped to [MinWake, MaxWake], moved later when the
\* budget would still deny an admission at that deadline.
Granted(now, request, budget) ==
    IF request = NoTime
    THEN NoTime
    ELSE Later(now + (IF Later(request, MinWake) > MaxWake
                      THEN MaxWake ELSE Later(request, MinWake)),
               budget.eligible_at)

WakePlan(now, request, budget) ==
    [decided_at |-> now, requested_after |-> request,
     granted_at |-> Granted(now, request, budget), budget |-> budget]

\* Mutant: the sums are not checked against the largest instant.
RepresentableUnchecked(plan) == TRUE

\* No add() of budget() or wake_plan() throws "time overflow": every sum,
\* the unclamped request's included, is a representable instant.
Representable(plan) ==
    /\ plan.budget.eligible_at <= MaxMillis
    /\ plan.requested_after # NoTime =>
          /\ plan.decided_at + plan.requested_after <= MaxMillis
          /\ plan.granted_at <= MaxMillis
=============================================================================
