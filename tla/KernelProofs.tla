---------------------------- MODULE KernelProofs ----------------------------
(***************************************************************************)
(* The store, proved for every limit, every number of attempts, messages   *)
(* and workers and every clock: types, rate limit and eligibility; then    *)
(* the history, that is reservations, inbox order, wakes, the refinement   *)
(* of the ledger, and that the store's own verifier accepts whatever the   *)
(* store wrote.                                                            *)
(***************************************************************************)
EXTENDS KernelRefinement, Verify, FiniteSetTheorems, SequenceTheorems, TLAPS

-----------------------------------------------------------------------------
(* The admission limiter: over nondecreasing instants the window is a      *)
(* suffix of the history, so the SQL computation and the replay over       *)
(* BudgetHistory agree, and the quota's source is the MaxAttempts-th       *)
(* admission from the end.                                                 *)

\* std::max of two instants: an upper bound of both, and one of them.
LEMMA LaterProperties ==
    ASSUME NEW s \in Int, NEW t \in Int
    PROVE  /\ Later(s, t) \in Int
           /\ Later(s, t) >= s
           /\ Later(s, t) >= t
           /\ Later(s, t) \in {s, t}
BY DEF Later

\* The lower end of the rolling window: an instant is inside it iff its period
\* has not elapsed at `now'.
LEMMA LowerProperties ==
    ASSUME NEW now \in Nat
    PROVE  /\ Lower(now) \in Int
           /\ Lower(now) >= -1
           /\ \A t \in Nat : t > Lower(now) <=> t + Period > now
BY LimitsAssumption DEF Lower

\* The window is closed upwards: later admissions are in it as well.
LEMMA RecentIsUpwardClosed ==
    ASSUME NEW at \in Seq(Nat), Nondecreasing(at), NEW now \in Nat,
           NEW i \in Recent(at, now)
    PROVE  /\ i \in 1 .. Len(at)
           /\ \A j \in i .. Len(at) : j \in Recent(at, now)
<1>1. i \in 1 .. Len(at) /\ at[i] > Lower(now)
  BY DEF Recent
<1>2. ASSUME NEW j \in i .. Len(at) PROVE j \in Recent(at, now)
  <2>1. j \in 1 .. Len(at) /\ i <= j
    BY <1>1
  <2>2. at[i] <= at[j]
    BY <1>1, <2>1 DEF Nondecreasing
  <2>3. at[i] \in Nat /\ at[j] \in Nat
    BY <1>1, <2>1
  <2>4. Lower(now) \in Int
    BY LowerProperties
  <2>5. QED BY <1>1, <2>1, <2>2, <2>3, <2>4 DEF Recent
<1>3. QED BY <1>1, <1>2

\* Every nonempty set of naturals has a least element.
LEMMA LeastElement ==
    ASSUME NEW S \in SUBSET Nat, S # {}
    PROVE  \E m \in S : \A k \in S : m <= k
<1>1. PICK m \in S : \A k \in S : ~(<<k, m>> \in OpToRel(<, Nat))
  BY WFMin, NatLessThanWellFounded
<1>2. \A k \in S : ~(k < m)
  BY <1>1 DEF OpToRel
<1>3. QED BY <1>2

\* The window is a suffix of the history.
LEMMA RecentIsSuffix ==
    ASSUME NEW at \in Seq(Nat), Nondecreasing(at), NEW now \in Nat
    PROVE  \E b \in 0 .. Len(at) : Recent(at, now) = b + 1 .. Len(at)
<1>1. CASE Recent(at, now) = {}
  <2>1. Len(at) \in 0 .. Len(at) /\ Len(at) + 1 .. Len(at) = {}
    OBVIOUS
  <2>2. QED BY <1>1, <2>1
<1>2. CASE Recent(at, now) # {}
  <2>1. Recent(at, now) \subseteq Nat
    BY DEF Recent
  <2>2. PICK m \in Recent(at, now) : \A k \in Recent(at, now) : m <= k
    BY <1>2, <2>1, LeastElement
  <2>3. m \in 1 .. Len(at) /\ \A j \in m .. Len(at) : j \in Recent(at, now)
    BY RecentIsUpwardClosed
  <2>4. \A k \in Recent(at, now) : k \in m .. Len(at)
    BY <2>2, <2>3 DEF Recent
  <2>5. Recent(at, now) = (m - 1) + 1 .. Len(at)
    <3>1. Recent(at, now) = m .. Len(at)
      BY <2>3, <2>4
    <3>2. (m - 1) + 1 = m
      BY <2>3
    <3>3. QED BY <3>1, <3>2
  <2>6. m - 1 \in 0 .. Len(at)
    BY <2>3
  <2>7. QED BY <2>5, <2>6
<1>3. QED BY <1>1, <1>2

\* Over nondecreasing instants, fresher rows of the window are later rows.
LEMMA FresherIsLater ==
    ASSUME NEW at \in Seq(Nat), Nondecreasing(at), NEW now \in Nat,
           NEW k \in Recent(at, now)
    PROVE  /\ {i \in Recent(at, now) : Fresher(at, i, k)} = k + 1 .. Len(at)
           /\ Cardinality({i \in Recent(at, now) : Fresher(at, i, k)}) = Len(at) - k
<1>1. k \in 1 .. Len(at) /\ \A j \in k .. Len(at) : j \in Recent(at, now)
  BY RecentIsUpwardClosed
<1>2. \A i \in 1 .. Len(at) : at[i] \in Nat
  OBVIOUS
<1>3. \A i \in 1 .. Len(at) : Fresher(at, i, k) <=> i > k
  BY <1>1, <1>2 DEF Fresher, Nondecreasing
<1>4. Recent(at, now) \subseteq 1 .. Len(at)
  BY DEF Recent
<1>5. {i \in Recent(at, now) : Fresher(at, i, k)} = k + 1 .. Len(at)
  BY <1>1, <1>3, <1>4
<1>6. Cardinality(k + 1 .. Len(at)) = Len(at) - k
  BY <1>1, FS_Interval
<1>7. QED BY <1>5, <1>6

\* The number of admissions in the window, and the source of the quota.
LEMMA QuotaSourceIsFromEnd ==
    ASSUME NEW at \in Seq(Nat), Nondecreasing(at), NEW now \in Nat,
           NEW b \in 0 .. Len(at), Recent(at, now) = b + 1 .. Len(at)
    PROVE  /\ Cardinality(Recent(at, now)) = Len(at) - b
           /\ Len(at) - b >= MaxAttempts =>
                 QuotaSource(at, now) = Len(at) - MaxAttempts + 1
<1> Len(at) \in Nat
  OBVIOUS
<1>1. Cardinality(Recent(at, now)) = Len(at) - b
  <2>1. b + 1 \in Int /\ Len(at) \in Int
    OBVIOUS
  <2>2. Cardinality(b + 1 .. Len(at)) = IF b + 1 > Len(at) THEN 0 ELSE Len(at) - (b + 1) + 1
    BY ONLY <2>1, FS_Interval
  <2>3. QED BY <2>2
<1>2. SUFFICES ASSUME Len(at) - b >= MaxAttempts
               PROVE  QuotaSource(at, now) = Len(at) - MaxAttempts + 1
  BY <1>1
<1> DEFINE k0 == Len(at) - MaxAttempts + 1
           Rank(k) == Cardinality({i \in Recent(at, now) : Fresher(at, i, k)})
<1>3. k0 \in Recent(at, now)
  BY <1>2, LimitsAssumption
<1>4. \A k \in Recent(at, now) : k \in Int /\ Rank(k) = Len(at) - k
  BY FresherIsLater DEF Recent
<1>5. Rank(k0) = MaxAttempts - 1
  <2>1. Rank(k0) = Len(at) - k0
    <3> HIDE DEF k0, Rank
    <3> QED BY <1>3, <1>4
  <2>2. QED BY <2>1, LimitsAssumption
<1>6. \A k \in Recent(at, now) : Rank(k) = MaxAttempts - 1 => k = k0
  <2>1. k0 = Len(at) - MaxAttempts + 1 /\ Len(at) \in Nat /\ MaxAttempts \in Nat
    BY LimitsAssumption
  <2> HIDE DEF k0, Rank
  <2>2. SUFFICES ASSUME NEW k \in Recent(at, now), Rank(k) = MaxAttempts - 1
                 PROVE  k = k0
    OBVIOUS
  <2>3. k \in Int /\ MaxAttempts - 1 = Len(at) - k
    BY <1>4, <2>2
  <2>4. QED BY ONLY <2>1, <2>3
<1>7. QuotaSource(at, now) = CHOOSE k \in Recent(at, now) : Rank(k) = MaxAttempts - 1
  BY DEF QuotaSource
<1>8. QED
  <2> HIDE DEF k0, Rank
  <2>1. (CHOOSE k \in Recent(at, now) : Rank(k) = MaxAttempts - 1) = k0
    BY <1>3, <1>5, <1>6
  <2>2. QED BY <2>1, <1>7 DEF k0

\* A decision depends on the quota's source only when the quota is spent.
LEMMA DecisionSource ==
    ASSUME NEW at, NEW now, NEW used, NEW s, NEW t,
           used >= MaxAttempts => s = t
    PROVE  Decision(at, now, used, s) = Decision(at, now, used, t)
<1>1. CASE used >= MaxAttempts
  BY <1>1
<1>2. CASE ~(used >= MaxAttempts)
  BY <1>2 DEF Decision
<1>3. QED BY <1>1, <1>2

\* verify() recomputes every decision by binary search over the admission
\* history; live decisions are made by SQL.  Over nondecreasing instants the two
\* computations of Impl::budget agree, whatever the limits.
THEOREM ReplayAgreesWithLive ==
    ASSUME NEW at \in Seq(Nat), Nondecreasing(at), NEW now \in Nat
    PROVE  ReplayBudget(at, now) = LiveBudget(at, now)
<1>1. PICK b \in 0 .. Len(at) : Recent(at, now) = b + 1 .. Len(at)
  BY RecentIsSuffix
<1> Len(at) \in Nat
  OBVIOUS
<1> DEFINE Begins(c) == /\ \A i \in 1 .. c : at[i] <= Lower(now)
                        /\ c < Len(at) => at[c + 1] > Lower(now)
<1>2. \A i \in 1 .. Len(at) : at[i] > Lower(now) <=> i > b
  BY <1>1 DEF Recent
<1>3. \A i \in 1 .. Len(at) : at[i] \in Nat
  OBVIOUS
<1>4. Lower(now) \in Int
  BY LowerProperties
<1>5. \A i \in 1 .. Len(at) : at[i] <= Lower(now) <=> i <= b
  BY <1>2, <1>3, <1>4
<1>6. Begins(b)
  BY <1>2, <1>5
<1>7. \A c \in 0 .. Len(at) : Begins(c) => c = b
  <2>1. SUFFICES ASSUME NEW c \in 0 .. Len(at), Begins(c) PROVE c = b
    OBVIOUS
  <2>2. CASE c < b
    <3>1. c + 1 \in 1 .. Len(at) /\ c + 1 <= b /\ c < Len(at)
      BY <2>2
    <3>2. QED BY <2>1, <3>1, <1>2
  <2>3. CASE c > b
    <3>1. b + 1 \in 1 .. c /\ b + 1 \in 1 .. Len(at)
      BY <2>3
    <3>2. QED BY <2>1, <3>1, <1>5
  <2>4. QED BY <2>2, <2>3
<1>8. (CHOOSE c \in 0 .. Len(at) : Begins(c)) = b
  <2> HIDE DEF Begins
  <2> QED BY <1>6, <1>7
<1>9. ReplayBudget(at, now) = Decision(at, now, Len(at) - b, Len(at) - MaxAttempts + 1)
  BY <1>8 DEF ReplayBudget
<1>10. LiveBudget(at, now) = Decision(at, now, Len(at) - b, QuotaSource(at, now))
  BY <1>1, QuotaSourceIsFromEnd DEF LiveBudget
<1>11. Len(at) - b >= MaxAttempts => QuotaSource(at, now) = Len(at) - MaxAttempts + 1
  BY <1>1, QuotaSourceIsFromEnd
<1>12. QED BY <1>9, <1>10, <1>11, DecisionSource

\* The fields of a live decision.
LEMMA LiveBudgetProperties ==
    ASSUME NEW at \in Seq(Nat), Nondecreasing(at), NEW now \in Nat
    PROVE  LET b == LiveBudget(at, now)
           IN  /\ b \in [used : Nat, through : Nat, floor_at : Nat,
                         quota_at : Nat, eligible_at : Nat]
               /\ b.through = Len(at)
               /\ b.eligible_at >= b.floor_at /\ b.eligible_at >= b.quota_at
               /\ b.eligible_at \in {b.floor_at, b.quota_at}
               /\ b.floor_at >= now
               /\ Len(at) > 0 => b.floor_at >= at[Len(at)] + MinWake
<1>1. PICK c \in 0 .. Len(at) : Recent(at, now) = c + 1 .. Len(at)
  BY RecentIsSuffix
<1> Len(at) \in Nat
  OBVIOUS
<1> DEFINE used == Len(at) - c
           source == Len(at) - MaxAttempts + 1
<1>2. used \in Nat
  OBVIOUS
<1>3. LiveBudget(at, now) = Decision(at, now, used, source)
  <2>1. LiveBudget(at, now) = Decision(at, now, used, QuotaSource(at, now))
    BY <1>1, QuotaSourceIsFromEnd DEF LiveBudget
  <2>2. used >= MaxAttempts => QuotaSource(at, now) = source
    BY <1>1, QuotaSourceIsFromEnd
  <2>3. QED BY <2>1, <2>2, DecisionSource
<1>4. used >= MaxAttempts => source \in 1 .. Len(at)
  BY LimitsAssumption
<1>5. \A i \in 1 .. Len(at) : at[i] \in Nat
  OBVIOUS
<1> HIDE DEF used, source
<1> DEFINE floor == IF at = <<>> THEN now ELSE Later(now, at[Len(at)] + MinWake)
           quota == IF used >= MaxAttempts THEN at[source] + Period ELSE now
<1>6. floor \in Nat /\ floor >= now /\ (Len(at) > 0 => floor >= at[Len(at)] + MinWake)
  <2>1. CASE at = <<>>
    BY <2>1
  <2>2. CASE at # <<>>
    <3>1. Len(at) \in 1 .. Len(at)
      BY <2>2
    <3>2. at[Len(at)] \in Nat /\ MinWake \in Nat
      BY <3>1, <1>5, LimitsAssumption
    <3>3. QED BY <2>2, <3>2 DEF Later
  <2>3. QED BY <2>1, <2>2
<1>7. quota \in Nat
  <2>1. CASE used >= MaxAttempts
    <3>1. at[source] \in Nat /\ Period \in Nat
      BY <2>1, <1>4, <1>5, LimitsAssumption
    <3>2. QED BY <2>1, <3>1
  <2>2. QED BY <2>1
<1>8. LiveBudget(at, now) = [used |-> used, through |-> Len(at), floor_at |-> floor,
                             quota_at |-> quota, eligible_at |-> Later(floor, quota)]
  BY <1>3 DEF Decision
<1> HIDE DEF floor, quota
<1>9. Later(floor, quota) \in Nat /\ Later(floor, quota) >= floor
      /\ Later(floor, quota) >= quota /\ Later(floor, quota) \in {floor, quota}
  BY <1>6, <1>7 DEF Later
<1>10. QED BY <1>2, <1>6, <1>7, <1>8, <1>9

\* What admission relies on: a decision that neither the quota nor the floor
\* postpones past `now' leaves MinWake behind the last admission and a Period
\* behind the MaxAttempts-th admission from the end.
LEMMA ReadySpacing ==
    ASSUME NEW at \in Seq(Nat), Nondecreasing(at), NEW now \in Nat,
           LiveBudget(at, now).quota_at <= now
    PROVE  Len(at) >= MaxAttempts => at[Len(at) - MaxAttempts + 1] + Period <= now
<1>1. PICK c \in 0 .. Len(at) : Recent(at, now) = c + 1 .. Len(at)
  BY RecentIsSuffix
<1> Len(at) \in Nat
  OBVIOUS
<1> DEFINE source == Len(at) - MaxAttempts + 1
<1>2. SUFFICES ASSUME Len(at) >= MaxAttempts
               PROVE  at[source] + Period <= now
  OBVIOUS
<1>3. source \in 1 .. Len(at)
  BY <1>2, LimitsAssumption
<1>4. at[source] \in Nat
  BY <1>3
<1>5. CASE source \in Recent(at, now)
  <2>1. Len(at) - c >= MaxAttempts
    BY <1>1, <1>5, LimitsAssumption
  <2>2. QuotaSource(at, now) = source /\ Cardinality(Recent(at, now)) = Len(at) - c
    BY <1>1, <2>1, QuotaSourceIsFromEnd
  <2>3. LiveBudget(at, now).quota_at = at[source] + Period
    <3> HIDE DEF source
    <3> QED BY <2>1, <2>2 DEF LiveBudget, Decision
  <2>4. QED BY <2>3
<1>6. CASE source \notin Recent(at, now)
  <2>1. ~(at[source] > Lower(now))
    BY <1>3, <1>6 DEF Recent
  <2>2. ~(at[source] + Period > now)
    BY <2>1, <1>4, LowerProperties
  <2>3. QED BY <2>2, <1>4, LimitsAssumption
<1>7. QED BY <1>5, <1>6

\* The decision in closed form: MinWake after the last admission, and a Period
\* after the MaxAttempts-th admission from the end while that one is recent.
LEMMA LiveBudgetClosedForm ==
    ASSUME NEW at \in Seq(Nat), Nondecreasing(at), NEW now \in Nat
    PROVE  LET b == LiveBudget(at, now)
               source == Len(at) - MaxAttempts + 1
           IN  /\ b.floor_at = IF Len(at) = 0 THEN now ELSE Later(now, at[Len(at)] + MinWake)
               /\ b.quota_at = IF source > 0 /\ at[source] + Period > now
                               THEN at[source] + Period ELSE now
               /\ b.eligible_at = Later(b.floor_at, b.quota_at)
<1>1. PICK c \in 0 .. Len(at) : Recent(at, now) = c + 1 .. Len(at)
  BY RecentIsSuffix
<1> Len(at) \in Nat
  OBVIOUS
<1> DEFINE used == Len(at) - c
           source == Len(at) - MaxAttempts + 1
           floor == IF at = <<>> THEN now ELSE Later(now, at[Len(at)] + MinWake)
           quota == IF used >= MaxAttempts THEN at[source] + Period ELSE now
<1>2. LiveBudget(at, now) = Decision(at, now, used, source)
  <2>1. LiveBudget(at, now) = Decision(at, now, used, QuotaSource(at, now))
    BY <1>1, QuotaSourceIsFromEnd DEF LiveBudget
  <2>2. used >= MaxAttempts => QuotaSource(at, now) = source
    BY <1>1, QuotaSourceIsFromEnd
  <2>3. QED BY <2>1, <2>2, DecisionSource
<1>3. LiveBudget(at, now) = [used |-> used, through |-> Len(at), floor_at |-> floor,
                             quota_at |-> quota, eligible_at |-> Later(floor, quota)]
  BY <1>2 DEF Decision
<1>4. at = <<>> <=> Len(at) = 0
  OBVIOUS
<1>5. used >= MaxAttempts <=> source > 0 /\ at[source] + Period > now
  <2>1. used >= MaxAttempts <=> source >= c + 1
    BY LimitsAssumption
  <2>2. source \in Int /\ source <= Len(at)
    BY LimitsAssumption
  <2> HIDE DEF used, source
  <2>3. CASE source > 0
    <3>1. source \in 1 .. Len(at) /\ at[source] \in Nat
      BY <2>2, <2>3
    <3>2. at[source] > Lower(now) <=> at[source] + Period > now
      BY <3>1, LowerProperties
    <3>3. at[source] > Lower(now) <=> source \in c + 1 .. Len(at)
      BY <1>1, <3>1 DEF Recent
    <3>4. QED BY <2>1, <2>2, <2>3, <3>1, <3>2, <3>3
  <2>4. CASE ~(source > 0)
    BY <2>1, <2>2, <2>4
  <2>5. QED BY <2>3, <2>4
<1> HIDE DEF used, source
<1>6. quota = IF source > 0 /\ at[source] + Period > now THEN at[source] + Period ELSE now
  BY <1>5
<1>7. floor = IF Len(at) = 0 THEN now ELSE Later(now, at[Len(at)] + MinWake)
  BY <1>4
<1> HIDE DEF floor, quota
<1>8. QED BY <1>3, <1>6, <1>7 DEF source

\* An instant announced as eligible stays the right one: a later decision over
\* the same admissions allows `now' exactly when `now' has reached it.
LEMMA EligibilityIsStable ==
    ASSUME NEW at \in Seq(Nat), Nondecreasing(at), NEW s \in Nat, NEW t \in Nat, s <= t
    PROVE  LiveBudget(at, t).eligible_at <= t <=> LiveBudget(at, s).eligible_at <= t
<1> DEFINE n == Len(at)
           source == n - MaxAttempts + 1
           Floor(u) == IF n = 0 THEN u ELSE Later(u, at[n] + MinWake)
           Quota(u) == IF source > 0 /\ at[source] + Period > u THEN at[source] + Period ELSE u
<1>1. /\ LiveBudget(at, t).eligible_at = Later(Floor(t), Quota(t))
      /\ LiveBudget(at, s).eligible_at = Later(Floor(s), Quota(s))
  BY LiveBudgetClosedForm
<1>2. n \in Nat /\ source \in Int /\ (n > 0 => at[n] \in Nat)
      /\ (source > 0 => at[source] \in Nat) /\ MinWake \in Nat /\ Period \in Nat
  BY LimitsAssumption
<1> HIDE DEF n, source
<1>3. /\ Floor(s) \in Nat /\ Floor(t) \in Nat
      /\ Floor(t) <= t <=> Floor(s) <= t
  BY <1>2 DEF Later
<1>4. /\ Quota(s) \in Nat /\ Quota(t) \in Nat
      /\ Quota(t) <= t <=> Quota(s) <= t
  BY <1>2
<1> HIDE DEF Floor, Quota
<1>5. QED BY <1>1, <1>3, <1>4 DEF Later

-----------------------------------------------------------------------------
(* The store.                                                              *)

\* Admissions never go back in time, and the accounting clock is at or past
\* each of them: without this the window of the budget is not a suffix of the
\* history, and neither the types of a decision nor the rate limit are inductive.
AdmissionsInv ==
    /\ \A a \in AttemptIds : attempts[a].admitted_at <= accounting_wall
    /\ \A i, j \in AttemptIds : i <= j => attempts[i].admitted_at <= attempts[j].admitted_at

KernelInv == TypeOK /\ AdmissionsInv

-----------------------------------------------------------------------------
(* Sequences of rows.                                                      *)

\* A function on 1 .. n is a sequence of length n.
LEMMA SeqIntro ==
    ASSUME NEW S, NEW n \in Nat, NEW f \in [1 .. n -> S]
    PROVE  f \in Seq(S) /\ Len(f) = n /\ DOMAIN f = 1 .. n
OBVIOUS

\* Inserting a row at the end of a table keeps the others in place.
LEMMA AppendRow ==
    ASSUME NEW S, NEW seq \in Seq(S), NEW row \in S
    PROVE  /\ Append(seq, row) \in Seq(S)
           /\ Len(Append(seq, row)) = Len(seq) + 1
           /\ \A i \in 1 .. Len(seq) : Append(seq, row)[i] = seq[i]
           /\ Append(seq, row)[Len(seq) + 1] = row
OBVIOUS

\* ORDER BY ... LIMIT 1: the least row id is one of the ids and not above any.
LEMMA MinIsMember ==
    ASSUME NEW S \in SUBSET Nat, S # {}
    PROVE  Min(S) \in S /\ \A k \in S : Min(S) <= k
<1>1. \E m \in S : \A k \in S : m <= k
  BY LeastElement
<1>2. QED BY <1>1 DEF Min

\* The fields of the rows.
LEMMA RowTypes ==
    ASSUME TypeOK
    PROVE  /\ Len(attempts) \in Nat /\ Len(occasions) \in Nat /\ Len(commits) \in Nat
           /\ \A a \in AttemptIds : attempts[a] \in AttemptRow
           /\ \A o \in OccasionIds : occasions[o] \in OccasionRow
           /\ \A c \in CommitIds : commits[c] \in CommitRow
BY DEF TypeOK, AttemptIds, OccasionIds, CommitIds

\* The admission instants of the attempts table are a sequence of instants.
LEMMA AdmissionInstants ==
    ASSUME TypeOK
    PROVE  \A a \in AttemptIds : attempts[a].admitted_at \in Nat /\ attempts[a].admitted_at <= MaxMillis
<1>1. \A r \in AttemptRow : r.admitted_at \in Nat /\ r.admitted_at <= MaxMillis
  BY LimitsAssumption DEF AttemptRow, Instants
<1>2. QED BY <1>1, RowTypes

\* AdmittedAt keeps the order of the table and is nondecreasing.
LEMMA AdmittedAtProperties ==
    ASSUME TypeOK, AdmissionsInv
    PROVE  LET at == AdmittedAt(Len(attempts))
           IN  /\ at \in Seq(Nat)
               /\ Len(at) = Len(attempts)
               /\ \A i \in AttemptIds : at[i] = attempts[i].admitted_at
               /\ Nondecreasing(at)
<1> DEFINE at == AdmittedAt(Len(attempts))
<1>1. Len(attempts) \in Nat
  BY DEF TypeOK
<1>2. \A i \in AttemptIds : attempts[i].admitted_at \in Nat
  BY AdmissionInstants
<1>3. at \in [1 .. Len(attempts) -> Nat]
  BY <1>2 DEF AdmittedAt, AttemptIds
<1>4. \A i \in AttemptIds : at[i] = attempts[i].admitted_at
  BY DEF AdmittedAt, AttemptIds
<1>5. at \in Seq(Nat) /\ Len(at) = Len(attempts)
  BY <1>1, <1>3, SeqIntro
<1>6. Nondecreasing(at)
  BY <1>4, <1>5 DEF Nondecreasing, AdmissionsInv, AttemptIds
<1>7. QED BY <1>4, <1>5, <1>6

-----------------------------------------------------------------------------
(* What the operators of the store return.                                 *)

\* A step that settles attempts changes nothing of them but their status.
OnlyStatusChanges ==
    /\ attempts' \in Seq(AttemptRow)
    /\ Len(attempts') = Len(attempts)
    /\ \A i \in AttemptIds :
          /\ attempts'[i].parent = attempts[i].parent
          /\ attempts'[i].tick = attempts[i].tick
          /\ attempts'[i].occasion = attempts[i].occasion
          /\ attempts'[i].admitted_at = attempts[i].admitted_at
          /\ attempts'[i].observed_at = attempts[i].observed_at
          /\ attempts'[i].budget = attempts[i].budget
          /\ attempts'[i].maintenance = attempts[i].maintenance

\* UPDATE attempts SET status keeps a row an attempt.
LEMMA StatusUpdate ==
    ASSUME NEW row \in AttemptRow, NEW status \in Statuses
    PROVE  /\ [row EXCEPT !.status = status] \in AttemptRow
           /\ [row EXCEPT !.status = status].parent = row.parent
           /\ [row EXCEPT !.status = status].tick = row.tick
           /\ [row EXCEPT !.status = status].occasion = row.occasion
           /\ [row EXCEPT !.status = status].admitted_at = row.admitted_at
           /\ [row EXCEPT !.status = status].observed_at = row.observed_at
           /\ [row EXCEPT !.status = status].budget = row.budget
           /\ [row EXCEPT !.status = status].maintenance = row.maintenance
           /\ [row EXCEPT !.status = status].status = status
BY DEF AttemptRow

\* Marking one attempt changes no other row and no other column.
LEMMA WithStatusProperties ==
    ASSUME TypeOK, NEW a \in AttemptIds, NEW status \in Statuses,
           attempts' = WithStatus(a, status)
    PROVE  /\ OnlyStatusChanges
           /\ \A i \in AttemptIds :
                 attempts'[i].status = IF i = a THEN status ELSE attempts[i].status
<1>1. attempts' = [attempts EXCEPT ![a] = [attempts[a] EXCEPT !.status = status]]
  BY DEF WithStatus
<1>2. attempts[a] \in AttemptRow /\ attempts \in Seq(AttemptRow)
  BY RowTypes DEF TypeOK
<1>3. [attempts[a] EXCEPT !.status = status] \in AttemptRow
  BY <1>2, StatusUpdate
<1>4. attempts' \in Seq(AttemptRow) /\ Len(attempts') = Len(attempts)
  BY <1>1, <1>2, <1>3, ExceptSeq DEF AttemptIds
<1>5. ASSUME NEW i \in AttemptIds
      PROVE  attempts'[i] = IF i = a THEN [attempts[a] EXCEPT !.status = status] ELSE attempts[i]
  BY <1>1, <1>2 DEF AttemptIds
<1>6. ASSUME NEW i \in AttemptIds
      PROVE  /\ attempts'[i].parent = attempts[i].parent
             /\ attempts'[i].tick = attempts[i].tick
             /\ attempts'[i].occasion = attempts[i].occasion
             /\ attempts'[i].admitted_at = attempts[i].admitted_at
             /\ attempts'[i].observed_at = attempts[i].observed_at
             /\ attempts'[i].budget = attempts[i].budget
             /\ attempts'[i].maintenance = attempts[i].maintenance
             /\ attempts'[i].status = IF i = a THEN status ELSE attempts[i].status
  <2> DEFINE row == [attempts[a] EXCEPT !.status = status]
  <2>1. CASE i = a
    <3>1. attempts'[i] = row
      BY <2>1, <1>5
    <3>2. /\ row.parent = attempts[a].parent
          /\ row.tick = attempts[a].tick
          /\ row.occasion = attempts[a].occasion
          /\ row.admitted_at = attempts[a].admitted_at
          /\ row.observed_at = attempts[a].observed_at
          /\ row.budget = attempts[a].budget
          /\ row.maintenance = attempts[a].maintenance
          /\ row.status = status
      BY <1>2, StatusUpdate
    <3> HIDE DEF row
    <3>3. QED BY <2>1, <3>1, <3>2
  <2>2. CASE i # a
    BY <2>2, <1>5
  <2>3. QED BY <2>1, <2>2
<1>7. QED BY <1>4, <1>6 DEF OnlyStatusChanges

\* The updates of a commit change only the status column.
LEMMA SettledProperties ==
    ASSUME TypeOK, NEW a \in AttemptIds, attempts' = Settled(a)
    PROVE  /\ OnlyStatusChanges
           /\ attempts'[a].status = "committed"
           /\ \A i \in AttemptIds \ {a} :
                 attempts'[i].status =
                    IF attempts[i].parent = head /\ attempts[i].status = "reserved"
                    THEN "superseded" ELSE attempts[i].status
<1> DEFINE Row(i) == IF i = a THEN [attempts[i] EXCEPT !.status = "committed"]
                     ELSE IF attempts[i].parent = head /\ attempts[i].status = "reserved"
                     THEN [attempts[i] EXCEPT !.status = "superseded"]
                     ELSE attempts[i]
<1>1. \A i \in AttemptIds : attempts[i] \in AttemptRow
  BY RowTypes
<1>2. "committed" \in Statuses /\ "superseded" \in Statuses
  BY DEF Statuses
<1>3. \A i \in AttemptIds :
         /\ Row(i) \in AttemptRow
         /\ Row(i).parent = attempts[i].parent
         /\ Row(i).tick = attempts[i].tick
         /\ Row(i).occasion = attempts[i].occasion
         /\ Row(i).admitted_at = attempts[i].admitted_at
         /\ Row(i).observed_at = attempts[i].observed_at
         /\ Row(i).budget = attempts[i].budget
         /\ Row(i).maintenance = attempts[i].maintenance
  BY <1>1, <1>2, StatusUpdate
<1>4. \A i \in AttemptIds :
         Row(i).status = IF i = a THEN "committed"
                         ELSE IF attempts[i].parent = head /\ attempts[i].status = "reserved"
                         THEN "superseded" ELSE attempts[i].status
  BY <1>1, <1>2, StatusUpdate
<1>5. attempts' = [i \in 1 .. Len(attempts) |-> Row(i)]
  BY DEF Settled, AttemptIds
<1> HIDE DEF Row
<1>6. attempts' \in [1 .. Len(attempts) -> AttemptRow]
  BY <1>3, <1>5 DEF AttemptIds
<1>7. attempts' \in Seq(AttemptRow) /\ Len(attempts') = Len(attempts)
  BY <1>6, SeqIntro, RowTypes
<1>8. \A i \in AttemptIds : attempts'[i] = Row(i)
  BY <1>5 DEF AttemptIds
<1>9. QED BY <1>3, <1>4, <1>7, <1>8 DEF OnlyStatusChanges

\* The accounting clock never runs behind the stored high-water mark or the
\* observed clock.
LEMMA AccountingProperties ==
    ASSUME TypeOK, NEW observed \in Instants
    PROVE  /\ Accounting(observed) \in Instants
           /\ Accounting(observed) >= accounting_wall
           /\ Accounting(observed) >= observed
BY LimitsAssumption DEF TypeOK, Accounting, Later, Instants

\* The instant of a commit is representable and not before its admission.
LEMMA CommitInstantProperties ==
    ASSUME TypeOK, NEW a \in AttemptIds, NEW now \in Instants
    PROVE  /\ CommitInstant(a, now) \in Instants
           /\ CommitInstant(a, now) >= accounting_wall
           /\ CommitInstant(a, now) >= attempts[a].admitted_at
<1>1. attempts[a].admitted_at \in Nat /\ attempts[a].admitted_at <= MaxMillis
  BY AdmissionInstants
<1>2. QED BY <1>1, LimitsAssumption DEF TypeOK, CommitInstant, Later, Instants

\* Every live limiter decision is built from representable instants.
LEMMA LiveDecisionType ==
    ASSUME KernelInv, NEW now \in Instants
    PROVE  LiveBudget(AdmittedAt(Len(attempts)), now) \in BudgetRow
<1>1. now \in Nat
  BY LimitsAssumption DEF Instants
<1>2. QED BY <1>1, AdmittedAtProperties, LiveBudgetProperties DEF KernelInv, BudgetRow

\* The occasion that schedule() selects exists, or is the wake of the head.
LEMMA NextOccasionProperties ==
    ASSUME TypeOK, NEW observed \in Instants, NextOccasion(observed) # NoRow
    PROVE  \/ /\ OfferedOccasions(observed) # {}
              /\ NextOccasion(observed) \in OfferedOccasions(observed)
              /\ \A o \in OfferedOccasions(observed) : NextOccasion(observed) <= o
           \/ /\ OfferedOccasions(observed) = {}
              /\ WakeDue(observed)
              /\ NextOccasion(observed) = EnqueueId(WakeKey(head))
<1>1. OfferedOccasions(observed) \in SUBSET Nat
  BY DEF OfferedOccasions, OccasionIds
<1>2. CASE OfferedOccasions(observed) # {}
  BY <1>1, <1>2, MinIsMember DEF NextOccasion
<1>3. CASE OfferedOccasions(observed) = {}
  BY <1>3 DEF NextOccasion
<1>4. QED BY <1>2, <1>3

-----------------------------------------------------------------------------
(* KernelInv is inductive: one lemma per kind of step.                     *)

\* Store::create establishes the invariant.
LEMMA InitKernelInv == Init => KernelInv
<1>1. SUFFICES ASSUME NEW now \in Instants, Create(now) PROVE KernelInv
  BY DEF Init
<1> DEFINE budget == LiveBudget(<<>>, now)
           genesis == [parent |-> NoCommit, tick |-> 0, occasion |-> NoRow,
                       attempt |-> NoRow, committed_at |-> now, wake_at |-> NoTime,
                       plan |-> WakePlan(now, NoTime, budget), disposition |-> {}]
           created == [key |-> CreatedKey, kind |-> "created", payload |-> NoRow,
                       parent |-> Genesis, consumed |-> NoCommit]
<1>2. /\ tick = 0 /\ head = Genesis /\ wake = NoTime /\ accounting_wall = now
      /\ commits = <<genesis>> /\ occasions = <<created>> /\ attempts = <<>>
      /\ failures = {} /\ abstentions = {}
  BY <1>1 DEF Create
<1>3. budget \in BudgetRow
  <2>1. <<>> \in Seq(Nat) /\ Nondecreasing(<<>>) /\ now \in Nat
    BY LimitsAssumption DEF Nondecreasing, Instants
  <2>2. QED BY <2>1, LiveBudgetProperties DEF BudgetRow
<1>4. genesis \in CommitRow
  <2>1. WakePlan(now, NoTime, budget) \in PlanRow
    BY <1>3 DEF WakePlan, PlanRow, Granted
  <2> HIDE DEF budget
  <2>2. QED BY <2>1 DEF CommitRow, NoCommit, NoRow
<1>5. created \in OccasionRow
  BY DEF OccasionRow, CreatedKey, NoRow, NoCommit, Genesis
<1> HIDE DEF genesis, created
<1>6. TypeOK
  <2>1. commits \in Seq(CommitRow) /\ Len(commits) = 1
    BY <1>2, <1>4
  <2>2. occasions \in Seq(OccasionRow) /\ Len(occasions) = 1 /\ occasions[1] = created
    BY <1>2, <1>5
  <2>3. attempts \in Seq(AttemptRow) /\ Len(attempts) = 0
    BY <1>2
  <2>4. occasions[1].parent = 1 /\ occasions[1].consumed = NoCommit
    BY <2>2 DEF created, Genesis
  <2>5. QED BY <1>2, <2>1, <2>2, <2>3, <2>4
         DEF TypeOK, CommitIds, OccasionIds, AttemptIds, Genesis, NoTime
<1>7. AdmissionsInv
  BY <1>2 DEF AdmissionsInv, AttemptIds
<1>8. QED BY <1>6, <1>7 DEF KernelInv

\* A row that enqueue() inserts.
LEMMA EnqueuedProperties ==
    ASSUME TypeOK,
           NEW key \in {"user", "system", "wake"} \X (Keys \cup Nat),
           NEW kind \in {"created", "external", "scheduled"},
           NEW payload \in Payloads \cup Nat,
           occasions' = Enqueued(key, kind, payload)
    PROVE  /\ occasions' \in Seq(OccasionRow)
           /\ Len(occasions') >= Len(occasions)
           /\ Len(occasions') <= Len(occasions) + 1
           /\ \A o \in OccasionIds : occasions'[o] = occasions[o]
           /\ Len(occasions') > Len(occasions) =>
                 /\ occasions'[Len(occasions')].key = key
                 /\ occasions'[Len(occasions')].kind = kind
                 /\ occasions'[Len(occasions')].payload = payload
                 /\ occasions'[Len(occasions')].parent = head
                 /\ occasions'[Len(occasions')].consumed = NoCommit
           /\ EnqueueId(key) \in 1 .. Len(occasions')
           /\ Len(occasions') > Len(occasions) <=> KeyRows(key) = {}
           /\ KeyRows(key) = {} => EnqueueId(key) = Len(occasions')
<1> DEFINE row == [key |-> key, kind |-> kind, payload |-> payload,
                   parent |-> head, consumed |-> NoCommit]
<1>1. row \in OccasionRow
  BY DEF OccasionRow, NoCommit, TypeOK, CommitIds
<1>2. occasions \in Seq(OccasionRow)
  BY DEF TypeOK
<1>3. KeyRows(key) \in SUBSET Nat /\ KeyRows(key) \subseteq OccasionIds
  BY DEF KeyRows, OccasionIds
<1>4. CASE KeyRows(key) = {}
  <2>1. occasions' = Append(occasions, row)
    BY <1>4 DEF Enqueued
  <2>2. EnqueueId(key) = Len(occasions) + 1
    BY <1>4 DEF EnqueueId
  <2> HIDE DEF row
  <2>3. /\ occasions' \in Seq(OccasionRow)
        /\ Len(occasions') = Len(occasions) + 1
        /\ \A i \in 1 .. Len(occasions) : occasions'[i] = occasions[i]
        /\ occasions'[Len(occasions) + 1] = row
    BY <2>1, <1>1, <1>2, AppendRow
  <2>4. /\ row.key = key /\ row.kind = kind /\ row.payload = payload
        /\ row.parent = head /\ row.consumed = NoCommit
    BY DEF row
  <2>5. QED BY <2>2, <2>3, <2>4, <1>2, <1>4 DEF OccasionIds
<1>5. CASE KeyRows(key) # {}
  <2>1. occasions' = occasions
    BY <1>5 DEF Enqueued
  <2>2. EnqueueId(key) \in OccasionIds
    BY <1>3, <1>5, MinIsMember DEF EnqueueId
  <2>3. QED BY <2>1, <2>2, <1>2, <1>5 DEF OccasionIds
<1>6. QED BY <1>4, <1>5

\* The inbox part of TypeOK after an enqueue.
LEMMA EnqueuedType ==
    ASSUME TypeOK, UNCHANGED commits,
           occasions' \in Seq(OccasionRow),
           Len(occasions') >= Len(occasions),
           Len(occasions') <= Len(occasions) + 1,
           \A o \in OccasionIds : occasions'[o] = occasions[o],
           Len(occasions') > Len(occasions) =>
              /\ occasions'[Len(occasions')].parent = head
              /\ occasions'[Len(occasions')].consumed = NoCommit
    PROVE  \A o \in OccasionIds' :
              /\ occasions'[o].parent \in CommitIds'
              /\ occasions'[o].consumed \in CommitIds' \cup {NoCommit}
<1>1. SUFFICES ASSUME NEW o \in OccasionIds'
               PROVE  /\ occasions'[o].parent \in CommitIds
                      /\ occasions'[o].consumed \in CommitIds \cup {NoCommit}
  BY DEF CommitIds
<1>2. CASE o \in OccasionIds
  BY <1>2 DEF TypeOK
<1>3. CASE o \notin OccasionIds
  <2>1. o = Len(occasions') /\ Len(occasions') > Len(occasions)
    BY <1>3, RowTypes DEF OccasionIds
  <2>2. QED BY <2>1 DEF TypeOK
<1>4. QED BY <1>2, <1>3

\* Store::submit preserves the invariant, new key or repeated.
LEMMA SubmitKernelInv ==
    ASSUME KernelInv, NEW key \in Keys, NEW payload \in Payloads, Submit(key, payload)
    PROVE  KernelInv'
<1>1. TypeOK /\ AdmissionsInv
  BY DEF KernelInv
<1>2. /\ occasions' = Enqueued(UserKey(key), "external", payload)
      /\ UNCHANGED <<tick, head, wake, accounting_wall, attempts, commits,
                     failures, abstentions>>
  BY DEF Submit
<1>3. UserKey(key) \in {"user", "system", "wake"} \X (Keys \cup Nat)
  BY DEF UserKey
<1>4. /\ occasions' \in Seq(OccasionRow)
      /\ Len(occasions') >= Len(occasions)
      /\ Len(occasions') <= Len(occasions) + 1
      /\ \A o \in OccasionIds : occasions'[o] = occasions[o]
      /\ Len(occasions') > Len(occasions) =>
            /\ occasions'[Len(occasions')].parent = head
            /\ occasions'[Len(occasions')].consumed = NoCommit
  <2>1. "external" \in {"created", "external", "scheduled"} /\ payload \in Payloads \cup Nat
    OBVIOUS
  <2>2. QED BY <1>1, <1>2, <1>3, <2>1, EnqueuedProperties
<1>5. \A o \in OccasionIds' :
         /\ occasions'[o].parent \in CommitIds'
         /\ occasions'[o].consumed \in CommitIds' \cup {NoCommit}
  BY <1>1, <1>2, <1>4, EnqueuedType
<1>6. TypeOK'
  <2>1. \A a \in AttemptIds' :
           attempts'[a].parent \in CommitIds' /\ attempts'[a].occasion \in OccasionIds'
    BY <1>1, <1>2, <1>4, RowTypes DEF TypeOK, AttemptIds, CommitIds, OccasionIds
  <2>2. QED BY <1>1, <1>2, <1>4, <1>5, <2>1 DEF TypeOK, AttemptIds, CommitIds
<1>7. AdmissionsInv'
  BY <1>1, <1>2 DEF AdmissionsInv, AttemptIds
<1>8. QED BY <1>6, <1>7 DEF KernelInv

\* Abstentions and failures change statuses, receipts and the failure index.
LEMMA StatusStepKernelInv ==
    ASSUME KernelInv, OnlyStatusChanges,
           UNCHANGED <<tick, head, wake, accounting_wall, occasions, commits>>,
           failures' \subseteq AttemptIds, abstentions' \subseteq AttemptIds
    PROVE  KernelInv'
<1>1. TypeOK /\ AdmissionsInv
  BY DEF KernelInv
<1>2. AttemptIds' = AttemptIds /\ OccasionIds' = OccasionIds /\ CommitIds' = CommitIds
  BY DEF OnlyStatusChanges, AttemptIds, OccasionIds, CommitIds
<1>3. \A a \in AttemptIds' :
         attempts'[a].parent \in CommitIds' /\ attempts'[a].occasion \in OccasionIds'
  BY <1>1, <1>2 DEF TypeOK, OnlyStatusChanges
<1>4. TypeOK'
  BY <1>1, <1>2, <1>3 DEF TypeOK, OnlyStatusChanges
<1>5. AdmissionsInv'
  BY <1>1, <1>2 DEF AdmissionsInv, OnlyStatusChanges
<1>6. QED BY <1>4, <1>5 DEF KernelInv

\* What a ready schedule says of the admission it allows.
LEMMA ReadyProperties ==
    ASSUME NEW observed \in Instants, ScheduleStatus(observed) = "ready"
    PROVE  /\ NextOccasion(observed) # NoRow
           /\ ~(LiveDecision(observed).quota_at > Accounting(observed))
           /\ ~(LiveDecision(observed).floor_at > Accounting(observed))
BY DEF ScheduleStatus

\* The row of an admission is well formed.
LEMMA AdmissionProperties ==
    ASSUME KernelInv, NEW observed \in Instants, NEW maintenance \in MaintenanceModes,
           NEW o \in Nat \ {0}
    PROVE  LET row == Admission(o, observed, maintenance)
           IN  /\ row \in AttemptRow
               /\ row.parent = head /\ row.tick = tick /\ row.occasion = o
               /\ row.admitted_at = Accounting(observed)
               /\ row.observed_at = observed
               /\ row.budget = LiveDecision(observed)
               /\ row.status = "reserved"
<1>1. Accounting(observed) \in Instants
  BY AccountingProperties DEF KernelInv
<1>2. LiveDecision(observed) \in BudgetRow
  BY <1>1, LiveDecisionType DEF LiveDecision
<1>3. head \in Nat \ {0} /\ tick \in Nat
  BY DEF KernelInv, TypeOK, CommitIds
<1>4. maintenance \in BOOLEAN
  BY KernelAssumption
<1>5. "reserved" \in Statuses
  BY DEF Statuses
<1> DEFINE row == Admission(o, observed, maintenance)
<1>6. row = [parent |-> head, tick |-> tick, occasion |-> o,
             admitted_at |-> Accounting(observed), observed_at |-> observed,
             budget |-> LiveDecision(observed), maintenance |-> maintenance,
             status |-> "reserved"]
  BY DEF Admission
<1> HIDE DEF row
<1>7. row \in AttemptRow
  BY <1>1, <1>2, <1>3, <1>4, <1>5, <1>6 DEF AttemptRow
<1>8. QED BY <1>6, <1>7 DEF row

\* The occasion of an admission, before and after a due wake is materialised.
LEMMA AdmitProperties ==
    ASSUME KernelInv, NEW observed \in Instants, NEW maintenance \in MaintenanceModes,
           Admit(observed, maintenance)
    PROVE  LET o == NextOccasion(observed)
           IN  /\ o \in OccasionIds'
               /\ occasions' \in Seq(OccasionRow)
               /\ Len(occasions') >= Len(occasions)
               /\ Len(occasions') <= Len(occasions) + 1
               /\ \A p \in OccasionIds : occasions'[p] = occasions[p]
               /\ Len(occasions') > Len(occasions) =>
                     /\ WakeDue(observed)
                     /\ occasions'[Len(occasions')].key = WakeKey(head)
                     /\ occasions'[Len(occasions')].kind = "scheduled"
                     /\ occasions'[Len(occasions')].payload = wake
                     /\ occasions'[Len(occasions')].parent = head
                     /\ occasions'[Len(occasions')].consumed = NoCommit
               /\ attempts' = Append(attempts, Admission(o, observed, maintenance))
               /\ accounting_wall' = Accounting(observed)
               /\ UNCHANGED <<tick, head, wake, commits, failures, abstentions>>
<1>1. TypeOK
  BY DEF KernelInv
<1>2. NextOccasion(observed) # NoRow
  BY ReadyProperties DEF Admit
<1> DEFINE o == NextOccasion(observed)
<1>3. /\ attempts' = Append(attempts, Admission(o, observed, maintenance))
      /\ accounting_wall' = Accounting(observed)
      /\ UNCHANGED <<tick, head, wake, commits, failures, abstentions>>
  BY DEF Admit
<1>4. CASE OfferedOccasions(observed) # {}
  <2>1. occasions' = occasions
    BY <1>4 DEF Admit
  <2>2. o \in OccasionIds
    BY <1>1, <1>2, <1>4, NextOccasionProperties DEF OfferedOccasions
  <2>3. Len(occasions) \in Nat /\ occasions \in Seq(OccasionRow)
    BY <1>1 DEF TypeOK
  <2>4. o \in OccasionIds'
    BY <2>1, <2>2 DEF OccasionIds
  <2> HIDE DEF o
  <2>5. QED BY <2>1, <2>3, <2>4, <1>3 DEF o
<1>5. CASE OfferedOccasions(observed) = {}
  <2>1. occasions' = Enqueued(WakeKey(head), "scheduled", wake)
    BY <1>5 DEF Admit
  <2>2. WakeDue(observed) /\ o = EnqueueId(WakeKey(head))
    BY <1>1, <1>2, <1>5, NextOccasionProperties
  <2>3. wake \in Payloads \cup Nat
    BY <1>1, <2>2, LimitsAssumption DEF TypeOK, WakeDue, Instants, NoTime
  <2>4. WakeKey(head) \in {"user", "system", "wake"} \X (Keys \cup Nat)
    BY <1>1 DEF WakeKey, TypeOK, CommitIds
  <2>5. "scheduled" \in {"created", "external", "scheduled"}
    OBVIOUS
  <2> HIDE DEF o
  <2>6. /\ occasions' \in Seq(OccasionRow)
        /\ Len(occasions') >= Len(occasions)
        /\ Len(occasions') <= Len(occasions) + 1
        /\ \A p \in OccasionIds : occasions'[p] = occasions[p]
        /\ Len(occasions') > Len(occasions) =>
              /\ occasions'[Len(occasions')].key = WakeKey(head)
              /\ occasions'[Len(occasions')].kind = "scheduled"
              /\ occasions'[Len(occasions')].payload = wake
              /\ occasions'[Len(occasions')].parent = head
              /\ occasions'[Len(occasions')].consumed = NoCommit
        /\ EnqueueId(WakeKey(head)) \in 1 .. Len(occasions')
    BY <1>1, <2>1, <2>3, <2>4, <2>5, EnqueuedProperties
  <2>7. o \in OccasionIds'
    BY <2>2, <2>6 DEF OccasionIds
  <2>8. QED BY <2>2, <2>6, <2>7, <1>3 DEF o
<1>6. QED BY <1>4, <1>5

\* Store::admit preserves the invariant: the new admission respects the limiter.
LEMMA AdmitKernelInv ==
    ASSUME KernelInv, NEW observed \in Instants, NEW maintenance \in MaintenanceModes,
           Admit(observed, maintenance)
    PROVE  KernelInv'
<1>1. TypeOK /\ AdmissionsInv
  BY DEF KernelInv
<1> DEFINE o == NextOccasion(observed)
           row == Admission(o, observed, maintenance)
<1>2. /\ o \in OccasionIds'
      /\ occasions' \in Seq(OccasionRow)
      /\ Len(occasions') >= Len(occasions)
      /\ Len(occasions') <= Len(occasions) + 1
      /\ \A p \in OccasionIds : occasions'[p] = occasions[p]
      /\ Len(occasions') > Len(occasions) =>
            /\ occasions'[Len(occasions')].parent = head
            /\ occasions'[Len(occasions')].consumed = NoCommit
      /\ attempts' = Append(attempts, row)
      /\ accounting_wall' = Accounting(observed)
      /\ UNCHANGED <<tick, head, wake, commits, failures, abstentions>>
  BY AdmitProperties
<1>3. o \in Nat \ {0}
  BY <1>2 DEF OccasionIds
<1>4. /\ row \in AttemptRow /\ row.parent = head /\ row.occasion = o
      /\ row.admitted_at = Accounting(observed)
  BY <1>3, AdmissionProperties
<1>5. /\ Accounting(observed) \in Instants
      /\ Accounting(observed) >= accounting_wall
  BY <1>1, AccountingProperties
<1> HIDE DEF o, row
<1>6. /\ attempts' \in Seq(AttemptRow)
      /\ Len(attempts') = Len(attempts) + 1
      /\ \A i \in AttemptIds : attempts'[i] = attempts[i]
      /\ attempts'[Len(attempts) + 1] = row
  BY <1>1, <1>2, <1>4, AppendRow DEF TypeOK, AttemptIds
<1>7. \A p \in OccasionIds' :
         /\ occasions'[p].parent \in CommitIds'
         /\ occasions'[p].consumed \in CommitIds' \cup {NoCommit}
  BY <1>1, <1>2, EnqueuedType
<1>8. AttemptIds' = AttemptIds \cup {Len(attempts) + 1}
  BY <1>1, <1>6, RowTypes DEF AttemptIds
<1>9. CommitIds' = CommitIds /\ OccasionIds \subseteq OccasionIds'
  BY <1>1, <1>2, RowTypes DEF CommitIds, OccasionIds
<1>10. \A a \in AttemptIds' :
          attempts'[a].parent \in CommitIds' /\ attempts'[a].occasion \in OccasionIds'
  <2>1. ASSUME NEW a \in AttemptIds
        PROVE  attempts'[a].parent \in CommitIds' /\ attempts'[a].occasion \in OccasionIds'
    BY <1>1, <1>6, <1>9 DEF TypeOK
  <2>2. row.parent \in CommitIds' /\ row.occasion \in OccasionIds'
    BY <1>1, <1>2, <1>4, <1>9 DEF TypeOK
  <2>3. QED BY <1>6, <1>8, <2>1, <2>2
<1>11. TypeOK'
  BY <1>1, <1>2, <1>5, <1>6, <1>7, <1>8, <1>9, <1>10 DEF TypeOK
<1>12. AdmissionsInv'
  <2>1. \A a \in AttemptIds : attempts[a].admitted_at \in Int
    BY <1>1, AdmissionInstants
  <2>2. accounting_wall \in Int /\ Accounting(observed) \in Int
    BY <1>1, <1>5, LimitsAssumption DEF TypeOK, Instants
  <2>4. \A a \in AttemptIds : attempts[a].admitted_at <= row.admitted_at
    BY <1>1, <1>4, <1>5, <2>1, <2>2 DEF AdmissionsInv
  <2>3. ASSUME NEW a \in AttemptIds' PROVE attempts'[a].admitted_at <= accounting_wall'
    <3>1. accounting_wall' = row.admitted_at /\ row.admitted_at \in Int
      BY <1>2, <1>4, <2>2
    <3>2. CASE a \in AttemptIds
      BY <1>6, <2>4, <3>1, <3>2
    <3>3. CASE a \notin AttemptIds
      BY <1>6, <1>8, <3>1, <3>3
    <3>4. QED BY <3>2, <3>3
  <2>5. ASSUME NEW i \in AttemptIds', NEW j \in AttemptIds', i <= j
        PROVE  attempts'[i].admitted_at <= attempts'[j].admitted_at
    <3>1. CASE j \in AttemptIds
      <4>1. i \in AttemptIds
        BY <1>8, <2>5, <3>1, <1>1, RowTypes DEF AttemptIds
      <4>2. QED BY <1>1, <1>6, <2>5, <3>1, <4>1 DEF AdmissionsInv
    <3>2. CASE j \notin AttemptIds
      <4>1. attempts'[j] = row
        BY <1>6, <1>8, <3>2
      <4>2. CASE i \in AttemptIds
        BY <1>6, <2>4, <4>1, <4>2
      <4>3. CASE i \notin AttemptIds
        BY <1>4, <1>6, <1>8, <2>2, <4>1, <4>3
      <4>4. QED BY <4>2, <4>3
    <3>3. QED BY <3>1, <3>2
  <2>6. QED BY <2>3, <2>5 DEF AdmissionsInv
<1>13. QED BY <1>11, <1>12 DEF KernelInv

\* A wake request is a delay or absent; the plan made for it is well formed
\* when none of its sums overflows.
LEMMA CommitPlanProperties ==
    ASSUME KernelInv, NEW a \in AttemptIds, NEW now \in Instants,
           NEW request \in Nat \cup {NoTime},
           Representable(CommitPlan(a, now, request))
    PROVE  LET plan == CommitPlan(a, now, request)
           IN  /\ plan \in PlanRow
               /\ plan.granted_at \in Instants \cup {NoTime}
<1> DEFINE at == CommitInstant(a, now)
           b == LiveBudget(AdmittedAt(Len(attempts)), at)
           g == Granted(at, request, b)
<1>1. at \in Instants
  BY CommitInstantProperties DEF KernelInv
<1>2. b \in BudgetRow
  BY <1>1, LiveDecisionType
<1>3. CommitPlan(a, now, request) =
         [decided_at |-> at, requested_after |-> request, granted_at |-> g, budget |-> b]
  BY DEF CommitPlan, WakePlan
<1>4. b.eligible_at \in Nat
  <2> HIDE DEF b
  <2> QED BY <1>2 DEF BudgetRow
<1> HIDE DEF b, at
<1>5. request # NoTime => g \in Nat
  BY <1>1, <1>4, LimitsAssumption DEF Granted, Later, Instants
<1>6. request = NoTime => g = NoTime
  BY DEF Granted
<1> HIDE DEF g
<1>7. request # NoTime => g <= MaxMillis
  BY <1>3 DEF Representable
<1>8. g \in Instants \cup {NoTime}
  BY <1>5, <1>6, <1>7, LimitsAssumption DEF Instants
<1>9. QED BY <1>1, <1>2, <1>3, <1>8 DEF PlanRow

\* The wake a disposition requests is an instant or none.
LEMMA SettlementRequestType ==
    ASSUME TypeOK, NEW a \in AttemptIds, NEW now \in Instants
    PROVE  SettlementRequest(a, now) \in Nat \cup {NoTime}
<1>1. CommitInstant(a, now) \in Int
  BY CommitInstantProperties, LimitsAssumption DEF Instants
<1>2. wake \in Int
  BY LimitsAssumption DEF TypeOK, Instants, NoTime
<1>3. QED BY <1>1, <1>2 DEF SettlementRequest, Later

\* The occasion row that a commit consumes.
LEMMA ConsumedUpdate ==
    ASSUME NEW row \in OccasionRow, NEW c \in Nat
    PROVE  /\ [row EXCEPT !.consumed = c] \in OccasionRow
           /\ [row EXCEPT !.consumed = c].key = row.key
           /\ [row EXCEPT !.consumed = c].kind = row.kind
           /\ [row EXCEPT !.consumed = c].payload = row.payload
           /\ [row EXCEPT !.consumed = c].parent = row.parent
           /\ [row EXCEPT !.consumed = c].consumed = c
BY DEF OccasionRow

\* The effect of commit_locked, field by field.
LEMMA CommitLockedProperties ==
    ASSUME KernelInv, NEW a \in AttemptIds, NEW now \in Instants,
           NEW request \in Nat \cup {NoTime}, NEW disposition \in SUBSET Nat,
           CommitLocked(a, now, request, disposition)
    PROVE  LET o == attempts[a].occasion
               id == Len(commits) + 1
           IN  /\ Committable(a)
               /\ o \in OccasionIds
               /\ commits' \in Seq(CommitRow)
               /\ Len(commits') = id
               /\ \A c \in CommitIds : commits'[c] = commits[c]
               /\ commits'[id].parent = head
               /\ commits'[id].tick = tick + 1
               /\ commits'[id].occasion = o
               /\ commits'[id].attempt = a
               /\ commits'[id].committed_at = CommitInstant(a, now)
               /\ commits'[id].wake_at = wake'
               /\ commits'[id].disposition = disposition
               /\ commits'[id].plan = CommitPlan(a, now, request)
               /\ wake' = CommitPlan(a, now, request).granted_at
               /\ tick' = tick + 1 /\ head' = id
               /\ wake' \in Instants \cup {NoTime}
               /\ accounting_wall' = CommitInstant(a, now)
               /\ occasions' \in Seq(OccasionRow)
               /\ Len(occasions') = Len(occasions)
               /\ \A p \in OccasionIds :
                     /\ occasions'[p].key = occasions[p].key
                     /\ occasions'[p].kind = occasions[p].kind
                     /\ occasions'[p].payload = occasions[p].payload
                     /\ occasions'[p].parent = occasions[p].parent
                     /\ occasions'[p].consumed = IF p = o THEN id ELSE occasions[p].consumed
               /\ attempts' = Settled(a)
<1> DEFINE o == attempts[a].occasion
           id == Len(commits) + 1
           plan == CommitPlan(a, now, request)
           row == [parent |-> head, tick |-> tick + 1, occasion |-> o, attempt |-> a,
                   committed_at |-> CommitInstant(a, now), wake_at |-> plan.granted_at,
                   plan |-> plan, disposition |-> disposition]
<1>1. TypeOK
  BY DEF KernelInv
<1>2. /\ Committable(a) /\ Representable(plan)
      /\ commits' = Append(commits, row)
      /\ tick' = tick + 1 /\ head' = id /\ wake' = plan.granted_at
      /\ accounting_wall' = CommitInstant(a, now)
      /\ occasions' = [occasions EXCEPT ![o].consumed = id]
      /\ attempts' = Settled(a)
  BY DEF CommitLocked
<1>3. plan \in PlanRow /\ plan.granted_at \in Instants \cup {NoTime}
  BY <1>2, CommitPlanProperties
<1>4. o \in OccasionIds /\ o \in Nat /\ a \in Nat
  BY <1>1 DEF TypeOK, OccasionIds, AttemptIds
<1>5. CommitInstant(a, now) \in Instants
  BY <1>1, CommitInstantProperties
<1>6. head \in Nat /\ tick \in Nat /\ tick + 1 \in Nat /\ id \in Nat
  BY <1>1 DEF TypeOK, CommitIds
<1> HIDE DEF o, plan
<1>7. row \in CommitRow
  BY <1>3, <1>4, <1>5, <1>6 DEF CommitRow
<1>8. /\ row.parent = head /\ row.tick = tick + 1 /\ row.occasion = o /\ row.attempt = a
      /\ row.committed_at = CommitInstant(a, now) /\ row.wake_at = plan.granted_at
      /\ row.disposition = disposition /\ row.plan = plan
  OBVIOUS
<1> HIDE DEF row
<1>9. /\ commits' \in Seq(CommitRow) /\ Len(commits') = id
      /\ \A c \in CommitIds : commits'[c] = commits[c]
      /\ commits'[id] = row
  BY <1>1, <1>2, <1>7, AppendRow DEF TypeOK, CommitIds
<1> DEFINE used == [occasions[o] EXCEPT !.consumed = id]
<1>10. occasions[o] \in OccasionRow
  BY <1>1, <1>4, RowTypes
<1>11. /\ used \in OccasionRow /\ used.key = occasions[o].key
       /\ used.kind = occasions[o].kind
       /\ used.payload = occasions[o].payload /\ used.parent = occasions[o].parent
       /\ used.consumed = id
  BY <1>6, <1>10, ConsumedUpdate
<1>12. occasions' = [occasions EXCEPT ![o] = used]
  BY <1>2
<1> HIDE DEF used, id
<1>13. /\ occasions' \in Seq(OccasionRow) /\ Len(occasions') = Len(occasions)
       /\ \A p \in OccasionIds : occasions'[p] = IF p = o THEN used ELSE occasions[p]
  BY <1>1, <1>4, <1>11, <1>12, ExceptSeq DEF TypeOK, OccasionIds
<1>14. ASSUME NEW p \in OccasionIds
       PROVE  /\ occasions'[p].key = occasions[p].key
              /\ occasions'[p].kind = occasions[p].kind
              /\ occasions'[p].payload = occasions[p].payload
              /\ occasions'[p].parent = occasions[p].parent
              /\ occasions'[p].consumed = IF p = o THEN id ELSE occasions[p].consumed
  <2>1. CASE p = o
    BY <2>1, <1>11, <1>13
  <2>2. CASE p # o
    BY <2>2, <1>13
  <2>3. QED BY <2>1, <2>2
<1>15. QED
  BY <1>2, <1>3, <1>4, <1>8, <1>9, <1>13, <1>14 DEF o, id, plan

\* commit_locked preserves the invariant, for proposals and dispositions.
LEMMA CommitLockedKernelInv ==
    ASSUME KernelInv, NEW a \in AttemptIds, NEW now \in Instants,
           NEW request \in Nat \cup {NoTime}, NEW disposition \in SUBSET Nat,
           CommitLocked(a, now, request, disposition),
           failures' \subseteq AttemptIds, UNCHANGED abstentions
    PROVE  KernelInv'
<1>1. TypeOK /\ AdmissionsInv
  BY DEF KernelInv
<1> DEFINE o == attempts[a].occasion
           id == Len(commits) + 1
<1>2. /\ commits' \in Seq(CommitRow) /\ Len(commits') = id
      /\ tick' = tick + 1 /\ head' = id
      /\ wake' \in Instants \cup {NoTime}
      /\ accounting_wall' = CommitInstant(a, now)
      /\ occasions' \in Seq(OccasionRow) /\ Len(occasions') = Len(occasions)
      /\ \A p \in OccasionIds :
            /\ occasions'[p].parent = occasions[p].parent
            /\ occasions'[p].consumed = IF p = o THEN id ELSE occasions[p].consumed
      /\ attempts' = Settled(a)
  BY CommitLockedProperties
<1>3. OnlyStatusChanges
  BY <1>1, <1>2, SettledProperties
<1>4. /\ AttemptIds' = AttemptIds /\ OccasionIds' = OccasionIds
      /\ CommitIds' = CommitIds \cup {id}
  BY <1>1, <1>2, <1>3, RowTypes DEF OnlyStatusChanges, AttemptIds, OccasionIds, CommitIds
<1> HIDE DEF id
<1>5. \A p \in OccasionIds' :
         /\ occasions'[p].parent \in CommitIds'
         /\ occasions'[p].consumed \in CommitIds' \cup {NoCommit}
  BY <1>1, <1>2, <1>4 DEF TypeOK
<1>6. \A i \in AttemptIds' :
         attempts'[i].parent \in CommitIds' /\ attempts'[i].occasion \in OccasionIds'
  BY <1>1, <1>3, <1>4 DEF TypeOK, OnlyStatusChanges
<1>7. /\ CommitInstant(a, now) \in Instants
      /\ CommitInstant(a, now) >= accounting_wall
  BY <1>1, CommitInstantProperties
<1>8. TypeOK'
  <2>1. tick' \in Nat /\ head' \in CommitIds' /\ accounting_wall' \in Instants
    BY <1>1, <1>2, <1>4, <1>7 DEF TypeOK
  <2>2. QED BY <1>1, <1>2, <1>3, <1>4, <1>5, <1>6, <2>1 DEF TypeOK, OnlyStatusChanges
<1>9. AdmissionsInv'
  <2>1. \A i \in AttemptIds : attempts[i].admitted_at \in Int
    BY <1>1, AdmissionInstants
  <2>2. accounting_wall \in Int /\ accounting_wall' \in Int /\ accounting_wall' >= accounting_wall
    BY <1>1, <1>2, <1>7, LimitsAssumption DEF TypeOK, Instants
  <2>3. QED BY <1>1, <1>3, <1>4, <2>1, <2>2 DEF AdmissionsInv, OnlyStatusChanges
<1>10. QED BY <1>8, <1>9 DEF KernelInv

\* Every failure of an attempt names that attempt or rows counted before it.
LEMMA CountedFailuresType ==
    ASSUME TypeOK, NEW a \in AttemptIds
    PROVE  CountedFailures(a) \subseteq AttemptIds /\ CountedFailures(a) \in SUBSET Nat
<1>1. EarlierFailures(a) \subseteq failures
  BY DEF EarlierFailures
<1>2. CountedFailures(a) \subseteq AttemptIds
  BY <1>1 DEF CountedFailures, TypeOK
<1>3. AttemptIds \subseteq Nat
  BY DEF AttemptIds
<1>4. QED BY <1>2, <1>3

\* Every transaction of the store preserves the invariant.
LEMMA NextKernelInv == KernelInv /\ [Next]_vars => KernelInv'
<1> SUFFICES ASSUME KernelInv, [Next]_vars PROVE KernelInv'
  OBVIOUS
<1>1. TypeOK
  BY DEF KernelInv
<1>2. ASSUME NEW key \in Keys, NEW payload \in Payloads, Submit(key, payload)
      PROVE  KernelInv'
  BY <1>2, SubmitKernelInv
<1>3. ASSUME NEW observed \in Instants, NEW maintenance \in MaintenanceModes,
             Admit(observed, maintenance)
      PROVE  KernelInv'
  BY <1>3, AdmitKernelInv
<1>4. ASSUME NEW a \in AttemptIds, NEW now \in Instants,
             NEW request \in WakeRequests \cup {NoTime}, Commit(a, now, request)
      PROVE  KernelInv'
  <2>1. request \in Nat \cup {NoTime} /\ {} \in SUBSET Nat
    BY KernelAssumption
  <2>2. CommitLocked(a, now, request, {}) /\ UNCHANGED <<failures, abstentions>>
    BY <1>4 DEF Commit
  <2>3. failures' \subseteq AttemptIds
    BY <1>1, <2>2 DEF TypeOK
  <2>4. QED BY <2>1, <2>2, <2>3, CommitLockedKernelInv
<1>5. ASSUME NEW a \in AttemptIds, Abstain(a) PROVE KernelInv'
  <2>1. attempts' = WithStatus(a, "abstained") /\ abstentions' = abstentions \cup {a}
        /\ UNCHANGED <<tick, head, wake, accounting_wall, occasions, commits, failures>>
    BY <1>5 DEF Abstain
  <2>2. OnlyStatusChanges
    BY <1>1, <2>1, WithStatusProperties DEF Statuses
  <2>3. QED BY <1>1, <2>1, <2>2, StatusStepKernelInv DEF TypeOK
<1>6. ASSUME NEW a \in AttemptIds, attempts' = WithStatus(a, "failed"),
             failures' \subseteq failures \cup {a},
             UNCHANGED <<tick, head, wake, accounting_wall, occasions, commits, abstentions>>
      PROVE  KernelInv'
  <2>1. OnlyStatusChanges
    BY <1>1, <1>6, WithStatusProperties DEF Statuses
  <2>2. QED BY <1>1, <1>6, <2>1, StatusStepKernelInv DEF TypeOK
<1>7. ASSUME NEW a \in AttemptIds, FailTransient(a) PROVE KernelInv'
  BY <1>6, <1>7 DEF FailTransient
<1>8. ASSUME NEW a \in AttemptIds, RecordFailure(a) PROVE KernelInv'
  BY <1>6, <1>8 DEF RecordFailure
<1>9. ASSUME NEW a \in AttemptIds, NEW now \in Instants, DisposeOverflow(a, now)
      PROVE  KernelInv'
  BY <1>6, <1>9 DEF DisposeOverflow
<1>10. ASSUME NEW a \in AttemptIds, NEW now \in Instants, Dispose(a, now)
       PROVE  KernelInv'
  <2>1. /\ CommitLocked(a, now, SettlementRequest(a, now), CountedFailures(a))
        /\ failures' = failures \cup {a} /\ UNCHANGED abstentions
    BY <1>10 DEF Dispose
  <2>2. /\ SettlementRequest(a, now) \in Nat \cup {NoTime}
        /\ CountedFailures(a) \in SUBSET Nat
    BY <1>1, SettlementRequestType, CountedFailuresType
  <2>3. failures' \subseteq AttemptIds
    BY <1>1, <2>1 DEF TypeOK
  <2>4. QED BY <2>1, <2>2, <2>3, CommitLockedKernelInv
<1>11. ASSUME UNCHANGED vars PROVE KernelInv'
  BY <1>11 DEF KernelInv, TypeOK, AdmissionsInv, vars, AttemptIds, OccasionIds, CommitIds
<1>12. QED
  BY <1>2, <1>3, <1>4, <1>5, <1>7, <1>8, <1>9, <1>10, <1>11 DEF Next

\* Every row the store writes is well formed and refers to rows that exist, no
\* instant overflows, and admissions never go back in time.
THEOREM KernelTypeCorrect == Spec => []TypeOK
<1>1. Init => KernelInv
  BY InitKernelInv
<1>2. KernelInv /\ [Next]_vars => KernelInv'
  BY NextKernelInv
<1>3. KernelInv => TypeOK
  BY DEF KernelInv
<1>4. QED BY <1>1, <1>2, <1>3, PTL DEF Spec

-----------------------------------------------------------------------------
(* The rate limit.                                                         *)

\* Admission is the only operation that adds to the admission history, and none
\* rewrites it.
LEMMA AdmissionsAreKept ==
    ASSUME KernelInv, [Next]_vars,
           ~ \E observed \in Instants, maintenance \in MaintenanceModes :
                Admit(observed, maintenance)
    PROVE  /\ Len(attempts') = Len(attempts)
           /\ \A i \in AttemptIds : attempts'[i].admitted_at = attempts[i].admitted_at
<1>1. TypeOK
  BY DEF KernelInv
<1>2. ASSUME NEW a \in AttemptIds, NEW status \in Statuses, attempts' = WithStatus(a, status)
      PROVE  OnlyStatusChanges
  BY <1>1, <1>2, WithStatusProperties
<1>3. ASSUME NEW a \in AttemptIds, attempts' = Settled(a) PROVE OnlyStatusChanges
  BY <1>1, <1>3, SettledProperties
<1>4. "failed" \in Statuses /\ "abstained" \in Statuses
  BY DEF Statuses
<1>5. ASSUME OnlyStatusChanges
      PROVE  /\ Len(attempts') = Len(attempts)
             /\ \A i \in AttemptIds : attempts'[i].admitted_at = attempts[i].admitted_at
  BY <1>5 DEF OnlyStatusChanges
<1>6. CASE UNCHANGED attempts
  BY <1>6
<1>7. CASE \E a \in AttemptIds : \/ attempts' = WithStatus(a, "failed")
                                 \/ attempts' = WithStatus(a, "abstained")
                                 \/ attempts' = Settled(a)
  BY <1>2, <1>3, <1>4, <1>5, <1>7
<1>8. \/ UNCHANGED attempts
      \/ \E a \in AttemptIds : \/ attempts' = WithStatus(a, "failed")
                               \/ attempts' = WithStatus(a, "abstained")
                               \/ attempts' = Settled(a)
  <2>1. ASSUME NEW key \in Keys, NEW payload \in Payloads, Submit(key, payload)
        PROVE  UNCHANGED attempts
    BY <2>1 DEF Submit
  <2>2. ASSUME NEW a \in AttemptIds, NEW now \in Instants,
               NEW request \in WakeRequests \cup {NoTime}, Commit(a, now, request)
        PROVE  attempts' = Settled(a)
    BY <2>2 DEF Commit, CommitLocked
  <2>3. ASSUME NEW a \in AttemptIds, Abstain(a) PROVE attempts' = WithStatus(a, "abstained")
    BY <2>3 DEF Abstain
  <2>4. ASSUME NEW a \in AttemptIds, FailTransient(a) \/ RecordFailure(a)
        PROVE  attempts' = WithStatus(a, "failed")
    BY <2>4 DEF FailTransient, RecordFailure
  <2>5. ASSUME NEW a \in AttemptIds, NEW now \in Instants, Dispose(a, now)
        PROVE  attempts' = Settled(a)
    BY <2>5 DEF Dispose, CommitLocked
  <2>6. ASSUME NEW a \in AttemptIds, NEW now \in Instants, DisposeOverflow(a, now)
        PROVE  attempts' = WithStatus(a, "failed")
    BY <2>6 DEF DisposeOverflow
  <2>7. QED BY <2>1, <2>2, <2>3, <2>4, <2>5, <2>6 DEF Next, vars
<1>9. QED BY <1>6, <1>7, <1>8

\* An admission keeps MinWake behind the last one and a Period behind the
\* MaxAttempts-th from the end.
LEMMA AdmissionIsSpaced ==
    ASSUME KernelInv, NEW observed \in Instants, ScheduleStatus(observed) = "ready"
    PROVE  LET n == Len(attempts)
           IN  /\ n > 0 => attempts[n].admitted_at + MinWake <= Accounting(observed)
               /\ n >= MaxAttempts =>
                     attempts[n - MaxAttempts + 1].admitted_at + Period <= Accounting(observed)
<1> DEFINE n == Len(attempts)
           at == AdmittedAt(n)
           now == Accounting(observed)
<1>1. TypeOK /\ AdmissionsInv
  BY DEF KernelInv
<1>2. /\ at \in Seq(Nat) /\ Len(at) = n /\ Nondecreasing(at)
      /\ \A i \in AttemptIds : at[i] = attempts[i].admitted_at
  BY <1>1, AdmittedAtProperties
<1>3. now \in Nat /\ n \in Nat
  BY <1>1, AccountingProperties, RowTypes, LimitsAssumption DEF Instants
<1>4. ~(LiveBudget(at, now).quota_at > now) /\ ~(LiveBudget(at, now).floor_at > now)
  BY ReadyProperties DEF LiveDecision
<1>5. LiveBudget(at, now) \in [used : Nat, through : Nat, floor_at : Nat,
                               quota_at : Nat, eligible_at : Nat]
      /\ (Len(at) > 0 => LiveBudget(at, now).floor_at >= at[Len(at)] + MinWake)
  BY <1>2, <1>3, LiveBudgetProperties
<1> HIDE DEF now, at
<1>6. LiveBudget(at, now).quota_at \in Nat /\ LiveBudget(at, now).floor_at \in Nat
  BY <1>5
<1>7. LiveBudget(at, now).quota_at <= now /\ LiveBudget(at, now).floor_at <= now
  BY <1>3, <1>4, <1>6
<1>8. n >= MaxAttempts => at[n - MaxAttempts + 1] + Period <= now
  BY <1>2, <1>3, <1>7, ReadySpacing
<1>9. n > 0 => at[n] + MinWake <= now
  <2>1. SUFFICES ASSUME n > 0 PROVE at[n] + MinWake <= now
    OBVIOUS
  <2>2. n \in 1 .. Len(at)
    BY <1>2, <1>3, <2>1
  <2>3. at[n] \in Nat
    BY <1>2, <2>2
  <2>4. LiveBudget(at, now).floor_at >= at[n] + MinWake
    BY <1>2, <1>5, <2>1
  <2>5. QED BY <1>3, <1>6, <1>7, <2>3, <2>4, LimitsAssumption
<1>10. n > 0 => n \in AttemptIds
  BY <1>3 DEF AttemptIds
<1>11. n >= MaxAttempts => n - MaxAttempts + 1 \in AttemptIds
  BY <1>3, LimitsAssumption DEF AttemptIds
<1>12. QED BY <1>2, <1>8, <1>9, <1>10, <1>11 DEF now

\* Whatever workers, crashes and wall clocks do, two admissions of a subject are
\* MinWake apart and MaxAttempts + 1 of them span a Period.
THEOREM AdmissionsAreRateLimited == Spec => []RateLimit
<1>1. Init => RateLimit
  BY DEF Init, Create, RateLimit, AttemptIds
<1>2. ASSUME KernelInv, RateLimit, [Next]_vars PROVE RateLimit'
  <2>1. TypeOK /\ Len(attempts) \in Nat
    BY <1>2, RowTypes DEF KernelInv
  <2>2. CASE \E observed \in Instants, maintenance \in MaintenanceModes :
                Admit(observed, maintenance)
    <3>1. PICK observed \in Instants, maintenance \in MaintenanceModes :
                Admit(observed, maintenance)
      BY <2>2
    <3> DEFINE n == Len(attempts)
               o == NextOccasion(observed)
               row == Admission(o, observed, maintenance)
    <3>2. attempts' = Append(attempts, row) /\ o \in OccasionIds'
      BY <1>2, <3>1, AdmitProperties
    <3>3. o \in Nat \ {0}
      BY <3>2 DEF OccasionIds
    <3>4. row \in AttemptRow /\ row.admitted_at = Accounting(observed)
      BY <1>2, <3>3, AdmissionProperties
    <3>5. /\ n > 0 => attempts[n].admitted_at + MinWake <= Accounting(observed)
          /\ n >= MaxAttempts =>
                attempts[n - MaxAttempts + 1].admitted_at + Period <= Accounting(observed)
      BY <1>2, <3>1, AdmissionIsSpaced DEF Admit
    <3>6. Accounting(observed) \in Int
      BY <2>1, AccountingProperties, LimitsAssumption DEF Instants
    <3>7. \A i \in AttemptIds : attempts[i].admitted_at \in Int
      BY <2>1, AdmissionInstants
    <3> HIDE DEF row, o
    <3>8. /\ Len(attempts') = n + 1
          /\ \A i \in 1 .. n : attempts'[i] = attempts[i]
          /\ attempts'[n + 1] = row
      BY <2>1, <3>2, <3>4, AppendRow DEF TypeOK
    <3>9. ASSUME NEW i \in AttemptIds'
          PROVE  /\ i > 1 => attempts'[i].admitted_at >= attempts'[i - 1].admitted_at + MinWake
                 /\ i > MaxAttempts =>
                       attempts'[i].admitted_at >= attempts'[i - MaxAttempts].admitted_at + Period
      <4>1. CASE i \in AttemptIds
        <5>1. i \in 1 .. n /\ attempts'[i] = attempts[i]
          BY <3>8, <4>1 DEF AttemptIds
        <5>2. i > 1 => attempts'[i - 1] = attempts[i - 1]
          BY <2>1, <3>8, <5>1
        <5>3. i > MaxAttempts => attempts'[i - MaxAttempts] = attempts[i - MaxAttempts]
          BY <2>1, <3>8, <5>1, LimitsAssumption
        <5>4. QED BY <1>2, <4>1, <5>1, <5>2, <5>3 DEF RateLimit
      <4>2. CASE i \notin AttemptIds
        <5>1. i = n + 1
          BY <2>1, <3>8, <4>2 DEF AttemptIds
        <5>2. attempts'[i].admitted_at = Accounting(observed)
          BY <3>4, <3>8, <5>1
        <5>3. i > 1 => n > 0 /\ i - 1 = n /\ attempts'[n] = attempts[n] /\ n \in AttemptIds
          BY <2>1, <3>8, <5>1 DEF AttemptIds
        <5>4. i > MaxAttempts =>
                 /\ n >= MaxAttempts /\ i - MaxAttempts = n - MaxAttempts + 1
                 /\ n - MaxAttempts + 1 \in AttemptIds
          BY <2>1, <5>1, LimitsAssumption DEF AttemptIds
        <5>5. i > MaxAttempts =>
                 attempts'[i - MaxAttempts] = attempts[n - MaxAttempts + 1]
          BY <3>8, <5>4 DEF AttemptIds
        <5>6. i > 1 => attempts'[i].admitted_at >= attempts'[i - 1].admitted_at + MinWake
          BY <3>5, <3>6, <3>7, <5>2, <5>3, LimitsAssumption
        <5>7. i > MaxAttempts =>
                 attempts'[i].admitted_at >= attempts'[i - MaxAttempts].admitted_at + Period
          BY <3>5, <3>6, <3>7, <5>2, <5>4, <5>5, LimitsAssumption
        <5>8. QED BY <5>6, <5>7
      <4>3. QED BY <4>1, <4>2
    <3>10. QED BY <3>9 DEF RateLimit
  <2>3. CASE ~ \E observed \in Instants, maintenance \in MaintenanceModes :
                  Admit(observed, maintenance)
    <3>1. /\ Len(attempts') = Len(attempts)
          /\ \A i \in AttemptIds : attempts'[i].admitted_at = attempts[i].admitted_at
      BY <1>2, <2>3, AdmissionsAreKept
    <3>2. AttemptIds' = AttemptIds
      BY <3>1 DEF AttemptIds
    <3>3. ASSUME NEW i \in AttemptIds
          PROVE  /\ i > 1 => i - 1 \in AttemptIds
                 /\ i > MaxAttempts => i - MaxAttempts \in AttemptIds
      BY <2>1, LimitsAssumption DEF AttemptIds
    <3>4. QED BY <1>2, <3>1, <3>2, <3>3 DEF RateLimit
  <2>4. QED BY <2>2, <2>3
<1>3. QED BY <1>1, <1>2, InitKernelInv, NextKernelInv, PTL DEF Spec

-----------------------------------------------------------------------------
(* The instants that schedule() publishes.                                 *)

\* There is something to admit when an occasion is offered or the wake is due.
LEMMA NextOccasionExists ==
    ASSUME TypeOK, NEW observed \in Instants
    PROVE  NextOccasion(observed) # NoRow
              <=> OfferedOccasions(observed) # {} \/ WakeDue(observed)
<1>1. OfferedOccasions(observed) \in SUBSET Nat /\ OfferedOccasions(observed) \subseteq OccasionIds
  BY DEF OfferedOccasions, OccasionIds
<1>2. ASSUME OfferedOccasions(observed) # {} PROVE NextOccasion(observed) # NoRow
  BY <1>1, <1>2, MinIsMember DEF NextOccasion, OccasionIds, NoRow
<1>3. EnqueueId(WakeKey(head)) # NoRow
  <2>1. KeyRows(WakeKey(head)) \in SUBSET Nat /\ KeyRows(WakeKey(head)) \subseteq OccasionIds
    BY DEF KeyRows, OccasionIds
  <2>2. CASE KeyRows(WakeKey(head)) # {}
    BY <2>1, <2>2, MinIsMember DEF EnqueueId, OccasionIds, NoRow
  <2>3. CASE KeyRows(WakeKey(head)) = {}
    BY <2>3, RowTypes DEF EnqueueId, NoRow
  <2>4. QED BY <2>2, <2>3
<1>4. ASSUME OfferedOccasions(observed) = {}
      PROVE  NextOccasion(observed) # NoRow <=> WakeDue(observed)
  BY <1>3, <1>4 DEF NextOccasion
<1>5. QED BY <1>2, <1>4

\* The schedule is ready when there is something to admit and the limiter's
\* decision is due at the accounting clock.
LEMMA ReadyIsEligible ==
    ASSUME KernelInv, NEW observed \in Instants
    PROVE  /\ LiveDecision(observed).eligible_at \in Nat
           /\ LiveDecision(observed).eligible_at >= Accounting(observed)
           /\ ScheduleStatus(observed) = "ready"
                 <=> /\ NextOccasion(observed) # NoRow
                     /\ LiveDecision(observed).eligible_at <= Accounting(observed)
<1> DEFINE b == LiveDecision(observed)
           now == Accounting(observed)
<1>1. now \in Nat
  BY AccountingProperties, LimitsAssumption DEF KernelInv, Instants
<1>2. /\ b \in BudgetRow
      /\ b.eligible_at >= b.floor_at /\ b.eligible_at >= b.quota_at
      /\ b.eligible_at \in {b.floor_at, b.quota_at}
      /\ b.floor_at >= now
  BY <1>1, AdmittedAtProperties, LiveBudgetProperties DEF KernelInv, BudgetRow, LiveDecision
<1>3. ScheduleStatus(observed) =
         IF NextOccasion(observed) = NoRow
         THEN IF wake = NoTime THEN "waiting_external" ELSE "sleeping"
         ELSE IF b.quota_at > now THEN "budget_exhausted"
         ELSE IF b.floor_at > now THEN "minimum_interval"
         ELSE "ready"
  BY DEF ScheduleStatus
<1> HIDE DEF b, now
<1>4. b.eligible_at \in Nat /\ b.floor_at \in Nat /\ b.quota_at \in Nat
  BY <1>2 DEF BudgetRow
<1>5. b.eligible_at >= now
  BY <1>1, <1>2, <1>4
<1>6. ScheduleStatus(observed) = "ready"
         <=> NextOccasion(observed) # NoRow /\ b.eligible_at <= now
  BY <1>1, <1>2, <1>3, <1>4
<1>7. QED BY <1>4, <1>5, <1>6 DEF b, now

\* The instant schedule() announces is ready, and no poll before it is.
LEMMA AnnouncedInstantIsExact ==
    ASSUME KernelInv, NEW observed \in Instants,
           ScheduleStatus(observed) # "waiting_external",
           EligibleAt(observed) <= MaxMillis
    PROVE  /\ ScheduleStatus(EligibleAt(observed)) = "ready"
           /\ \A t \in observed .. EligibleAt(observed) :
                 Accounting(t) < EligibleAt(observed) => ScheduleStatus(t) # "ready"
<1> DEFINE d == LiveDecision(observed).eligible_at
           e == EligibleAt(observed)
           at == AdmittedAt(Len(attempts))
<1>1. TypeOK /\ AdmissionsInv
  BY DEF KernelInv
<1>2. /\ d \in Nat /\ d >= Accounting(observed)
      /\ Accounting(observed) \in Nat /\ Accounting(observed) >= observed
      /\ Accounting(observed) >= accounting_wall
      /\ observed \in Nat /\ accounting_wall \in Nat
  BY <1>1, ReadyIsEligible, AccountingProperties, LimitsAssumption DEF Instants, TypeOK
<1>3. wake \in Int
  BY <1>1, LimitsAssumption DEF TypeOK, Instants, NoTime
<1>4. NextOccasion(observed) = NoRow => wake # NoTime
  BY DEF ScheduleStatus
<1>5. e = IF NextOccasion(observed) = NoRow THEN Later(wake, d) ELSE d
  BY DEF EligibleAt
<1>6. at \in Seq(Nat) /\ Nondecreasing(at)
  BY <1>1, AdmittedAtProperties
<1> HIDE DEF d, e, at
<1>7. e \in Nat /\ e >= d /\ e \in Instants /\ observed <= e
  <2>1. e \in Nat /\ e >= d
    BY <1>2, <1>3, <1>5 DEF Later
  <2>2. e <= MaxMillis
    BY DEF e
  <2>3. QED BY <1>2, <2>1, <2>2, LimitsAssumption DEF Instants
<1>8. \* The decision at any later accounting instant agrees with the announced one.
      ASSUME NEW t \in Instants, observed <= t
      PROVE  LiveDecision(t).eligible_at <= Accounting(t) <=> d <= Accounting(t)
  <2>1. Accounting(t) \in Nat /\ Accounting(observed) <= Accounting(t)
    BY <1>1, <1>2, <1>8, LimitsAssumption DEF Accounting, Later, Instants
  <2>2. QED BY <1>2, <1>6, <2>1, EligibilityIsStable DEF LiveDecision, d, at
<1>9. Accounting(e) = e
  BY <1>2, <1>7 DEF Accounting, Later
<1>10. NextOccasion(e) # NoRow
  <2>1. CASE NextOccasion(observed) # NoRow
    <3>1. OfferedOccasions(observed) # {} \/ WakeDue(observed)
      BY <1>1, <2>1, NextOccasionExists
    <3>2. CASE WakeDue(observed)
      <4>1. WakeDue(e)
        BY <1>2, <1>3, <1>7, <3>2 DEF WakeDue
      <4>2. QED BY <1>1, <1>7, <4>1, NextOccasionExists
    <3>3. CASE OfferedOccasions(observed) # {}
      <4>1. PICK o \in OccasionIds : Offered(o, observed)
        BY <3>3 DEF OfferedOccasions
      <4>2. Offered(o, e)
        BY <1>2, <1>3, <1>7, <4>1, LimitsAssumption DEF Offered
      <4>3. OfferedOccasions(e) # {}
        BY <4>2 DEF OfferedOccasions
      <4>4. QED BY <1>1, <1>7, <4>3, NextOccasionExists
    <3>4. QED BY <3>1, <3>2, <3>3
  <2>2. CASE NextOccasion(observed) = NoRow
    <3>1. WakeDue(e)
      BY <1>2, <1>3, <1>4, <1>5, <2>2 DEF WakeDue, Later
    <3>2. QED BY <1>1, <1>7, <3>1, NextOccasionExists
  <2>3. QED BY <2>1, <2>2
<1>11. ScheduleStatus(e) = "ready"
  <2>1. LiveDecision(e).eligible_at <= Accounting(e)
    BY <1>2, <1>7, <1>8, <1>9
  <2>2. QED BY <1>7, <1>10, <2>1, ReadyIsEligible
<1>12. ASSUME NEW t \in observed .. e, Accounting(t) < e PROVE ScheduleStatus(t) # "ready"
  <2>1. t \in Instants /\ t \in Nat /\ observed <= t
    BY <1>2, <1>7, <1>12, LimitsAssumption DEF Instants
  <2>2. Accounting(t) \in Nat /\ t <= Accounting(t)
    BY <1>1, <2>1, AccountingProperties, LimitsAssumption DEF Instants
  <2>3. CASE d > Accounting(t)
    <3>1. ~(LiveDecision(t).eligible_at <= Accounting(t))
      BY <1>2, <1>8, <2>1, <2>2, <2>3
    <3>2. QED BY <2>1, <3>1, ReadyIsEligible
  <2>4. CASE ~(d > Accounting(t))
    <3>1. NextOccasion(observed) = NoRow /\ e = wake
      BY <1>2, <1>3, <1>5, <1>12, <2>2, <2>4 DEF Later
    <3>2. t < wake
      BY <1>3, <1>7, <1>12, <2>1, <2>2, <3>1
    <3>3. OfferedOccasions(observed) = {}
      BY <1>1, <3>1, NextOccasionExists
    <3>4. ~WakeDue(t)
      BY <1>3, <2>1, <3>2 DEF WakeDue
    <3>5. ASSUME NEW o \in OccasionIds, Offered(o, t) PROVE FALSE
      <4>1. CASE occasions[o].kind = "scheduled"
        BY <1>3, <1>4, <2>1, <3>1, <3>2, <3>5, <4>1 DEF Offered
      <4>2. CASE occasions[o].kind # "scheduled"
        BY <3>3, <3>5, <4>2 DEF Offered, OfferedOccasions
      <4>3. QED BY <4>1, <4>2
    <3>6. NextOccasion(t) = NoRow
      BY <1>1, <2>1, <3>4, <3>5, NextOccasionExists DEF OfferedOccasions
    <3>7. QED BY <2>1, <3>6, ReadyIsEligible
  <2>5. QED BY <2>3, <2>4
<1>13. QED BY <1>11, <1>12 DEF e

\* What schedule() publishes as eligible_at is exact in every state: a host that
\* sleeps until then neither misses an earlier admission nor wakes in vain.
THEOREM EligibilityIsPublished == Spec => []EligibilityIsExact
<1>1. KernelInv => EligibilityIsExact
  BY AnnouncedInstantIsExact DEF EligibilityIsExact
<1>2. QED BY <1>1, InitKernelInv, NextKernelInv, PTL DEF Spec

-----------------------------------------------------------------------------
(* The inductive invariant.  None of its parts is inductive alone: what a  *)
(* commit may assume of its attempt was fixed when the attempt was         *)
(* admitted, and what an admission may assume of a queued wake when the    *)
(* wake's row was written.                                                 *)

\* The commits are one chain in the order of insertion, the head its end, and
\* each transition settled the occasion of an attempt admitted at its parent.
ChainInv ==
    /\ head = Len(commits)
    /\ tick = head - 1
    /\ wake = commits[head].wake_at
    /\ commits[Genesis].parent = NoCommit
    /\ commits[Genesis].wake_at = NoTime
    /\ commits[Genesis].attempt = NoRow
    /\ \A c \in CommitIds : commits[c].tick = c - 1
    /\ \A c \in CommitIds \ {Genesis} :
          /\ commits[c].parent = c - 1
          /\ commits[c].attempt \in AttemptIds
          /\ attempts[commits[c].attempt].parent = c - 1
          /\ attempts[commits[c].attempt].status = "committed"
          /\ commits[c].occasion = attempts[commits[c].attempt].occasion
          /\ occasions[commits[c].occasion].consumed = c

\* A key names one row; a consumed row names the later commit that settled it;
\* a wake's row belongs to the commit that armed it, and is consumed only by
\* that commit's successor.
InboxInv ==
    \A o \in OccasionIds :
        /\ \A p \in OccasionIds : occasions[o].key = occasions[p].key => o = p
        /\ occasions[o].consumed # NoCommit =>
              /\ occasions[o].parent < occasions[o].consumed
              /\ commits[occasions[o].consumed].occasion = o
        /\ Message(o) => occasions[o].key[1] # "wake"
        /\ ~Message(o) =>
              /\ occasions[o].key = WakeKey(occasions[o].parent)
              /\ occasions[o].payload = commits[occasions[o].parent].wake_at
              /\ occasions[o].payload # NoTime
              /\ occasions[o].consumed # NoCommit =>
                    occasions[o].consumed = occasions[o].parent + 1

\* An attempt on a wake was admitted at the head that armed it, by a clock that
\* had reached it; an attempt on a message when every older one was settled.
AttemptsInv ==
    \A a \in AttemptIds :
        LET o == attempts[a].occasion
        IN  /\ attempts[a].tick = attempts[a].parent - 1
            /\ ~Message(o) => /\ occasions[o].parent = attempts[a].parent
                              /\ attempts[a].observed_at >= occasions[o].payload
            /\ Message(o) => \A p \in OccasionIds :
                                p < o /\ Message(p) => occasions[p].consumed # NoCommit
            /\ attempts[a].status = "committed" => occasions[o].consumed # NoCommit

StoreInv ==
    /\ KernelInv
    /\ ChainInv
    /\ InboxInv
    /\ AttemptsInv
    /\ InboxOrder
    /\ ReservationsAreLive

\* A wake is at most MaxWake ahead of the accounting clock, unless the quota
\* pushed it further; then no attempt is admitted at this head before the
\* quota allows it.
WakeBound ==
    LET source == Len(attempts) - MaxAttempts + 1
    IN  wake # NoTime =>
            \/ wake <= accounting_wall + MaxWake
            \/ /\ source > 0
               /\ wake <= attempts[source].admitted_at + Period
               /\ \A a \in AttemptIds : attempts[a].parent # head

-----------------------------------------------------------------------------
(* What each kind of transaction does to the tables.                       *)

\* enqueue() inserted one row.
InboxGrows(key, kind, payload) ==
    LET n == Len(occasions) + 1
    IN  /\ KeyRows(key) = {}
        /\ OccasionIds' = OccasionIds \cup {n}
        /\ n \notin OccasionIds
        /\ \A o \in OccasionIds : occasions'[o] = occasions[o] /\ o < n
        /\ occasions'[n].key = key
        /\ occasions'[n].kind = kind
        /\ occasions'[n].payload = payload
        /\ occasions'[n].parent = head
        /\ occasions'[n].consumed = NoCommit

\* enqueue() finds the key, or inserts its row at the end of the inbox.
LEMMA EnqueueCases ==
    ASSUME TypeOK,
           NEW key \in {"user", "system", "wake"} \X (Keys \cup Nat),
           NEW kind \in {"created", "external", "scheduled"},
           NEW payload \in Payloads \cup Nat,
           occasions' = Enqueued(key, kind, payload)
    PROVE  \/ KeyRows(key) # {} /\ UNCHANGED occasions
           \/ /\ InboxGrows(key, kind, payload)
              /\ EnqueueId(key) = Len(occasions) + 1
<1>1. CASE KeyRows(key) # {}
  BY <1>1 DEF Enqueued
<1>2. CASE KeyRows(key) = {}
  <2>1. /\ Len(occasions') = Len(occasions) + 1
        /\ \A o \in OccasionIds : occasions'[o] = occasions[o]
        /\ occasions'[Len(occasions')].key = key
        /\ occasions'[Len(occasions')].kind = kind
        /\ occasions'[Len(occasions')].payload = payload
        /\ occasions'[Len(occasions')].parent = head
        /\ occasions'[Len(occasions')].consumed = NoCommit
        /\ EnqueueId(key) = Len(occasions')
    <3>1. /\ Len(occasions') > Len(occasions)
          /\ Len(occasions') <= Len(occasions) + 1
          /\ occasions' \in Seq(OccasionRow)
          /\ EnqueueId(key) = Len(occasions')
          /\ \A o \in OccasionIds : occasions'[o] = occasions[o]
          /\ occasions'[Len(occasions')].key = key
          /\ occasions'[Len(occasions')].kind = kind
          /\ occasions'[Len(occasions')].payload = payload
          /\ occasions'[Len(occasions')].parent = head
          /\ occasions'[Len(occasions')].consumed = NoCommit
      BY <1>2, EnqueuedProperties
    <3>2. Len(occasions') = Len(occasions) + 1
      BY <3>1, RowTypes
    <3>3. QED BY <3>1, <3>2
  <2>2. /\ OccasionIds' = OccasionIds \cup {Len(occasions) + 1}
        /\ Len(occasions) + 1 \notin OccasionIds
        /\ \A o \in OccasionIds : o < Len(occasions) + 1
    BY <2>1, RowTypes DEF OccasionIds
  <2>3. QED BY <1>2, <2>1, <2>2 DEF InboxGrows
<1>3. QED BY <1>1, <1>2

\* Store::submit changes nothing, or inserts an external message.
LEMMA SubmitCases ==
    ASSUME TypeOK, NEW key \in Keys, NEW payload \in Payloads, Submit(key, payload)
    PROVE  /\ UNCHANGED <<tick, head, wake, accounting_wall, attempts, commits,
                          failures, abstentions>>
           /\ \/ UNCHANGED occasions
              \/ InboxGrows(UserKey(key), "external", payload)
<1>1. UserKey(key) \in {"user", "system", "wake"} \X (Keys \cup Nat)
  BY DEF UserKey
<1>2. occasions' = Enqueued(UserKey(key), "external", payload)
  BY DEF Submit
<1>3. \/ UNCHANGED occasions
      \/ InboxGrows(UserKey(key), "external", payload)
  BY <1>1, <1>2, EnqueueCases
<1>4. QED BY <1>3 DEF Submit

\* A due wake that schedule() does not find in the inbox has no row there: one
\* of the current head would have been offered, and one that was consumed
\* belongs to an older head.
LEMMA DueWakeIsNew ==
    ASSUME KernelInv, ChainInv, InboxInv, NEW observed \in Instants,
           OfferedOccasions(observed) = {}, WakeDue(observed)
    PROVE  KeyRows(WakeKey(head)) = {}
<1>1. SUFFICES ASSUME NEW o \in OccasionIds, occasions[o].key = WakeKey(head)
               PROVE  FALSE
  BY DEF KeyRows
<1>2. ~Message(o)
  BY <1>1 DEF InboxInv, WakeKey
<1>3. occasions[o].parent = head
  BY <1>1, <1>2 DEF InboxInv, WakeKey
<1>4. occasions[o].consumed = NoCommit
  <2>1. SUFFICES ASSUME occasions[o].consumed # NoCommit PROVE FALSE
    OBVIOUS
  <2>2. occasions[o].consumed = head + 1
    BY <1>2, <1>3, <2>1 DEF InboxInv
  <2>3. occasions[o].consumed \in 1 .. Len(commits) /\ Len(commits) \in Nat
    BY <2>1, RowTypes DEF KernelInv, TypeOK, CommitIds
  <2>4. QED BY <2>2, <2>3 DEF ChainInv
<1>5. observed >= wake /\ wake # NoTime
  BY DEF WakeDue
<1>6. Offered(o, observed)
  BY <1>3, <1>4, <1>5 DEF Offered
<1>7. QED BY <1>6 DEF OfferedOccasions

\* Store::admit: the attempt it inserts, on an occasion that was offered or on
\* the wake it materialises.
LEMMA AdmitCases ==
    ASSUME KernelInv, ChainInv, InboxInv,
           NEW observed \in Instants, NEW maintenance \in MaintenanceModes,
           Admit(observed, maintenance)
    PROVE  LET o == NextOccasion(observed)
               n == Len(attempts) + 1
           IN  /\ AttemptIds' = AttemptIds \cup {n}
               /\ n \notin AttemptIds
               /\ \A a \in AttemptIds : attempts'[a] = attempts[a] /\ a < n
               /\ attempts'[n] = Admission(o, observed, maintenance)
               /\ attempts'[n].parent = head /\ attempts'[n].tick = tick
               /\ attempts'[n].occasion = o
               /\ attempts'[n].admitted_at = Accounting(observed)
               /\ attempts'[n].observed_at = observed
               /\ attempts'[n].budget = LiveDecision(observed)
               /\ attempts'[n].status = "reserved"
               /\ accounting_wall' = Accounting(observed)
               /\ UNCHANGED <<tick, head, wake, commits, failures, abstentions>>
               /\ \/ /\ UNCHANGED occasions
                     /\ o \in OfferedOccasions(observed)
                     /\ \A p \in OfferedOccasions(observed) : o <= p
                  \/ /\ InboxGrows(WakeKey(head), "scheduled", wake)
                     /\ o = Len(occasions) + 1
                     /\ WakeDue(observed)
<1> DEFINE o == NextOccasion(observed)
           n == Len(attempts) + 1
           row == Admission(o, observed, maintenance)
<1>1. TypeOK
  BY DEF KernelInv
<1>2. NextOccasion(observed) # NoRow
  BY ReadyProperties DEF Admit
<1>3. /\ o \in OccasionIds'
      /\ attempts' = Append(attempts, row)
      /\ accounting_wall' = Accounting(observed)
      /\ UNCHANGED <<tick, head, wake, commits, failures, abstentions>>
  BY AdmitProperties
<1>4. o \in Nat \ {0}
  BY <1>3 DEF OccasionIds
<1>5. /\ row \in AttemptRow /\ row.parent = head /\ row.tick = tick /\ row.occasion = o
      /\ row.admitted_at = Accounting(observed) /\ row.observed_at = observed
      /\ row.budget = LiveDecision(observed) /\ row.status = "reserved"
  BY <1>4, AdmissionProperties
<1>6. \/ /\ UNCHANGED occasions
         /\ o \in OfferedOccasions(observed)
         /\ \A p \in OfferedOccasions(observed) : o <= p
      \/ /\ InboxGrows(WakeKey(head), "scheduled", wake)
         /\ o = Len(occasions) + 1
         /\ WakeDue(observed)
  <2>1. CASE OfferedOccasions(observed) # {}
    BY <1>1, <1>2, <2>1, NextOccasionProperties DEF Admit
  <2>2. CASE OfferedOccasions(observed) = {}
    <3>1. WakeDue(observed) /\ o = EnqueueId(WakeKey(head))
      BY <1>1, <1>2, <2>2, NextOccasionProperties
    <3>2. occasions' = Enqueued(WakeKey(head), "scheduled", wake)
      BY <2>2 DEF Admit
    <3>3. KeyRows(WakeKey(head)) = {}
      BY <2>2, <3>1, DueWakeIsNew
    <3>4. wake \in Payloads \cup Nat
      BY <1>1, <3>1, LimitsAssumption DEF TypeOK, WakeDue, Instants, NoTime
    <3>5. WakeKey(head) \in {"user", "system", "wake"} \X (Keys \cup Nat)
      BY <1>1 DEF WakeKey, TypeOK, CommitIds
    <3> HIDE DEF o
    <3>6. /\ InboxGrows(WakeKey(head), "scheduled", wake)
          /\ EnqueueId(WakeKey(head)) = Len(occasions) + 1
      BY <1>1, <3>2, <3>3, <3>4, <3>5, EnqueueCases
    <3>7. QED BY <3>1, <3>6
  <2>3. QED BY <2>1, <2>2
<1> HIDE DEF o, row
<1>7. /\ Len(attempts') = n
      /\ \A a \in AttemptIds : attempts'[a] = attempts[a]
      /\ attempts'[n] = row
  BY <1>1, <1>3, <1>5, AppendRow DEF TypeOK, AttemptIds
<1>8. /\ AttemptIds' = AttemptIds \cup {n} /\ n \notin AttemptIds
      /\ \A a \in AttemptIds : a < n
  BY <1>1, <1>7, RowTypes DEF AttemptIds
<1>9. QED BY <1>3, <1>5, <1>6, <1>7, <1>8 DEF o, row

-----------------------------------------------------------------------------
(* StoreInv is inductive.                                                  *)

\* Message, of the inbox that a step leaves.
MessageNext(o) == occasions'[o].kind # "scheduled"


\* A row that enqueue() inserts keeps keys unique and the inbox in order.
LEMMA GrowthKeepsInbox ==
    ASSUME StoreInv, NEW key, NEW kind, NEW payload,
           InboxGrows(key, kind, payload), UNCHANGED <<head, wake, commits>>,
           \/ kind # "scheduled" /\ key[1] # "wake"
           \/ kind = "scheduled" /\ key = WakeKey(head) /\ payload = wake /\ wake # NoTime
    PROVE  InboxInv' /\ InboxOrder'
<1> DEFINE n == Len(occasions) + 1
<1>1. /\ KeyRows(key) = {} /\ OccasionIds' = OccasionIds \cup {n} /\ n \notin OccasionIds
      /\ \A o \in OccasionIds : occasions'[o] = occasions[o] /\ o < n
      /\ occasions'[n].key = key /\ occasions'[n].kind = kind
      /\ occasions'[n].payload = payload /\ occasions'[n].parent = head
      /\ occasions'[n].consumed = NoCommit
  BY DEF InboxGrows
<1>2. \A o \in OccasionIds : occasions[o].key # key
  BY <1>1 DEF KeyRows
<1>3. n \in Int /\ OccasionIds \subseteq Int
  BY RowTypes DEF StoreInv, KernelInv, OccasionIds
<1> HIDE DEF n
<1>4. \A o, p \in OccasionIds' : occasions'[o].key = occasions'[p].key => o = p
  BY <1>1, <1>2 DEF StoreInv, InboxInv
<1>5. ASSUME NEW o \in OccasionIds'
      PROVE  /\ occasions'[o].consumed # NoCommit =>
                   /\ occasions'[o].parent < occasions'[o].consumed
                   /\ commits'[occasions'[o].consumed].occasion = o
             /\ MessageNext(o) => occasions'[o].key[1] # "wake"
             /\ ~MessageNext(o) =>
                   /\ occasions'[o].key = WakeKey(occasions'[o].parent)
                   /\ occasions'[o].payload = commits'[occasions'[o].parent].wake_at
                   /\ occasions'[o].payload # NoTime
                   /\ occasions'[o].consumed # NoCommit =>
                         occasions'[o].consumed = occasions'[o].parent + 1
  <2>1. CASE o \in OccasionIds
    BY <1>1, <2>1 DEF StoreInv, InboxInv, Message, MessageNext
  <2>2. CASE o \notin OccasionIds
    <3>1. o = n
      BY <1>1, <2>2
    <3>2. wake = commits[head].wake_at
      BY DEF StoreInv, ChainInv
    <3>3. QED BY <1>1, <3>1, <3>2 DEF Message, MessageNext
  <2>3. QED BY <2>1, <2>2
<1>6. InboxInv'
  BY <1>4, <1>5 DEF InboxInv, Message, MessageNext
<1>7. InboxOrder'
  <2>1. ASSUME NEW o \in OccasionIds', NEW p \in OccasionIds',
               MessageNext(o), MessageNext(p), o < p, occasions'[p].consumed # NoCommit
        PROVE  /\ occasions'[o].consumed # NoCommit
               /\ occasions'[o].consumed < occasions'[p].consumed
    <3>1. p \in OccasionIds
      BY <1>1, <2>1
    <3>2. o \in OccasionIds
      BY <1>1, <1>3, <2>1, <3>1
    <3>3. QED BY <1>1, <2>1, <3>1, <3>2 DEF StoreInv, InboxOrder, Message, MessageNext
  <2>2. QED BY <1>4, <2>1 DEF InboxOrder, Message, MessageNext
<1>8. QED BY <1>6, <1>7

\* The attempts already made keep what they relied on when the inbox grows or
\* stays, and the tables they point to do not change.
LEMMA OldAttemptsKeepTheirOccasion ==
    ASSUME StoreInv, NEW a \in AttemptIds, attempts'[a] = attempts[a],
           OccasionIds \subseteq OccasionIds',
           \A o \in OccasionIds : occasions'[o] = occasions[o],
           \A o \in OccasionIds, p \in OccasionIds' : p < o => p \in OccasionIds
    PROVE  LET o == attempts'[a].occasion
           IN  /\ attempts'[a].tick = attempts'[a].parent - 1
               /\ ~MessageNext(o) => /\ occasions'[o].parent = attempts'[a].parent
                                  /\ attempts'[a].observed_at >= occasions'[o].payload
               /\ MessageNext(o) => \A p \in OccasionIds' :
                                    p < o /\ MessageNext(p) => occasions'[p].consumed # NoCommit
               /\ attempts'[a].status = "committed" => occasions'[o].consumed # NoCommit
<1> DEFINE o == attempts[a].occasion
<1>1. o \in OccasionIds
  BY DEF StoreInv, KernelInv, TypeOK
<1>2. occasions'[o] = occasions[o] /\ (MessageNext(o) <=> Message(o))
  BY <1>1 DEF Message, MessageNext
<1>3. ASSUME NEW p \in OccasionIds', p < o, MessageNext(p), MessageNext(o)
      PROVE  occasions'[p].consumed # NoCommit
  <2>1. p \in OccasionIds /\ Message(p)
    BY <1>1, <1>3 DEF Message, MessageNext
  <2>2. QED BY <1>2, <1>3, <2>1 DEF StoreInv, AttemptsInv
<1>4. QED BY <1>2, <1>3 DEF StoreInv, AttemptsInv

\* ... and so do the commits.
LEMMA GrowthKeepsChain ==
    ASSUME StoreInv, UNCHANGED <<tick, head, wake, commits>>,
           AttemptIds \subseteq AttemptIds',
           \A a \in AttemptIds : attempts'[a] = attempts[a],
           \A o \in OccasionIds : occasions'[o] = occasions[o]
    PROVE  ChainInv'
<1>1. CommitIds' = CommitIds
  BY DEF CommitIds
<1>2. \A a \in AttemptIds : attempts[a].occasion \in OccasionIds
  BY DEF StoreInv, KernelInv, TypeOK
<1>3. ASSUME NEW c \in CommitIds \ {Genesis}
      PROVE  /\ commits'[c].parent = c - 1
             /\ commits'[c].attempt \in AttemptIds'
             /\ attempts'[commits'[c].attempt].parent = c - 1
             /\ attempts'[commits'[c].attempt].status = "committed"
             /\ commits'[c].occasion = attempts'[commits'[c].attempt].occasion
             /\ occasions'[commits'[c].occasion].consumed = c
  BY <1>2 DEF StoreInv, ChainInv
<1>4. QED BY <1>1, <1>3 DEF StoreInv, ChainInv

\* Store::submit preserves the invariant.
LEMMA SubmitStoreInv ==
    ASSUME StoreInv, NEW key \in Keys, NEW payload \in Payloads, Submit(key, payload)
    PROVE  StoreInv'
<1>1. KernelInv /\ TypeOK
  BY DEF StoreInv, KernelInv
<1>2. KernelInv'
  BY <1>1, SubmitKernelInv
<1>3. UNCHANGED <<tick, head, wake, accounting_wall, attempts, commits>>
  BY <1>1, SubmitCases
<1>4. CASE UNCHANGED occasions
  BY <1>2, <1>3, <1>4 DEF StoreInv, ChainInv, InboxInv, AttemptsInv, InboxOrder,
     ReservationsAreLive, AttemptIds, OccasionIds, CommitIds, Message
<1>5. CASE InboxGrows(UserKey(key), "external", payload)
  <2>1. /\ OccasionIds \subseteq OccasionIds'
        /\ \A o \in OccasionIds : occasions'[o] = occasions[o]
        /\ \A o \in OccasionIds, p \in OccasionIds' : p < o => p \in OccasionIds
    <3>1. OccasionIds \subseteq Int /\ Len(occasions) + 1 \in Int
      BY <1>1, RowTypes DEF OccasionIds
    <3>2. /\ OccasionIds' = OccasionIds \cup {Len(occasions) + 1}
          /\ \A o \in OccasionIds : occasions'[o] = occasions[o] /\ o < Len(occasions) + 1
      BY <1>5 DEF InboxGrows
    <3>3. QED BY <3>1, <3>2
  <2>2. UserKey(key)[1] # "wake"
    BY DEF UserKey
  <2>3. InboxInv' /\ InboxOrder'
    BY <1>3, <1>5, <2>2, GrowthKeepsInbox
  <2>4. AttemptIds' = AttemptIds /\ \A a \in AttemptIds : attempts'[a] = attempts[a]
    BY <1>3 DEF AttemptIds
  <2>5. ChainInv'
    BY <1>3, <2>1, <2>4, GrowthKeepsChain
  <2>6. AttemptsInv'
    BY <2>1, <2>4, OldAttemptsKeepTheirOccasion DEF AttemptsInv, Message, MessageNext
  <2>7. ReservationsAreLive'
    BY <1>1, <1>3, <2>1, <2>4 DEF StoreInv, ReservationsAreLive, TypeOK
  <2>8. QED BY <1>2, <2>3, <2>5, <2>6, <2>7 DEF StoreInv
<1>6. QED BY <1>1, <1>4, <1>5, SubmitCases

\* Store::admit preserves it: the attempt's occasion is the oldest message, or
\* the wake of this head at a clock that reached it.
LEMMA AdmitStoreInv ==
    ASSUME StoreInv, NEW observed \in Instants, NEW maintenance \in MaintenanceModes,
           Admit(observed, maintenance)
    PROVE  StoreInv'
<1> DEFINE o == NextOccasion(observed)
           n == Len(attempts) + 1
<1>1. KernelInv /\ TypeOK /\ ChainInv /\ InboxInv /\ InboxOrder
  BY DEF StoreInv, KernelInv
<1>2. KernelInv'
  BY <1>1, AdmitKernelInv
<1>3. /\ AttemptIds' = AttemptIds \cup {n}
      /\ n \notin AttemptIds
      /\ \A a \in AttemptIds : attempts'[a] = attempts[a]
      /\ attempts'[n].parent = head /\ attempts'[n].tick = tick
      /\ attempts'[n].occasion = o
      /\ attempts'[n].observed_at = observed
      /\ attempts'[n].status = "reserved"
      /\ UNCHANGED <<tick, head, wake, commits>>
      /\ \/ /\ UNCHANGED occasions
            /\ o \in OfferedOccasions(observed)
            /\ \A p \in OfferedOccasions(observed) : o <= p
         \/ /\ InboxGrows(WakeKey(head), "scheduled", wake)
            /\ o = Len(occasions) + 1
            /\ WakeDue(observed)
  BY <1>1, AdmitCases
<1>4. wake = commits[head].wake_at /\ tick = head - 1
  BY <1>1 DEF ChainInv
<1>5. OccasionIds \subseteq Int /\ Len(occasions) + 1 \in Int
  BY <1>1, RowTypes DEF OccasionIds
<1> HIDE DEF n, o
<1>6. CASE /\ UNCHANGED occasions
           /\ o \in OfferedOccasions(observed)
           /\ \A p \in OfferedOccasions(observed) : o <= p
  <2>1. OccasionIds' = OccasionIds /\ CommitIds' = CommitIds
    BY <1>3, <1>6 DEF OccasionIds, CommitIds
  <2>2. InboxInv' /\ InboxOrder'
    BY <1>1, <1>3, <1>6, <2>1 DEF InboxInv, InboxOrder, Message, MessageNext
  <2>3. ChainInv'
    BY <1>3, <1>6, GrowthKeepsChain
  <2>4. o \in OccasionIds /\ Offered(o, observed) /\ occasions[o].consumed = NoCommit
    BY <1>6 DEF OfferedOccasions, Offered
  <2>5. ASSUME ~Message(o)
        PROVE  occasions[o].parent = head /\ observed >= occasions[o].payload
    <3>1. /\ occasions[o].parent = head
          /\ observed >= (IF wake = NoTime THEN MaxMillis ELSE wake)
      BY <2>4, <2>5 DEF Offered, Message, MessageNext
    <3>2. occasions[o].payload = wake /\ wake # NoTime
      BY <1>1, <1>4, <2>4, <2>5, <3>1 DEF InboxInv, Message, MessageNext
    <3>3. QED BY <3>1, <3>2
  <2>6. ASSUME Message(o), NEW p \in OccasionIds, p < o, Message(p)
        PROVE  occasions[p].consumed # NoCommit
    <3>1. SUFFICES ASSUME occasions[p].consumed = NoCommit PROVE FALSE
      OBVIOUS
    <3>2. p \in OfferedOccasions(observed)
      BY <2>6, <3>1 DEF OfferedOccasions, Offered, Message, MessageNext
    <3>3. QED BY <1>5, <1>6, <2>4, <2>6, <3>2
  <2>7. AttemptsInv'
    <3>1. ASSUME NEW a \in AttemptIds'
          PROVE  LET q == attempts'[a].occasion
                 IN  /\ attempts'[a].tick = attempts'[a].parent - 1
                     /\ ~MessageNext(q) => /\ occasions'[q].parent = attempts'[a].parent
                                        /\ attempts'[a].observed_at >= occasions'[q].payload
                     /\ MessageNext(q) => \A p \in OccasionIds' :
                                          p < q /\ MessageNext(p) => occasions'[p].consumed # NoCommit
                     /\ attempts'[a].status = "committed" => occasions'[q].consumed # NoCommit
      <4>1. CASE a \in AttemptIds
        <5>1. attempts'[a] = attempts[a]
          BY <1>3, <4>1
        <5>2. QED BY <1>6, <2>1, <4>1, <5>1, OldAttemptsKeepTheirOccasion
      <4>2. CASE a \notin AttemptIds
        <5>1. a = n
          BY <1>3, <4>2
        <5>2. (MessageNext(o) <=> Message(o)) /\ \A p \in OccasionIds : MessageNext(p) <=> Message(p)
          BY <1>6 DEF Message, MessageNext
        <5>3. QED BY <1>3, <1>4, <1>6, <2>1, <2>5, <2>6, <5>1, <5>2
      <4>3. QED BY <4>1, <4>2
    <3>2. QED BY <3>1 DEF AttemptsInv, Message, MessageNext
  <2>8. ReservationsAreLive'
    <3>1. ASSUME NEW a \in AttemptIds', attempts'[a].status = "reserved"
          PROVE  /\ attempts'[a].parent = head
                 /\ attempts'[a].tick = tick
                 /\ occasions[attempts'[a].occasion].consumed = NoCommit
      <4>1. CASE a \in AttemptIds
        <5>1. attempts'[a] = attempts[a]
          BY <1>3, <4>1
        <5>2. QED BY <3>1, <4>1, <5>1 DEF StoreInv, ReservationsAreLive
      <4>2. CASE a \notin AttemptIds
        <5>1. a = n
          BY <1>3, <4>2
        <5>2. QED BY <1>3, <2>4, <5>1
      <4>3. QED BY <4>1, <4>2
    <3>2. QED BY <1>3, <1>6, <3>1 DEF ReservationsAreLive
  <2>9. QED BY <1>2, <2>2, <2>3, <2>7, <2>8 DEF StoreInv
<1>7. CASE /\ InboxGrows(WakeKey(head), "scheduled", wake)
           /\ o = Len(occasions) + 1
           /\ WakeDue(observed)
  <2>1. /\ OccasionIds' = OccasionIds \cup {o} /\ o \notin OccasionIds
        /\ \A p \in OccasionIds : occasions'[p] = occasions[p] /\ p < o
        /\ occasions'[o].kind = "scheduled" /\ occasions'[o].payload = wake
        /\ occasions'[o].parent = head /\ occasions'[o].consumed = NoCommit
    BY <1>7 DEF InboxGrows
  <2>2. /\ OccasionIds \subseteq OccasionIds'
        /\ \A q \in OccasionIds, p \in OccasionIds' : p < q => p \in OccasionIds
    <3>1. OccasionIds \subseteq Int /\ o \in Int
      BY <1>5, <1>7
    <3>2. OccasionIds' = OccasionIds \cup {o} /\ \A p \in OccasionIds : p < o
      BY <2>1
    <3>3. QED BY ONLY <3>1, <3>2
  <2>3. wake # NoTime /\ observed >= wake
    BY <1>7 DEF WakeDue
  <2>4. InboxInv' /\ InboxOrder'
    BY <1>3, <1>7, <2>3, GrowthKeepsInbox
  <2>5. ChainInv'
    BY <1>3, <2>1, GrowthKeepsChain
  <2>6. AttemptsInv'
    <3>1. ASSUME NEW a \in AttemptIds'
          PROVE  LET q == attempts'[a].occasion
                 IN  /\ attempts'[a].tick = attempts'[a].parent - 1
                     /\ ~MessageNext(q) => /\ occasions'[q].parent = attempts'[a].parent
                                        /\ attempts'[a].observed_at >= occasions'[q].payload
                     /\ MessageNext(q) => \A p \in OccasionIds' :
                                          p < q /\ MessageNext(p) => occasions'[p].consumed # NoCommit
                     /\ attempts'[a].status = "committed" => occasions'[q].consumed # NoCommit
      <4>1. CASE a \in AttemptIds
        <5>1. attempts'[a] = attempts[a]
          BY <1>3, <4>1
        <5>2. QED BY <2>1, <2>2, <4>1, <5>1, OldAttemptsKeepTheirOccasion
      <4>2. CASE a \notin AttemptIds
        <5>1. a = n
          BY <1>3, <4>2
        <5>2. ~MessageNext(o)
          BY <2>1 DEF MessageNext
        <5>3. QED BY <1>3, <1>4, <2>1, <2>3, <5>1, <5>2
      <4>3. QED BY <4>1, <4>2
    <3>2. QED BY <3>1 DEF AttemptsInv, Message, MessageNext
  <2>7. ReservationsAreLive'
    <3>1. ASSUME NEW a \in AttemptIds', attempts'[a].status = "reserved"
          PROVE  /\ attempts'[a].parent = head
                 /\ attempts'[a].tick = tick
                 /\ occasions'[attempts'[a].occasion].consumed = NoCommit
      <4>1. CASE a \in AttemptIds
        <5>1. attempts'[a] = attempts[a] /\ attempts[a].occasion \in OccasionIds
          BY <1>1, <1>3, <4>1 DEF TypeOK
        <5>2. QED BY <2>1, <3>1, <4>1, <5>1 DEF StoreInv, ReservationsAreLive
      <4>2. CASE a \notin AttemptIds
        <5>1. a = n
          BY <1>3, <4>2
        <5>2. QED BY <1>3, <2>1, <5>1
      <4>3. QED BY <4>1, <4>2
    <3>2. QED BY <1>3, <3>1 DEF ReservationsAreLive
  <2>8. QED BY <1>2, <2>4, <2>5, <2>6, <2>7 DEF StoreInv
<1>8. QED BY <1>3, <1>6, <1>7

\* An attempt is settled without a transition: it failed or abstained.
Lapse(a, status) ==
    /\ attempts[a].status = "reserved"
    /\ OnlyStatusChanges
    /\ \A i \in AttemptIds :
          attempts'[i].status = IF i = a THEN status ELSE attempts[i].status
    /\ UNCHANGED <<tick, head, wake, accounting_wall, occasions, commits>>
    /\ \/ /\ status = "abstained"
          /\ abstentions' = abstentions \cup {a}
          /\ UNCHANGED failures
       \/ /\ status = "failed"
          /\ failures' \in {failures, failures \cup {a}}
          /\ UNCHANGED abstentions

\* A transition: a proposal, or the disposition of an undeliverable occasion.
Transition(a, now, request, disposition) ==
    /\ CommitLocked(a, now, request, disposition)
    /\ UNCHANGED abstentions
    /\ \/ /\ disposition = {}
          /\ UNCHANGED failures
       \/ /\ MaxOccasionFailures > 0
          /\ Settles(a)
          /\ request = SettlementRequest(a, now)
          /\ disposition = CountedFailures(a)
          /\ failures' = failures \cup {a}

\* Every operation that settles an attempt lapses it or makes a transition.
LEMMA OperationKinds ==
    ASSUME TypeOK, NEW a \in AttemptIds
    PROVE  /\ \A now \in Instants, request \in WakeRequests \cup {NoTime} :
                 Commit(a, now, request) => /\ request \in Nat \cup {NoTime}
                                            /\ Transition(a, now, request, {})
           /\ \A now \in Instants :
                 Dispose(a, now) =>
                    /\ SettlementRequest(a, now) \in Nat \cup {NoTime}
                    /\ CountedFailures(a) \in SUBSET Nat
                    /\ Transition(a, now, SettlementRequest(a, now), CountedFailures(a))
           /\ Abstain(a) => Lapse(a, "abstained")
           /\ FailTransient(a) \/ RecordFailure(a) => Lapse(a, "failed")
           /\ \A now \in Instants : DisposeOverflow(a, now) => Lapse(a, "failed")
<1>1. ASSUME NEW now \in Instants, NEW request \in WakeRequests \cup {NoTime},
             Commit(a, now, request)
      PROVE  request \in Nat \cup {NoTime} /\ Transition(a, now, request, {})
  BY <1>1, KernelAssumption DEF Commit, Transition
<1>2. ASSUME NEW now \in Instants, Dispose(a, now)
      PROVE  /\ SettlementRequest(a, now) \in Nat \cup {NoTime}
             /\ CountedFailures(a) \in SUBSET Nat
             /\ Transition(a, now, SettlementRequest(a, now), CountedFailures(a))
  <2>1. /\ SettlementRequest(a, now) \in Nat \cup {NoTime}
        /\ CountedFailures(a) \in SUBSET Nat
    BY SettlementRequestType, CountedFailuresType
  <2>2. QED BY <1>2, <2>1 DEF Dispose, Transition
<1>3. ASSUME Abstain(a) PROVE Lapse(a, "abstained")
  <2>1. attempts' = WithStatus(a, "abstained")
    BY <1>3 DEF Abstain
  <2>2. /\ OnlyStatusChanges
        /\ \A i \in AttemptIds :
              attempts'[i].status = IF i = a THEN "abstained" ELSE attempts[i].status
    BY <2>1, WithStatusProperties DEF Statuses
  <2>3. QED BY <1>3, <2>2 DEF Abstain, Lapse
<1>4. ASSUME attempts' = WithStatus(a, "failed"),
             attempts[a].status = "reserved",
             failures' \in {failures, failures \cup {a}},
             UNCHANGED <<tick, head, wake, accounting_wall, occasions, commits, abstentions>>
      PROVE  Lapse(a, "failed")
  <2>1. /\ OnlyStatusChanges
        /\ \A i \in AttemptIds :
              attempts'[i].status = IF i = a THEN "failed" ELSE attempts[i].status
    BY <1>4, WithStatusProperties DEF Statuses
  <2>2. QED BY <1>4, <2>1 DEF Lapse
<1>5. FailTransient(a) \/ RecordFailure(a) => Lapse(a, "failed")
  BY <1>4 DEF FailTransient, RecordFailure
<1>6. \A now \in Instants : DisposeOverflow(a, now) => Lapse(a, "failed")
  BY <1>4 DEF DisposeOverflow
<1>7. QED BY <1>1, <1>2, <1>3, <1>5, <1>6

\* Every step of the store is one of five kinds.
LEMMA StepCases ==
    ASSUME TypeOK, [Next]_vars
    PROVE  \/ UNCHANGED vars
           \/ \E key \in Keys, payload \in Payloads : Submit(key, payload)
           \/ \E observed \in Instants, maintenance \in MaintenanceModes :
                 Admit(observed, maintenance)
           \/ \E a \in AttemptIds, status \in {"failed", "abstained"} : Lapse(a, status)
           \/ \E a \in AttemptIds, now \in Instants, request \in Nat \cup {NoTime},
                 disposition \in SUBSET Nat : Transition(a, now, request, disposition)
<1>1. ASSUME NEW a \in AttemptIds, NEW now \in Instants,
             NEW request \in WakeRequests \cup {NoTime}, Commit(a, now, request)
      PROVE  request \in Nat \cup {NoTime} /\ Transition(a, now, request, {})
  BY <1>1, OperationKinds
<1>2. ASSUME NEW a \in AttemptIds, NEW now \in Instants, Dispose(a, now)
      PROVE  /\ SettlementRequest(a, now) \in Nat \cup {NoTime}
             /\ CountedFailures(a) \in SUBSET Nat
             /\ Transition(a, now, SettlementRequest(a, now), CountedFailures(a))
  BY <1>2, OperationKinds
<1>3. ASSUME NEW a \in AttemptIds, Abstain(a) PROVE Lapse(a, "abstained")
  BY <1>3, OperationKinds
<1>4. ASSUME NEW a \in AttemptIds,
             FailTransient(a) \/ RecordFailure(a) \/ \E now \in Instants : DisposeOverflow(a, now)
      PROVE  Lapse(a, "failed")
  BY <1>4, OperationKinds
<1>5. {} \in SUBSET Nat
  OBVIOUS
<1>6. QED BY <1>1, <1>2, <1>3, <1>4, <1>5 DEF Next

\* Failures and abstentions leave the chain, the inbox and what attempts
\* relied on alone.
LEMMA LapseStoreInv ==
    ASSUME StoreInv, KernelInv', NEW a \in AttemptIds,
           NEW status \in {"failed", "abstained"}, Lapse(a, status)
    PROVE  StoreInv'
<1>1. /\ attempts[a].status = "reserved" /\ OnlyStatusChanges
      /\ \A i \in AttemptIds :
            attempts'[i].status = IF i = a THEN status ELSE attempts[i].status
      /\ UNCHANGED <<tick, head, wake, occasions, commits>>
  BY DEF Lapse
<1>2. AttemptIds' = AttemptIds /\ OccasionIds' = OccasionIds /\ CommitIds' = CommitIds
  BY <1>1 DEF OnlyStatusChanges, AttemptIds, OccasionIds, CommitIds
<1>3. \A i \in AttemptIds :
         /\ attempts'[i].parent = attempts[i].parent
         /\ attempts'[i].tick = attempts[i].tick
         /\ attempts'[i].occasion = attempts[i].occasion
         /\ attempts'[i].observed_at = attempts[i].observed_at
         /\ attempts'[i].status = "committed" <=> attempts[i].status = "committed"
         /\ attempts'[i].status = "reserved" => attempts[i].status = "reserved"
  BY <1>1 DEF OnlyStatusChanges
<1>4. ChainInv'
  BY <1>1, <1>2, <1>3 DEF StoreInv, ChainInv
<1>5. InboxInv' /\ InboxOrder'
  BY <1>1, <1>2 DEF StoreInv, InboxInv, InboxOrder, Message
<1>6. AttemptsInv'
  BY <1>1, <1>2, <1>3 DEF StoreInv, AttemptsInv, Message
<1>7. ReservationsAreLive'
  BY <1>1, <1>2, <1>3 DEF StoreInv, ReservationsAreLive
<1>8. QED BY <1>4, <1>5, <1>6, <1>7 DEF StoreInv

\* What commit_locked changes, for rows that exist and for the new one.
LEMMA TransitionEffect ==
    ASSUME KernelInv, NEW a \in AttemptIds, NEW now \in Instants,
           NEW request \in Nat \cup {NoTime}, NEW disposition \in SUBSET Nat,
           CommitLocked(a, now, request, disposition)
    PROVE  LET o == attempts[a].occasion
               id == Len(commits) + 1
           IN  /\ Committable(a)
               /\ o \in OccasionIds
               /\ AttemptIds' = AttemptIds /\ OccasionIds' = OccasionIds
               /\ CommitIds' = CommitIds \cup {id}
               /\ id \notin CommitIds /\ id \in Nat /\ Len(commits') = id
               /\ \A c \in CommitIds : commits'[c] = commits[c] /\ c < id /\ c \in Nat \ {0}
               /\ commits'[id].parent = head /\ commits'[id].tick = tick + 1
               /\ commits'[id].occasion = o /\ commits'[id].attempt = a
               /\ commits'[id].committed_at = CommitInstant(a, now)
               /\ commits'[id].wake_at = wake'
               /\ commits'[id].disposition = disposition
               /\ commits'[id].plan = CommitPlan(a, now, request)
               /\ wake' = CommitPlan(a, now, request).granted_at
               /\ tick' = tick + 1 /\ head' = id
               /\ accounting_wall' = CommitInstant(a, now)
               /\ \A p \in OccasionIds :
                     /\ occasions'[p].key = occasions[p].key
                     /\ occasions'[p].kind = occasions[p].kind
                     /\ occasions'[p].payload = occasions[p].payload
                     /\ occasions'[p].parent = occasions[p].parent
                     /\ occasions'[p].consumed = IF p = o THEN id ELSE occasions[p].consumed
               /\ OnlyStatusChanges
               /\ attempts'[a].status = "committed"
               /\ \A i \in AttemptIds \ {a} :
                     attempts'[i].status =
                        IF attempts[i].parent = head /\ attempts[i].status = "reserved"
                        THEN "superseded" ELSE attempts[i].status
<1> DEFINE o == attempts[a].occasion
           id == Len(commits) + 1
<1>1. TypeOK /\ Len(commits) \in Nat
  BY RowTypes DEF KernelInv
<1>2. /\ Committable(a) /\ o \in OccasionIds /\ Len(commits') = id
      /\ \A c \in CommitIds : commits'[c] = commits[c]
      /\ commits'[id].parent = head /\ commits'[id].tick = tick + 1
      /\ commits'[id].occasion = o /\ commits'[id].attempt = a
      /\ commits'[id].committed_at = CommitInstant(a, now)
      /\ commits'[id].wake_at = wake'
      /\ commits'[id].disposition = disposition
      /\ commits'[id].plan = CommitPlan(a, now, request)
      /\ wake' = CommitPlan(a, now, request).granted_at
      /\ tick' = tick + 1 /\ head' = id
      /\ accounting_wall' = CommitInstant(a, now)
  <2>1. /\ Committable(a) /\ o \in OccasionIds /\ Len(commits') = id
        /\ \A c \in CommitIds : commits'[c] = commits[c]
    BY CommitLockedProperties
  <2>2. /\ commits'[id].parent = head /\ commits'[id].tick = tick + 1
        /\ commits'[id].occasion = o /\ commits'[id].attempt = a
        /\ commits'[id].committed_at = CommitInstant(a, now)
        /\ commits'[id].wake_at = wake'
    BY CommitLockedProperties
  <2>3. /\ commits'[id].disposition = disposition
        /\ commits'[id].plan = CommitPlan(a, now, request)
        /\ wake' = CommitPlan(a, now, request).granted_at
    BY CommitLockedProperties
  <2>4. /\ tick' = tick + 1 /\ head' = id
        /\ accounting_wall' = CommitInstant(a, now)
    BY CommitLockedProperties
  <2>5. QED BY <2>1, <2>2, <2>3, <2>4
<1>3. /\ Len(occasions') = Len(occasions)
      /\ \A p \in OccasionIds :
            /\ occasions'[p].key = occasions[p].key
            /\ occasions'[p].kind = occasions[p].kind
            /\ occasions'[p].payload = occasions[p].payload
            /\ occasions'[p].parent = occasions[p].parent
            /\ occasions'[p].consumed = IF p = o THEN id ELSE occasions[p].consumed
      /\ attempts' = Settled(a)
  BY CommitLockedProperties
<1>4. /\ OnlyStatusChanges
      /\ attempts'[a].status = "committed"
      /\ \A i \in AttemptIds \ {a} :
            attempts'[i].status =
               IF attempts[i].parent = head /\ attempts[i].status = "reserved"
               THEN "superseded" ELSE attempts[i].status
  BY <1>1, <1>3, SettledProperties
<1>5. /\ AttemptIds' = AttemptIds /\ OccasionIds' = OccasionIds
      /\ CommitIds' = CommitIds \cup {id}
      /\ id \notin CommitIds /\ id \in Nat
      /\ \A c \in CommitIds : c < id /\ c \in Nat \ {0}
  BY <1>1, <1>2, <1>4, <1>3 DEF OnlyStatusChanges, AttemptIds, OccasionIds, CommitIds
<1> HIDE DEF id, o
<1>6. QED BY <1>2, <1>4, <1>5, <1>3 DEF id, o

\* commit_locked preserves the invariant: the attempt it settles still owns the
\* head, so the chain grows by one, and what the attempt's admission relied on
\* still holds.
LEMMA TransitionStoreInv ==
    ASSUME StoreInv, KernelInv', NEW a \in AttemptIds, NEW now \in Instants,
           NEW request \in Nat \cup {NoTime}, NEW disposition \in SUBSET Nat,
           CommitLocked(a, now, request, disposition)
    PROVE  StoreInv'
<1> DEFINE o == attempts[a].occasion
           id == Len(commits) + 1
<1>1. KernelInv /\ TypeOK /\ ChainInv /\ InboxInv /\ AttemptsInv /\ InboxOrder
      /\ ReservationsAreLive
  BY DEF StoreInv, KernelInv
<1>2. /\ Committable(a) /\ o \in OccasionIds
      /\ AttemptIds' = AttemptIds /\ OccasionIds' = OccasionIds
      /\ CommitIds' = CommitIds \cup {id}
      /\ id \notin CommitIds /\ id \in Nat /\ Len(commits') = id
      /\ \A c \in CommitIds : commits'[c] = commits[c] /\ c < id /\ c \in Nat \ {0}
      /\ commits'[id].parent = head /\ commits'[id].tick = tick + 1
      /\ commits'[id].occasion = o /\ commits'[id].attempt = a
      /\ commits'[id].wake_at = wake'
      /\ tick' = tick + 1 /\ head' = id
  BY <1>1, TransitionEffect
<1>3. \A p \in OccasionIds :
         /\ occasions'[p].key = occasions[p].key
         /\ occasions'[p].kind = occasions[p].kind
         /\ occasions'[p].payload = occasions[p].payload
         /\ occasions'[p].parent = occasions[p].parent
         /\ occasions'[p].consumed = IF p = o THEN id ELSE occasions[p].consumed
  BY <1>1, TransitionEffect
<1>4. /\ OnlyStatusChanges
      /\ attempts'[a].status = "committed"
      /\ \A i \in AttemptIds \ {a} :
            attempts'[i].status =
               IF attempts[i].parent = head /\ attempts[i].status = "reserved"
               THEN "superseded" ELSE attempts[i].status
  BY <1>1, TransitionEffect
<1>5. /\ attempts[a].status = "reserved" /\ attempts[a].parent = head
      /\ occasions[o].consumed = NoCommit
  BY <1>2 DEF Committable
<1>6. head = id - 1 /\ tick = head - 1 /\ head \in CommitIds /\ Genesis \in CommitIds
      /\ head \in Int
  BY <1>1, RowTypes DEF ChainInv, TypeOK, CommitIds, Genesis
<1>7. id # NoCommit /\ id # Genesis
  BY <1>2, <1>6 DEF NoCommit
<1>8. \A i \in AttemptIds :
         /\ attempts'[i].parent = attempts[i].parent
         /\ attempts'[i].tick = attempts[i].tick
         /\ attempts'[i].occasion = attempts[i].occasion
         /\ attempts'[i].observed_at = attempts[i].observed_at
         /\ attempts[i].status = "committed" => attempts'[i].status = "committed"
         /\ attempts'[i].status = "committed" => i = a \/ attempts[i].status = "committed"
         /\ attempts'[i].status # "reserved"
  <2>1. \A i \in AttemptIds : attempts[i].status = "reserved" => attempts[i].parent = head
    BY <1>1 DEF ReservationsAreLive
  <2>2. QED BY <1>4, <2>1 DEF OnlyStatusChanges
<1>9. \A p \in OccasionIds : occasions[p].parent \in CommitIds
                             /\ occasions[p].consumed \in CommitIds \cup {NoCommit}
  BY <1>1 DEF TypeOK
<1>10. \A i \in AttemptIds : attempts[i].parent \in CommitIds
                             /\ attempts[i].occasion \in OccasionIds
  BY <1>1 DEF TypeOK
<1> HIDE DEF id, o
<1>11. ChainInv'
  <2>1. ASSUME NEW c \in CommitIds \ {Genesis}
        PROVE  /\ commits'[c].parent = c - 1
               /\ commits'[c].attempt \in AttemptIds'
               /\ attempts'[commits'[c].attempt].parent = c - 1
               /\ attempts'[commits'[c].attempt].status = "committed"
               /\ commits'[c].occasion = attempts'[commits'[c].attempt].occasion
               /\ occasions'[commits'[c].occasion].consumed = c
    <3>1. /\ commits[c].parent = c - 1 /\ commits[c].attempt \in AttemptIds
          /\ attempts[commits[c].attempt].parent = c - 1
          /\ attempts[commits[c].attempt].status = "committed"
          /\ commits[c].occasion = attempts[commits[c].attempt].occasion
          /\ occasions[commits[c].occasion].consumed = c
      BY <1>1 DEF ChainInv
    <3>2. commits'[c] = commits[c] /\ c # NoCommit /\ commits[c].occasion \in OccasionIds
      BY <1>2, <1>10, <3>1 DEF NoCommit
    <3>3. commits[c].occasion # o
      BY <1>5, <3>1, <3>2
    <3>4. QED BY <1>2, <1>3, <1>8, <3>1, <3>2, <3>3
  <2>2. /\ commits'[id].parent = id - 1
        /\ commits'[id].attempt \in AttemptIds'
        /\ attempts'[commits'[id].attempt].parent = id - 1
        /\ attempts'[commits'[id].attempt].status = "committed"
        /\ commits'[id].occasion = attempts'[commits'[id].attempt].occasion
        /\ occasions'[commits'[id].occasion].consumed = id
    BY <1>2, <1>3, <1>4, <1>5, <1>6, <1>8 DEF o
  <2>3. \A c \in CommitIds' : commits'[c].tick = c - 1
    BY <1>1, <1>2, <1>6 DEF ChainInv
  <2>4. /\ head' = Len(commits)' /\ tick' = head' - 1 /\ wake' = commits'[head'].wake_at
        /\ commits'[Genesis].parent = NoCommit /\ commits'[Genesis].wake_at = NoTime
        /\ commits'[Genesis].attempt = NoRow
    BY <1>1, <1>2, <1>6 DEF ChainInv
  <2>5. QED BY <1>2, <2>1, <2>2, <2>3, <2>4 DEF ChainInv
<1>12. InboxInv'
  <2>1. ASSUME NEW p \in OccasionIds
        PROVE  /\ \A q \in OccasionIds : occasions'[p].key = occasions'[q].key => p = q
               /\ MessageNext(p) => occasions'[p].key[1] # "wake"
               /\ ~MessageNext(p) =>
                     /\ occasions'[p].key = WakeKey(occasions'[p].parent)
                     /\ occasions'[p].payload = commits'[occasions'[p].parent].wake_at
                     /\ occasions'[p].payload # NoTime
    BY <1>1, <1>2, <1>3, <1>9 DEF InboxInv, Message, MessageNext
  <2>2. ASSUME NEW p \in OccasionIds, occasions'[p].consumed # NoCommit
        PROVE  /\ occasions'[p].parent < occasions'[p].consumed
               /\ commits'[occasions'[p].consumed].occasion = p
               /\ ~MessageNext(p) => occasions'[p].consumed = occasions'[p].parent + 1
    <3>1. CASE p = o
      <4>1. occasions'[p].consumed = id /\ occasions'[p].parent = occasions[p].parent
        BY <1>3, <3>1
      <4>2. ~MessageNext(p) => occasions[p].parent = head
        BY <1>1, <1>3, <1>5, <3>1 DEF AttemptsInv, Message, MessageNext, o
      <4>3. occasions[p].parent < id
        BY <1>2, <1>9
      <4>4. commits'[id].occasion = p
        BY <1>2, <3>1
      <4>5. id = head + 1
        BY <1>2, <1>6
      <4>6. QED BY <4>1, <4>2, <4>3, <4>4, <4>5
    <3>2. CASE p # o
      <4>1. occasions'[p].consumed = occasions[p].consumed
        BY <1>3, <3>2
      <4>2. occasions[p].consumed \in CommitIds
        BY <1>9, <2>2, <4>1
      <4>3. QED BY <1>1, <1>2, <1>3, <2>2, <4>1, <4>2 DEF InboxInv, Message, MessageNext
    <3>3. QED BY <3>1, <3>2
  <2>3. QED BY <1>2, <2>1, <2>2 DEF InboxInv, Message, MessageNext
<1>13. InboxOrder'
  <2>1. ASSUME NEW p \in OccasionIds, NEW q \in OccasionIds, Message(p), Message(q),
               p < q, occasions'[q].consumed # NoCommit
        PROVE  /\ occasions'[p].consumed # NoCommit
               /\ occasions'[p].consumed < occasions'[q].consumed
    <3>1. CASE q = o
      <4>1. occasions[p].consumed # NoCommit
        BY <1>1, <2>1, <3>1 DEF AttemptsInv, o
      <4>2. p # o
        BY <1>5, <4>1
      <4>3. occasions'[p].consumed = occasions[p].consumed /\ occasions[p].consumed \in CommitIds
        BY <1>3, <1>9, <4>1, <4>2
      <4>4. occasions'[q].consumed = id
        BY <1>3, <3>1
      <4>5. QED BY <1>2, <4>1, <4>3, <4>4
    <3>2. CASE q # o
      <4>1. occasions'[q].consumed = occasions[q].consumed
        BY <1>3, <3>2
      <4>2. /\ occasions[p].consumed # NoCommit
            /\ occasions[p].consumed < occasions[q].consumed
        BY <1>1, <2>1, <4>1 DEF InboxOrder
      <4>3. p # o
        BY <1>5, <4>2
      <4>4. QED BY <1>3, <4>1, <4>2, <4>3
    <3>3. QED BY <3>1, <3>2
  <2>2. \A p, q \in OccasionIds : occasions'[p].key = occasions'[q].key => p = q
    BY <1>1, <1>3 DEF InboxInv
  <2>3. QED BY <1>2, <1>3, <2>1, <2>2 DEF InboxOrder, Message
<1>14. AttemptsInv'
  <2>1. ASSUME NEW i \in AttemptIds
        PROVE  LET q == attempts[i].occasion
               IN  /\ attempts'[i].tick = attempts'[i].parent - 1
                   /\ ~Message(q) => /\ occasions'[q].parent = attempts'[i].parent
                                     /\ attempts'[i].observed_at >= occasions'[q].payload
                   /\ Message(q) => \A p \in OccasionIds :
                                       p < q /\ Message(p) => occasions'[p].consumed # NoCommit
                   /\ attempts'[i].status = "committed" => occasions'[q].consumed # NoCommit
    <3> DEFINE q == attempts[i].occasion
    <3>1. q \in OccasionIds
      BY <1>10
    <3>2. /\ attempts[i].tick = attempts[i].parent - 1
          /\ ~Message(q) => /\ occasions[q].parent = attempts[i].parent
                            /\ attempts[i].observed_at >= occasions[q].payload
          /\ Message(q) => \A p \in OccasionIds :
                              p < q /\ Message(p) => occasions[p].consumed # NoCommit
          /\ attempts[i].status = "committed" => occasions[q].consumed # NoCommit
      BY <1>1 DEF AttemptsInv
    <3>3. i = a => q = o
      BY DEF o
    <3> HIDE DEF q
    <3>4. QED BY <1>3, <1>7, <1>8, <3>1, <3>2, <3>3 DEF q
  <2>2. QED BY <1>2, <1>3, <1>8, <1>10, <2>1 DEF AttemptsInv, Message
<1>15. ReservationsAreLive'
  BY <1>2, <1>8 DEF ReservationsAreLive
<1>16. QED BY <1>11, <1>12, <1>13, <1>14, <1>15 DEF StoreInv

\* Store::create establishes the invariant.
LEMMA InitStoreInv == Init => StoreInv
<1> SUFFICES ASSUME NEW now \in Instants, Create(now) PROVE StoreInv
  BY DEF Init
<1>1. KernelInv
  BY InitKernelInv DEF Init
<1>2. /\ tick = 0 /\ head = 1 /\ wake = NoTime /\ Len(attempts) = 0
      /\ Len(commits) = 1 /\ Len(occasions) = 1
      /\ commits[1].parent = NoCommit /\ commits[1].tick = 0 /\ commits[1].wake_at = NoTime
      /\ commits[1].attempt = NoRow
      /\ occasions[1].key = <<"system", NoRow>> /\ occasions[1].kind = "created"
      /\ occasions[1].consumed = NoCommit
  BY DEF Create, Genesis, CreatedKey
<1>3. AttemptIds = {} /\ CommitIds = {1} /\ OccasionIds = {1}
  BY <1>2 DEF AttemptIds, CommitIds, OccasionIds
<1>4. ChainInv
  BY <1>2, <1>3 DEF ChainInv, Genesis
<1>5. InboxInv
  BY <1>2, <1>3 DEF InboxInv, Message
<1>6. AttemptsInv /\ ReservationsAreLive
  BY <1>3 DEF AttemptsInv, ReservationsAreLive
<1>7. InboxOrder
  BY <1>3 DEF InboxOrder
<1>8. QED BY <1>1, <1>4, <1>5, <1>6, <1>7 DEF StoreInv

\* Every transaction of the store preserves the invariant.
LEMMA NextStoreInv == StoreInv /\ [Next]_vars => StoreInv'
<1> SUFFICES ASSUME StoreInv, [Next]_vars PROVE StoreInv'
  OBVIOUS
<1>1. KernelInv /\ TypeOK
  BY DEF StoreInv, KernelInv
<1>2. KernelInv'
  BY <1>1, NextKernelInv
<1>3. CASE UNCHANGED vars
  <2>1. ChainInv'
    BY <1>3 DEF StoreInv, ChainInv, vars, AttemptIds, CommitIds
  <2>2. InboxInv' /\ InboxOrder'
    BY <1>3 DEF StoreInv, InboxInv, InboxOrder, vars, OccasionIds, Message
  <2>3. AttemptsInv' /\ ReservationsAreLive'
    BY <1>3 DEF StoreInv, AttemptsInv, ReservationsAreLive, vars, AttemptIds, OccasionIds,
                Message
  <2>4. QED BY <1>2, <2>1, <2>2, <2>3 DEF StoreInv
<1>4. CASE \E key \in Keys, payload \in Payloads : Submit(key, payload)
  BY <1>4, SubmitStoreInv
<1>5. CASE \E observed \in Instants, maintenance \in MaintenanceModes :
              Admit(observed, maintenance)
  BY <1>5, AdmitStoreInv
<1>6. CASE \E a \in AttemptIds, status \in {"failed", "abstained"} : Lapse(a, status)
  BY <1>2, <1>6, LapseStoreInv
<1>7. CASE \E a \in AttemptIds, now \in Instants, request \in Nat \cup {NoTime},
              disposition \in SUBSET Nat : Transition(a, now, request, disposition)
  BY <1>2, <1>7, TransitionStoreInv DEF Transition
<1>8. QED BY <1>1, <1>3, <1>4, <1>5, <1>6, <1>7, StepCases

\* The store's inductive invariant holds in every state of every behaviour.
LEMMA StoreInvHolds == Spec => []StoreInv
BY InitStoreInv, NextStoreInv, PTL DEF Spec

\* A reservation can still win: no commit of any worker leaves one of an older
\* head behind, and no failure or abstention consumes its occasion.
THEOREM ReservationsStayLive == Spec => []ReservationsAreLive
<1>1. StoreInv => ReservationsAreLive
  BY DEF StoreInv
<1>2. QED BY <1>1, StoreInvHolds, PTL

\* Keys are unique, and messages are settled in the order of the inbox, each by
\* a later commit than the one before.
THEOREM InboxIsOrdered == Spec => []InboxOrder
<1>1. StoreInv => InboxOrder
  BY DEF StoreInv
<1>2. QED BY <1>1, StoreInvHolds, PTL

\* A wake that ran advanced the very commit that armed it, after its admitting
\* worker observed the deadline.
THEOREM WakesAreCurrentAndDue == Spec => []WakeIsCurrentAndDue
<1>1. ASSUME StoreInv, NEW c \in CommitIds \ {Genesis},
             occasions[commits[c].occasion].kind = "scheduled"
      PROVE  /\ occasions[commits[c].occasion].parent = commits[c].parent
             /\ commits[commits[c].parent].wake_at # NoTime
             /\ attempts[commits[c].attempt].observed_at >= commits[commits[c].parent].wake_at
  <2> DEFINE o == commits[c].occasion
             a == commits[c].attempt
  <2>1. /\ commits[c].parent = c - 1 /\ a \in AttemptIds
        /\ attempts[a].parent = c - 1 /\ o = attempts[a].occasion
    BY <1>1 DEF StoreInv, ChainInv
  <2>2. o \in OccasionIds /\ ~Message(o)
    BY <1>1, <2>1 DEF StoreInv, KernelInv, TypeOK, Message
  <2> HIDE DEF o, a
  <2>3. occasions[o].parent = c - 1 /\ attempts[a].observed_at >= occasions[o].payload
    BY <1>1, <2>1, <2>2 DEF StoreInv, AttemptsInv
  <2>4. occasions[o].payload = commits[c - 1].wake_at /\ occasions[o].payload # NoTime
    BY <1>1, <2>2, <2>3 DEF StoreInv, InboxInv
  <2>5. QED BY <2>1, <2>3, <2>4 DEF o, a
<1>2. StoreInv => WakeIsCurrentAndDue
  BY <1>1 DEF WakeIsCurrentAndDue
<1>3. QED BY <1>2, StoreInvHolds, PTL

-----------------------------------------------------------------------------
(* The store implements the ledger.                                        *)

\* A sequence that extends another by one element is its Append.
LEMMA ExtendedSeq ==
    ASSUME NEW S, NEW s \in Seq(S), NEW t \in Seq(S), Len(t) = Len(s) + 1,
           \A i \in 1 .. Len(s) : t[i] = s[i]
    PROVE  t = Append(s, t[Len(s) + 1])
<1>1. t[Len(s) + 1] \in S
  OBVIOUS
<1>2. /\ Append(s, t[Len(s) + 1]) \in Seq(S)
      /\ Len(Append(s, t[Len(s) + 1])) = Len(t)
      /\ \A i \in 1 .. Len(s) : Append(s, t[Len(s) + 1])[i] = s[i]
      /\ Append(s, t[Len(s) + 1])[Len(s) + 1] = t[Len(s) + 1]
  BY <1>1, AppendRow
<1>3. \A i \in 1 .. Len(t) : i \in 1 .. Len(s) \/ i = Len(s) + 1
  OBVIOUS
<1>4. QED BY <1>2, <1>3, SeqEqual

\* The committed history has an entry for each commit after genesis.
LEMMA HistoryProperties ==
    ASSUME StoreInv
    PROVE  /\ CommittedHistory \in Seq(Nat)
           /\ Len(CommittedHistory) = Len(commits) - 1
           /\ \A i \in 1 .. Len(commits) - 1 : CommittedHistory[i] = HistoryEntry(i + 1)
           /\ DOMAIN CommittedHistory = 1 .. Len(commits) - 1
           /\ Len(commits) \in Nat \ {0}
           /\ \A c \in CommitIds \ {Genesis} : commits[c].occasion \in OccasionIds
<1>1. Len(commits) \in Nat \ {0}
  BY RowTypes DEF StoreInv, KernelInv, TypeOK, CommitIds
<1>2. \A c \in CommitIds \ {Genesis} : commits[c].occasion \in OccasionIds
  BY DEF StoreInv, ChainInv, KernelInv, TypeOK
<1>3. \A i \in 1 .. Len(commits) - 1 : HistoryEntry(i + 1) \in Nat
  <2>1. ASSUME NEW i \in 1 .. Len(commits) - 1 PROVE i + 1 \in CommitIds \ {Genesis}
    BY <1>1 DEF CommitIds, Genesis
  <2>2. QED BY <1>2, <2>1 DEF HistoryEntry, OccasionIds
<1>4. CommittedHistory \in [1 .. Len(commits) - 1 -> Nat]
  BY <1>3 DEF CommittedHistory
<1>5. Len(commits) - 1 \in Nat
  BY <1>1
<1>6. CommittedHistory \in Seq(Nat) /\ Len(CommittedHistory) = Len(commits) - 1
      /\ DOMAIN CommittedHistory = 1 .. Len(commits) - 1
  BY <1>4, <1>5, SeqIntro
<1>7. QED BY <1>1, <1>2, <1>6 DEF CommittedHistory

\* A message is settled in the ledger exactly when its row is consumed.
LEMMA SettledAreConsumed ==
    ASSUME StoreInv, NEW o \in OccasionIds, Message(o)
    PROVE  o \in L!SettledMessages <=> occasions[o].consumed # NoCommit
<1>1. o # 0 /\ o \in Nat
  BY DEF OccasionIds
<1>2. /\ \A i \in 1 .. Len(commits) - 1 : CommittedHistory[i] = HistoryEntry(i + 1)
      /\ DOMAIN CommittedHistory = 1 .. Len(commits) - 1
      /\ Len(commits) \in Nat \ {0}
  BY HistoryProperties
<1>3. ASSUME NEW i \in 1 .. Len(commits) - 1, HistoryEntry(i + 1) = o
      PROVE  occasions[o].consumed # NoCommit
  <2>1. commits[i + 1].occasion = o
    BY <1>1, <1>3 DEF HistoryEntry
  <2>2. i + 1 \in CommitIds \ {Genesis}
    BY <1>2 DEF CommitIds, Genesis
  <2>3. occasions[o].consumed = i + 1
    BY <2>1, <2>2 DEF StoreInv, ChainInv
  <2>4. QED BY <2>3 DEF NoCommit
<1>4. ASSUME occasions[o].consumed # NoCommit
      PROVE  \E i \in 1 .. Len(commits) - 1 : HistoryEntry(i + 1) = o
  <2> DEFINE c == occasions[o].consumed
  <2>1. c \in CommitIds /\ occasions[o].parent \in CommitIds
        /\ occasions[o].parent < c /\ commits[c].occasion = o
    BY <1>4 DEF StoreInv, KernelInv, TypeOK, InboxInv
  <2>2. HistoryEntry(c) = o
    BY <2>1 DEF HistoryEntry
  <2>3. c - 1 \in 1 .. Len(commits) - 1 /\ (c - 1) + 1 = c
    <3> HIDE DEF c
    <3> QED BY <1>2, <2>1 DEF CommitIds
  <2> HIDE DEF c
  <2>4. QED BY <2>2, <2>3
<1>5. o \in L!SettledMessages <=> \E i \in 1 .. Len(commits) - 1 : HistoryEntry(i + 1) = o
  BY <1>1, <1>2 DEF L!SettledMessages, L!Wake
<1>6. QED BY <1>3, <1>4, <1>5

\* A step that leaves the commits and the messages of the inbox alone is
\* invisible in the ledger.
LEMMA InvisibleStep ==
    ASSUME StoreInv, UNCHANGED <<wake, commits>>, OccasionIds \subseteq OccasionIds',
           \A o \in OccasionIds : occasions'[o].kind = occasions[o].kind
    PROVE  UNCHANGED <<CommittedHistory, wake # NoTime>>
<1>1. \A c \in CommitIds \ {Genesis} : commits[c].occasion \in OccasionIds
  BY HistoryProperties
<1>2. Len(commits) \in Nat \ {0}
  BY HistoryProperties
<1>3. ASSUME NEW i \in 1 .. Len(commits) - 1 PROVE HistoryEntry(i + 1)' = HistoryEntry(i + 1)
  <2>1. i + 1 \in CommitIds \ {Genesis}
    BY <1>2 DEF CommitIds, Genesis
  <2>2. QED BY <1>1, <2>1 DEF HistoryEntry, Message
<1>4. QED BY <1>3 DEF CommittedHistory

\* Submit accepts a message, or repeats one.
LEMMA SubmitRefines ==
    ASSUME StoreInv, NEW key \in Keys, NEW payload \in Payloads, Submit(key, payload)
    PROVE  L!Accept \/ UNCHANGED L!ledgerVars
<1>1. TypeOK
  BY DEF StoreInv, KernelInv
<1>2. UNCHANGED <<wake, commits>>
  BY <1>1, SubmitCases
<1>3. CASE UNCHANGED occasions
  <2>1. UNCHANGED <<CommittedHistory, wake # NoTime>>
    BY <1>2, <1>3, InvisibleStep DEF OccasionIds
  <2>2. AcceptedMessages' = AcceptedMessages
    BY <1>3 DEF AcceptedMessages, OccasionIds, Message
  <2>3. QED BY <2>1, <2>2 DEF L!ledgerVars
<1>4. CASE InboxGrows(UserKey(key), "external", payload)
  <2> DEFINE n == Len(occasions) + 1
  <2>1. /\ OccasionIds' = OccasionIds \cup {n}
        /\ \A o \in OccasionIds : occasions'[o] = occasions[o] /\ o < n
        /\ occasions'[n].kind = "external"
    BY <1>4 DEF InboxGrows
  <2> HIDE DEF n
  <2>2. UNCHANGED <<CommittedHistory, wake # NoTime>>
    BY <1>2, <2>1, InvisibleStep
  <2>3. AcceptedMessages' = AcceptedMessages \cup {n} /\ \A o \in AcceptedMessages : o < n
    BY <2>1 DEF AcceptedMessages, Message
  <2>4. QED BY <2>2, <2>3 DEF L!Accept
<1>5. QED BY <1>1, <1>3, <1>4, SubmitCases

\* Admit is invisible, also when it materialises a due wake.
LEMMA AdmitRefines ==
    ASSUME StoreInv, NEW observed \in Instants, NEW maintenance \in MaintenanceModes,
           Admit(observed, maintenance)
    PROVE  UNCHANGED L!ledgerVars
<1>1. /\ UNCHANGED <<wake, commits>>
      /\ UNCHANGED occasions \/ InboxGrows(WakeKey(head), "scheduled", wake)
  BY AdmitCases DEF StoreInv
<1>2. CASE UNCHANGED occasions
  <2>1. UNCHANGED <<CommittedHistory, wake # NoTime>>
    BY <1>1, <1>2, InvisibleStep DEF OccasionIds
  <2>2. AcceptedMessages' = AcceptedMessages
    BY <1>2 DEF AcceptedMessages, OccasionIds, Message
  <2>3. QED BY <2>1, <2>2 DEF L!ledgerVars
<1>3. CASE InboxGrows(WakeKey(head), "scheduled", wake)
  <2> DEFINE n == Len(occasions) + 1
  <2>1. /\ OccasionIds' = OccasionIds \cup {n}
        /\ \A o \in OccasionIds : occasions'[o] = occasions[o]
        /\ occasions'[n].kind = "scheduled"
    BY <1>3 DEF InboxGrows
  <2> HIDE DEF n
  <2>2. UNCHANGED <<CommittedHistory, wake # NoTime>>
    BY <1>1, <2>1, InvisibleStep
  <2>3. AcceptedMessages' = AcceptedMessages
    BY <2>1 DEF AcceptedMessages, Message
  <2>4. QED BY <2>2, <2>3 DEF L!ledgerVars
<1>4. QED BY <1>1, <1>2, <1>3

\* A commit or a disposition delivers the oldest unsettled message, or fires
\* the wake of the current head.
LEMMA TransitionRefines ==
    ASSUME StoreInv, StoreInv', NEW a \in AttemptIds, NEW now \in Instants,
           NEW request \in Nat \cup {NoTime}, NEW disposition \in SUBSET Nat,
           CommitLocked(a, now, request, disposition)
    PROVE  L!Fire \/ \E m \in AcceptedMessages : L!Deliver(m)
<1> DEFINE o == attempts[a].occasion
           id == Len(commits) + 1
<1>1. KernelInv
  BY DEF StoreInv
<1>2. /\ Committable(a) /\ o \in OccasionIds /\ OccasionIds' = OccasionIds
      /\ Len(commits') = id /\ commits'[id].occasion = o
      /\ \A c \in CommitIds : commits'[c] = commits[c]
  BY <1>1, TransitionEffect
<1>3. \A p \in OccasionIds : occasions'[p].kind = occasions[p].kind
  BY <1>1, TransitionEffect
<1>4. /\ occasions[o].consumed = NoCommit /\ attempts[a].parent = head
  BY <1>2 DEF Committable
<1>5. AcceptedMessages' = AcceptedMessages
  BY <1>2, <1>3 DEF AcceptedMessages, Message
<1> HIDE DEF o, id
<1> DEFINE entry == IF Message(o) THEN o ELSE 0
<1>6. CommittedHistory' = Append(CommittedHistory, entry)
  <2>1. PICK n : n = Len(commits)
    OBVIOUS
  <2>2. /\ CommittedHistory \in Seq(Nat) /\ Len(CommittedHistory) = n - 1
        /\ \A i \in 1 .. n - 1 : CommittedHistory[i] = HistoryEntry(i + 1)
        /\ n \in Nat \ {0}
        /\ \A c \in CommitIds \ {Genesis} : commits[c].occasion \in OccasionIds
    BY <2>1, HistoryProperties
  <2>3. Len(commits') = n + 1 /\ id = n + 1
    BY <1>2, <2>1 DEF id
  <2>4. ASSUME NEW i \in 1 .. n - 1 PROVE HistoryEntry(i + 1)' = CommittedHistory[i]
    <3>1. i + 1 \in CommitIds \ {Genesis}
      BY <2>1, <2>2 DEF CommitIds, Genesis
    <3>2. HistoryEntry(i + 1)' = HistoryEntry(i + 1)
      BY <1>2, <1>3, <2>2, <3>1 DEF HistoryEntry, Message
    <3>3. QED BY <2>2, <3>2
  <2>5. HistoryEntry(n + 1)' = entry /\ entry \in Nat
    BY <1>2, <1>3, <2>3 DEF HistoryEntry, Message, OccasionIds
  <2>6. CommittedHistory' = [i \in 1 .. n |-> HistoryEntry(i + 1)']
    BY <2>2, <2>3 DEF CommittedHistory
  <2> HIDE DEF entry
  <2>7. \A i \in 1 .. n : HistoryEntry(i + 1)' = IF i = n THEN entry ELSE CommittedHistory[i]
    BY <2>2, <2>4, <2>5
  <2>8. \A i \in 1 .. n - 1 : CommittedHistory[i] \in Nat
    BY <2>2
  <2>9. \A i \in 1 .. n : CommittedHistory'[i] = IF i = n THEN entry ELSE CommittedHistory[i]
    BY <2>6, <2>7
  <2>10. CommittedHistory' \in [1 .. n -> Nat]
    <3>1. \A i \in 1 .. n : HistoryEntry(i + 1)' \in Nat
      <4>1. ASSUME NEW i \in 1 .. n PROVE HistoryEntry(i + 1)' \in Nat
        <5>1. CASE i = n
          BY <2>5, <5>1
        <5>2. CASE i # n
          <6>1. i \in 1 .. n - 1
            BY <2>2, <5>2
          <6>2. QED BY <2>4, <2>8, <6>1
        <5>3. QED BY <5>1, <5>2
      <4>2. QED BY <4>1
    <3>2. QED BY <2>6, <3>1
  <2>11. CommittedHistory' \in Seq(Nat) /\ Len(CommittedHistory') = n
    BY <2>2, <2>10, SeqIntro
  <2>12. CommittedHistory' = Append(CommittedHistory, CommittedHistory'[Len(CommittedHistory) + 1])
    BY <2>2, <2>9, <2>11, ExtendedSeq
  <2>13. QED BY <2>2, <2>9, <2>12
<1>7. (wake # NoTime)' \in BOOLEAN
  OBVIOUS
<1>8. CASE Message(o)
  <2>1. o \in AcceptedMessages
    BY <1>2, <1>8 DEF AcceptedMessages
  <2>2. o \notin L!SettledMessages
    BY <1>2, <1>4, <1>8, SettledAreConsumed
  <2>3. \A n \in AcceptedMessages : n < o => n \in L!SettledMessages
    <3>1. SUFFICES ASSUME NEW n \in OccasionIds, Message(n), n < o
                   PROVE  n \in L!SettledMessages
      BY DEF AcceptedMessages
    <3>2. occasions[n].consumed # NoCommit
      BY <1>8, <3>1 DEF StoreInv, AttemptsInv, o
    <3>3. QED BY <3>1, <3>2, SettledAreConsumed
  <2>4. L!Deliver(o)
    BY <1>5, <1>6, <1>7, <1>8, <2>2, <2>3 DEF L!Deliver
  <2>5. QED BY <2>1, <2>4
<1>9. CASE ~Message(o)
  <2>1. occasions[o].parent = head
    BY <1>4, <1>9 DEF StoreInv, AttemptsInv, o
  <2>2. wake # NoTime
    BY <1>2, <1>9, <2>1 DEF StoreInv, InboxInv, ChainInv
  <2>3. QED BY <1>5, <1>6, <1>7, <1>9, <2>2 DEF L!Fire, L!Wake
<1>10. QED BY <1>8, <1>9

\* Whatever workers, clocks and failures do, the chain of commits is a ledger:
\* messages are settled once each, in the order in which they were accepted,
\* and a wake advances only the transition that armed it.
THEOREM StoreImplementsLedger == Spec => ImplementsLedger
<1>1. Init => L!LedgerInit
  <2> SUFFICES ASSUME NEW now \in Instants, Create(now) PROVE L!LedgerInit
    BY DEF Init
  <2>1. Len(commits) = 1 /\ Len(occasions) = 1 /\ occasions[1].kind = "created" /\ wake = NoTime
    BY DEF Create
  <2>2. AcceptedMessages = {1}
    BY <2>1 DEF AcceptedMessages, OccasionIds, Message
  <2>3. CommittedHistory = <<>>
    <3>1. StoreInv
      BY InitStoreInv DEF Init
    <3>2. CommittedHistory \in Seq(Nat) /\ Len(CommittedHistory) = 0
      BY <2>1, <3>1, HistoryProperties
    <3>3. QED BY <3>2, EmptySeq
  <2>4. QED BY <2>1, <2>2, <2>3 DEF L!LedgerInit
<1>2. ASSUME StoreInv, [Next]_vars PROVE [L!LedgerNext]_(L!ledgerVars)
  <2>1. TypeOK
    BY <1>2 DEF StoreInv, KernelInv
  <2>2. StoreInv'
    BY <1>2, NextStoreInv
  <2>3. ASSUME UNCHANGED <<wake, commits, occasions>> PROVE UNCHANGED L!ledgerVars
    <3>1. UNCHANGED <<CommittedHistory, wake # NoTime>>
      BY <1>2, <2>3, InvisibleStep DEF OccasionIds
    <3>2. AcceptedMessages' = AcceptedMessages
      BY <2>3 DEF AcceptedMessages, OccasionIds, Message
    <3>3. QED BY <3>1, <3>2 DEF L!ledgerVars
  <2>4. CASE UNCHANGED vars
    BY <2>3, <2>4 DEF vars
  <2>5. CASE \E key \in Keys, payload \in Payloads : Submit(key, payload)
    BY <1>2, <2>5, SubmitRefines DEF L!LedgerNext
  <2>6. CASE \E observed \in Instants, maintenance \in MaintenanceModes :
                Admit(observed, maintenance)
    BY <1>2, <2>6, AdmitRefines
  <2>7. CASE \E a \in AttemptIds, status \in {"failed", "abstained"} : Lapse(a, status)
    BY <2>3, <2>7 DEF Lapse
  <2>8. CASE \E a \in AttemptIds, now \in Instants, request \in Nat \cup {NoTime},
                disposition \in SUBSET Nat : Transition(a, now, request, disposition)
    BY <1>2, <2>2, <2>8, TransitionRefines DEF Transition, L!LedgerNext
  <2>9. QED BY <1>2, <2>1, <2>4, <2>5, <2>6, <2>7, <2>8, StepCases
<1>3. QED BY <1>1, <1>2, StoreInvHolds, PTL DEF Spec, ImplementsLedger, L!LedgerSpec

-----------------------------------------------------------------------------
(* A disposition keeps the pending wake.                                   *)

\* Only the quota can postpone an admission past the longest wake.
LEMMA EligibleBound ==
    ASSUME KernelInv, NEW now \in Nat, now >= accounting_wall
    PROVE  LET e == LiveBudget(AdmittedAt(Len(attempts)), now).eligible_at
               source == Len(attempts) - MaxAttempts + 1
           IN  /\ e \in Nat
               /\ \/ e <= now + MaxWake
                  \/ source \in AttemptIds /\ e = attempts[source].admitted_at + Period
<1> DEFINE at == AdmittedAt(Len(attempts))
           n == Len(attempts)
           source == n - MaxAttempts + 1
           b == LiveBudget(at, now)
<1>1. TypeOK /\ AdmissionsInv /\ n \in Nat /\ accounting_wall \in Nat
  BY RowTypes, LimitsAssumption DEF KernelInv, TypeOK, Instants
<1>2. /\ at \in Seq(Nat) /\ Nondecreasing(at) /\ Len(at) = n
      /\ \A i \in AttemptIds : at[i] = attempts[i].admitted_at /\ at[i] \in Nat
  BY <1>1, AdmittedAtProperties, AdmissionInstants
<1>3. /\ b.floor_at = IF Len(at) = 0 THEN now ELSE Later(now, at[Len(at)] + MinWake)
      /\ b.quota_at = IF Len(at) - MaxAttempts + 1 > 0
                         /\ at[Len(at) - MaxAttempts + 1] + Period > now
                      THEN at[Len(at) - MaxAttempts + 1] + Period ELSE now
      /\ b.eligible_at = Later(b.floor_at, b.quota_at)
  BY <1>2, LiveBudgetClosedForm
<1> HIDE DEF b, at
<1>4. n > 0 => n \in AttemptIds /\ at[n] <= accounting_wall
  BY <1>1, <1>2 DEF AttemptIds, AdmissionsInv
<1>5. source > 0 => source \in AttemptIds
  BY <1>1, LimitsAssumption DEF AttemptIds
<1>6. b.floor_at \in Nat /\ b.floor_at <= now + MaxWake
  BY <1>1, <1>2, <1>3, <1>4, LimitsAssumption DEF Later
<1>7. \/ b.quota_at = now
      \/ source \in AttemptIds /\ b.quota_at = attempts[source].admitted_at + Period
  BY <1>2, <1>3, <1>5
<1>8. b.quota_at \in Nat
  BY <1>1, <1>7, AdmissionInstants, LimitsAssumption
<1>9. b.eligible_at \in Nat /\ (b.eligible_at <= now + MaxWake \/ b.eligible_at = b.quota_at)
  BY <1>3, <1>6, <1>8, LimitsAssumption DEF Later
<1>10. now <= now + MaxWake
  BY LimitsAssumption
<1>11. QED BY <1>7, <1>9, <1>10 DEF b, at

\* Every store operation keeps the bound on the wake.
LEMMA NextWakeBound == StoreInv /\ WakeBound /\ [Next]_vars => WakeBound'
<1> SUFFICES ASSUME StoreInv, WakeBound, [Next]_vars PROVE WakeBound'
  OBVIOUS
<1> DEFINE n == Len(attempts)
           source == n - MaxAttempts + 1
<1>1. KernelInv /\ TypeOK /\ n \in Nat
  BY RowTypes DEF StoreInv, KernelInv
<1>2. wake \in Int /\ accounting_wall \in Nat /\ MaxWake \in Nat
  BY <1>1, LimitsAssumption DEF TypeOK, Instants, NoTime
<1>3. ASSUME Len(attempts') = n, UNCHANGED <<wake, accounting_wall, head>>,
             \A i \in AttemptIds : /\ attempts'[i].parent = attempts[i].parent
                                   /\ attempts'[i].admitted_at = attempts[i].admitted_at
      PROVE  WakeBound'
  <2>1. AttemptIds' = AttemptIds /\ (source > 0 => source \in AttemptIds)
    BY <1>1, <1>3, LimitsAssumption DEF AttemptIds
  <2>2. QED BY <1>3, <2>1 DEF WakeBound
<1>4. CASE UNCHANGED vars
  BY <1>3, <1>4 DEF vars
<1>5. CASE \E key \in Keys, payload \in Payloads : Submit(key, payload)
  BY <1>3, <1>5 DEF Submit
<1>6. CASE \E observed \in Instants, maintenance \in MaintenanceModes :
              Admit(observed, maintenance)
  <2>1. PICK observed \in Instants, maintenance \in MaintenanceModes :
              Admit(observed, maintenance)
    BY <1>6
  <2>2. accounting_wall' = Accounting(observed) /\ UNCHANGED wake
    BY <2>1 DEF Admit
  <2>3. Accounting(observed) \in Nat /\ Accounting(observed) >= accounting_wall
    BY <1>1, AccountingProperties, LimitsAssumption DEF Instants
  <2>4. n >= MaxAttempts => attempts[source].admitted_at + Period <= Accounting(observed)
    BY <1>1, <2>1, AdmissionIsSpaced DEF Admit
  <2>5. source > 0 => n >= MaxAttempts /\ attempts[source].admitted_at \in Nat
    <3>1. source > 0 => n >= MaxAttempts /\ source \in AttemptIds
      BY <1>1, LimitsAssumption DEF AttemptIds
    <3>2. QED BY <1>1, <3>1, AdmissionInstants
  <2>6. wake # NoTime => wake <= accounting_wall + MaxWake \/ wake <= Accounting(observed)
    <3>1. \/ wake = NoTime \/ wake <= accounting_wall + MaxWake
          \/ source > 0 /\ wake <= attempts[source].admitted_at + Period
      BY DEF WakeBound
    <3> HIDE DEF source
    <3>2. QED BY <1>2, <2>3, <2>4, <2>5, <3>1, LimitsAssumption
  <2>7. wake # NoTime => wake <= Accounting(observed) + MaxWake
    BY <1>2, <2>3, <2>6
  <2>8. QED BY <2>2, <2>7 DEF WakeBound
<1>7. CASE \E a \in AttemptIds, status \in {"failed", "abstained"} : Lapse(a, status)
  BY <1>3, <1>7 DEF Lapse, OnlyStatusChanges
<1>8. CASE \E a \in AttemptIds, now \in Instants, request \in Nat \cup {NoTime},
              disposition \in SUBSET Nat : Transition(a, now, request, disposition)
  <2>1. PICK a \in AttemptIds, now \in Instants, request \in Nat \cup {NoTime},
             disposition \in SUBSET Nat : CommitLocked(a, now, request, disposition)
    BY <1>8 DEF Transition
  <2> DEFINE t == CommitInstant(a, now)
             e == LiveBudget(AdmittedAt(n), t).eligible_at
             id == Len(commits) + 1
  <2>2. /\ wake' = CommitPlan(a, now, request).granted_at /\ head' = id
        /\ accounting_wall' = t /\ OnlyStatusChanges /\ AttemptIds' = AttemptIds
        /\ id \notin CommitIds
    BY <1>1, <2>1, TransitionEffect
  <2>3. wake' = Granted(t, request, LiveBudget(AdmittedAt(n), t))
    BY <2>2 DEF CommitPlan, WakePlan
  <2>4. t \in Nat /\ t >= accounting_wall
    BY <1>1, CommitInstantProperties, LimitsAssumption DEF Instants
  <2>5. e \in Nat /\ (\/ e <= t + MaxWake
                      \/ source \in AttemptIds /\ e = attempts[source].admitted_at + Period)
    BY <1>1, <2>4, EligibleBound
  <2>6. \A i \in AttemptIds : attempts'[i].parent # head'
    BY <1>1, <2>2 DEF OnlyStatusChanges, TypeOK
  <2>7. source \in AttemptIds =>
           source > 0 /\ attempts'[source].admitted_at = attempts[source].admitted_at
    BY <2>2 DEF OnlyStatusChanges, AttemptIds
  <2>8. request # NoTime => wake' <= t + MaxWake \/ wake' = e
    BY <2>3, <2>4, <2>5, LimitsAssumption DEF Granted, Later
  <2>9. request = NoTime => wake' = NoTime
    BY <2>3 DEF Granted
  <2>10. Len(attempts') = n
    BY <2>2 DEF OnlyStatusChanges
  <2> HIDE DEF t, e
  <2>11. \/ wake' = NoTime
         \/ wake' <= t + MaxWake
         \/ source > 0 /\ wake' = attempts'[source].admitted_at + Period
    BY <2>5, <2>7, <2>8, <2>9
  <2>12. wake' \in Int
    <3>1. KernelInv'
      BY <1>1, NextKernelInv
    <3>2. QED BY <3>1, LimitsAssumption DEF KernelInv, TypeOK, Instants, NoTime
  <2>13. wake' = attempts'[source].admitted_at + Period
            => wake' <= attempts'[source].admitted_at + Period
    BY <2>12
  <2>14. QED BY <2>2, <2>6, <2>10, <2>11, <2>13 DEF WakeBound
<1>9. QED BY <1>1, <1>4, <1>5, <1>6, <1>7, <1>8, StepCases

\* The wake that a disposition grants is the pending one, moved later only as
\* far as the minimum interval and the budget demand.
LEMMA SettlementGrant ==
    ASSUME StoreInv, WakeBound, NEW a \in AttemptIds, NEW now \in Instants,
           attempts[a].parent = head, wake # NoTime,
           Message(attempts[a].occasion), ~attempts[a].maintenance
    PROVE  LET t == CommitInstant(a, now)
               plan == CommitPlan(a, now, SettlementRequest(a, now))
           IN  plan.granted_at = Later(wake, Later(t + MinWake, plan.budget.eligible_at))
<1> DEFINE t == CommitInstant(a, now)
           b == LiveBudget(AdmittedAt(Len(attempts)), t)
           request == Later(0, wake - t)
<1>1. KernelInv /\ TypeOK
  BY DEF StoreInv, KernelInv
<1>2. t \in Nat /\ t >= accounting_wall /\ accounting_wall \in Nat
  <2>1. Instants \subseteq Nat
    BY LimitsAssumption DEF Instants
  <2>2. accounting_wall \in Nat
    BY <1>1, <2>1 DEF TypeOK
  <2>3. t \in Instants /\ t >= accounting_wall
    BY <1>1, CommitInstantProperties
  <2>4. QED BY <2>1, <2>2, <2>3
<1>3. wake \in Nat
  BY <1>1, LimitsAssumption DEF TypeOK, Instants
<1>4. b.eligible_at \in Nat
  BY <1>1, <1>2, EligibleBound
<1>5. SettlementRequest(a, now) = request
  BY DEF SettlementRequest, Message
<1>6. wake <= t + MaxWake
  <2>1. wake <= accounting_wall + MaxWake
    BY DEF WakeBound
  <2>2. QED BY <1>2, <1>3, <2>1, LimitsAssumption
<1>7. CommitPlan(a, now, SettlementRequest(a, now)) = WakePlan(t, request, b)
  BY <1>5 DEF CommitPlan
<1> HIDE DEF t, b
<1>8. Granted(t, request, b) = Later(wake, Later(t + MinWake, b.eligible_at))
  BY <1>2, <1>3, <1>4, <1>6, LimitsAssumption DEF Granted, Later, NoTime
<1>9. WakePlan(t, request, b).granted_at = Granted(t, request, b)
      /\ WakePlan(t, request, b).budget = b
  BY DEF WakePlan
<1>10. QED BY <1>7, <1>8, <1>9 DEF t

\* Settling an undeliverable message neither loses the pending wake nor brings
\* it forward.
THEOREM DispositionsKeepTheWake == Spec => DispositionKeepsWake
<1>1. Init => WakeBound
  BY DEF Init, Create, WakeBound
<1>2. ASSUME StoreInv, WakeBound, [Next]_vars, NEW a \in AttemptIds,
             Len(commits') > Len(commits),
             commits'[Len(commits')].attempt = a,
             commits'[Len(commits')].disposition # {},
             wake # NoTime,
             Message(attempts[a].occasion),
             ~attempts[a].maintenance
      PROVE  wake' = Later(wake, Later(commits'[Len(commits')].committed_at + MinWake,
                                       commits'[Len(commits')].plan.budget.eligible_at))
  <2>1. KernelInv /\ TypeOK /\ Len(commits) \in Nat
    BY <1>2, RowTypes DEF StoreInv, KernelInv
  <2>2. commits' # commits
    BY <1>2, <2>1
  <2>3. PICK i \in AttemptIds, now \in Instants, request \in Nat \cup {NoTime},
             disposition \in SUBSET Nat : Transition(i, now, request, disposition)
    <3>1. \E i \in AttemptIds, now \in Instants, request \in Nat \cup {NoTime},
             disposition \in SUBSET Nat : Transition(i, now, request, disposition)
      BY <1>2, <2>1, <2>2, StepCases DEF vars, Submit, Admit, Lapse
    <3>2. QED BY <3>1
  <2> DEFINE id == Len(commits) + 1
  <2>4. CommitLocked(i, now, request, disposition)
    BY <2>3 DEF Transition
  <2>5. /\ Committable(i) /\ Len(commits') = id
        /\ commits'[id].attempt = i /\ commits'[id].disposition = disposition
        /\ commits'[id].committed_at = CommitInstant(i, now)
        /\ commits'[id].plan = CommitPlan(i, now, request)
        /\ wake' = CommitPlan(i, now, request).granted_at
    BY <2>1, <2>4, TransitionEffect
  <2>6. i = a /\ disposition # {} /\ attempts[a].parent = head
    BY <1>2, <2>5 DEF Committable
  <2>7. request = SettlementRequest(a, now)
    BY <2>3, <2>6 DEF Transition
  <2>8. CommitPlan(a, now, request).granted_at =
           Later(wake, Later(CommitInstant(a, now) + MinWake,
                             CommitPlan(a, now, request).budget.eligible_at))
    BY <1>2, <2>6, <2>7, SettlementGrant
  <2>9. QED BY <2>5, <2>6, <2>8
<1>3. StoreInv /\ WakeBound /\ [Next]_vars =>
         [\A a \in AttemptIds :
             (/\ Len(commits') > Len(commits)
              /\ commits'[Len(commits')].attempt = a
              /\ commits'[Len(commits')].disposition # {}
              /\ wake # NoTime
              /\ Message(attempts[a].occasion)
              /\ ~attempts[a].maintenance) =>
                 LET c == commits'[Len(commits')]
                 IN  wake' = Later(wake, Later(c.committed_at + MinWake,
                                               c.plan.budget.eligible_at))]_vars
  BY <1>2
<1>4. QED BY <1>1, <1>3, StoreInvHolds, NextWakeBound, PTL
      DEF Spec, DispositionKeepsWake

-----------------------------------------------------------------------------
(* The store's verifier accepts what the store wrote.  The parts of the    *)
(* verification that are not consequences of StoreInv, row by row.         *)

\* A commit is no earlier than its admission and its parent.
CommitFollows(c) ==
    /\ commits[c].committed_at >= attempts[commits[c].attempt].admitted_at
    /\ commits[c].committed_at >= commits[c - 1].committed_at

\* A wake plan replays from admissions that exist.
PlanReplays(c) ==
    LET saved == commits[c].plan
    IN  /\ saved.budget.through <= Len(attempts)
        /\ saved = WakePlan(commits[c].committed_at, saved.requested_after,
                      ReplayBudget(AdmittedAt(saved.budget.through),
                                   commits[c].committed_at))
        /\ commits[c].wake_at = saved.granted_at

\* A disposition lists the configured number of counted failures.
DispositionReplays(c) ==
    commits[c].disposition # {} =>
        /\ MaxOccasionFailures > 0
        /\ Cardinality(commits[c].disposition) = MaxOccasionFailures
        /\ commits[c].attempt \in commits[c].disposition
        /\ \A f \in commits[c].disposition :
              /\ f \in failures
              /\ attempts[f].occasion = commits[c].occasion
              /\ attempts[f].status =
                    IF f = commits[c].attempt THEN "committed" ELSE "failed"

\* An admission replays over the admissions before it.
AdmissionReplays(a) ==
    /\ attempts[a].budget = ReplayBudget(AdmittedAt(a - 1), attempts[a].admitted_at)
    /\ attempts[a].budget.eligible_at <= attempts[a].admitted_at
    /\ a \in abstentions <=> attempts[a].status = "abstained"

\* A counted failure failed, or committed the disposition that lists it.
FailureReplays(f) ==
    \/ attempts[f].status = "failed"
    \/ /\ attempts[f].status = "committed"
       /\ \E c \in CommitIds : commits[c].attempt = f /\ commits[c].disposition # {}

RecordsInv ==
    /\ VerifyAccounting
    /\ \A c \in CommitIds \ {Genesis} : CommitFollows(c) /\ PlanReplays(c)
    /\ \A c \in CommitIds : DispositionReplays(c)
    /\ \A a \in AttemptIds : AdmissionReplays(a)
    /\ \A f \in failures : FailureReplays(f)

\* ORDER BY seq LIMIT k selects at most k rows.
LEMMA FirstRows ==
    ASSUME NEW n \in Nat, NEW S \in SUBSET (1 .. n), NEW k \in Nat
    PROVE  LET T == {f \in S : Cardinality({g \in S : g < f}) < k}
           IN  IsFiniteSet(T) /\ Cardinality(T) \in Nat /\ Cardinality(T) <= k
<1> DEFINE T == {f \in S : Cardinality({g \in S : g < f}) < k}
<1>1. IsFiniteSet(1 .. n)
  BY FS_Interval
<1>2. \A R \in SUBSET (1 .. n) : IsFiniteSet(R) /\ Cardinality(R) \in Nat
  BY <1>1, FS_Subset, FS_CardinalityType
<1>3. T \in SUBSET (1 .. n)
  OBVIOUS
<1>4. CASE T = {}
  <2> HIDE DEF T
  <2>1. IsFiniteSet(T) /\ Cardinality(T) = 0
    BY <1>4, FS_EmptySet
  <2>2. QED BY <2>1 DEF T
<1>5. CASE T # {}
  <2> DEFINE M == {n - x : x \in T}
  <2>1. M \in SUBSET Nat /\ M # {}
    <3> HIDE DEF T
    <3>1. \A x \in T : n - x \in Nat
      BY <1>3
    <3>2. QED BY <1>5, <3>1
  <2>2. PICK y \in M : \A z \in M : y <= z
    BY <2>1, LeastElement
  <2>3. PICK m \in T : y = n - m
    BY <2>2
  <2>4. ASSUME NEW x \in T PROVE x <= m
    <3>1. n - x \in M
      OBVIOUS
    <3>2. y <= n - x
      BY <2>2, <3>1
    <3>3. x \in Nat /\ m \in Nat
      BY <1>3
    <3> HIDE DEF T, M
    <3>4. QED BY <2>3, <3>2, <3>3
  <2> DEFINE D == {g \in S : g < m}
  <2>5. D \in SUBSET (1 .. n) /\ Cardinality(D) < k
    OBVIOUS
  <2>6. T \subseteq D \cup {m}
    BY <1>3, <2>4
  <2> HIDE DEF D, T
  <2>7. IsFiniteSet(D) /\ Cardinality(D) \in Nat
    BY <1>2, <2>5
  <2>8. /\ IsFiniteSet(D \cup {m})
        /\ Cardinality(D \cup {m}) = IF m \in D THEN Cardinality(D) ELSE Cardinality(D) + 1
    BY <2>7, FS_AddElement
  <2>9. Cardinality(T) <= Cardinality(D \cup {m}) /\ IsFiniteSet(T) /\ Cardinality(T) \in Nat
    BY <1>2, <1>3, <2>6, <2>8, FS_Subset
  <2>10. QED BY <2>5, <2>7, <2>8, <2>9 DEF T
<1>6. QED BY <1>4, <1>5

\* A disposition lists neither fewer nor more failures than configured.
LEMMA CountedFailuresSize ==
    ASSUME TypeOK, NEW a \in AttemptIds, MaxOccasionFailures > 0, Settles(a)
    PROVE  Cardinality(CountedFailures(a)) = MaxOccasionFailures
<1> DEFINE others == {f \in failures \ {a} : attempts[f].occasion = attempts[a].occasion}
           k == MaxOccasionFailures - 1
<1>1. Len(attempts) \in Nat /\ others \in SUBSET (1 .. Len(attempts))
  BY RowTypes DEF TypeOK, AttemptIds
<1>2. k \in Nat
  BY KernelAssumption
<1>3. EarlierFailures(a) = {f \in others : Cardinality({g \in others : g < f}) < k}
  BY DEF EarlierFailures
<1>4. a \notin EarlierFailures(a)
  BY <1>3
<1> HIDE DEF others
<1>5. /\ IsFiniteSet(EarlierFailures(a)) /\ Cardinality(EarlierFailures(a)) \in Nat
      /\ Cardinality(EarlierFailures(a)) <= k
  <2> HIDE DEF k
  <2>1. QED BY <1>1, <1>2, <1>3, FirstRows
<1>6. Cardinality(CountedFailures(a)) = Cardinality(EarlierFailures(a)) + 1
  BY <1>4, <1>5, FS_AddElement DEF CountedFailures
<1>7. Cardinality(CountedFailures(a)) >= MaxOccasionFailures
  BY DEF Settles
<1>8. QED BY <1>2, <1>5, <1>6, <1>7, KernelAssumption

\* A watermark names the same admissions after every step.
LEMMA AdmittedAtStable ==
    ASSUME NEW n \in Nat, n <= Len(attempts), Len(attempts) \in Nat,
           \A i \in AttemptIds : attempts'[i].admitted_at = attempts[i].admitted_at
    PROVE  AdmittedAt(n)' = AdmittedAt(n)
<1>1. \A i \in 1 .. n : attempts'[i].admitted_at = attempts[i].admitted_at
  BY DEF AttemptIds
<1>2. QED BY <1>1 DEF AdmittedAt

\* What no step of the store rewrites: commits, the admissions, the verdict on a
\* settled attempt, and the failures counted.
RowsStay ==
    /\ AttemptIds \subseteq AttemptIds'
    /\ Len(attempts') >= Len(attempts)
    /\ \A i \in AttemptIds :
          /\ attempts'[i].occasion = attempts[i].occasion
          /\ attempts'[i].admitted_at = attempts[i].admitted_at
          /\ attempts'[i].budget = attempts[i].budget
          /\ attempts[i].status # "reserved" => attempts'[i].status = attempts[i].status
    /\ CommitIds \subseteq CommitIds'
    /\ \A c \in CommitIds : commits'[c] = commits[c]
    /\ failures \subseteq failures'

\* Rows that were verified stay verified.
LEMMA VerifiedRowsStay ==
    ASSUME StoreInv, RecordsInv, RowsStay
    PROVE  /\ \A c \in CommitIds \ {Genesis} : CommitFollows(c)' /\ PlanReplays(c)'
           /\ \A c \in CommitIds : DispositionReplays(c)'
           /\ \A a \in AttemptIds :
                 /\ attempts'[a].budget = ReplayBudget(AdmittedAt(a - 1)', attempts'[a].admitted_at)
                 /\ attempts'[a].budget.eligible_at <= attempts'[a].admitted_at
           /\ \A f \in failures : FailureReplays(f)'
<1>1. TypeOK /\ Len(attempts) \in Nat /\ Len(attempts') >= Len(attempts)
  BY RowTypes DEF StoreInv, KernelInv, RowsStay
<1>2. \A i \in AttemptIds : attempts'[i].admitted_at = attempts[i].admitted_at
  BY DEF RowsStay
<1>3. ASSUME NEW c \in CommitIds \ {Genesis} PROVE CommitFollows(c)' /\ PlanReplays(c)'
  <2>1. commits[c].attempt \in AttemptIds /\ c - 1 \in CommitIds /\ c \in CommitIds
    BY <1>1, RowTypes DEF StoreInv, ChainInv, CommitIds, Genesis
  <2>2. CommitFollows(c)'
    BY <1>2, <2>1 DEF RecordsInv, CommitFollows, RowsStay
  <2>3. commits'[c] = commits[c]
    BY <2>1 DEF RowsStay
  <2>4. PlanReplays(c)
    BY DEF RecordsInv
  <2>5. PICK n : n = commits[c].plan.budget.through
    OBVIOUS
  <2>6. n \in Nat
    <3>1. commits[c] \in CommitRow
      BY <1>1, <2>1, RowTypes
    <3>2. \A r \in CommitRow : r.plan.budget.through \in Nat
      BY DEF CommitRow, PlanRow, BudgetRow
    <3>3. QED BY <2>5, <3>1, <3>2
  <2>7. n <= Len(attempts)
    BY <2>4, <2>5 DEF PlanReplays
  <2>8. AdmittedAt(n)' = AdmittedAt(n)
    BY <1>1, <1>2, <2>6, <2>7, AdmittedAtStable
  <2>9. AdmittedAt(commits[c].plan.budget.through)' = AdmittedAt(n)'
    BY <2>3, <2>5 DEF AdmittedAt
  <2>10. n <= Len(attempts')
    BY <1>1, <2>6, <2>7
  <2>11. PlanReplays(c)'
    BY <2>3, <2>4, <2>5, <2>8, <2>9, <2>10 DEF PlanReplays
  <2>12. QED BY <2>2, <2>11
<1>4. ASSUME NEW c \in CommitIds PROVE DispositionReplays(c)'
  <2>1. commits'[c] = commits[c] /\ DispositionReplays(c)
    BY DEF RowsStay, RecordsInv
  <2>2. failures \subseteq failures' /\ failures \subseteq AttemptIds
    BY <1>1 DEF RowsStay, TypeOK
  <2>3. QED BY <2>1, <2>2 DEF DispositionReplays, RowsStay
<1>5. ASSUME NEW a \in AttemptIds
      PROVE  /\ attempts'[a].budget = ReplayBudget(AdmittedAt(a - 1)', attempts'[a].admitted_at)
             /\ attempts'[a].budget.eligible_at <= attempts'[a].admitted_at
  <2>1. a - 1 \in Nat /\ a - 1 <= Len(attempts)
    BY <1>1 DEF AttemptIds
  <2>2. AdmittedAt(a - 1)' = AdmittedAt(a - 1)
    BY <1>1, <1>2, <2>1, AdmittedAtStable
  <2>3. attempts'[a].budget = attempts[a].budget /\ AdmissionReplays(a)
    BY DEF RowsStay, RecordsInv
  <2>4. QED BY <1>2, <2>2, <2>3 DEF AdmissionReplays
<1>6. ASSUME NEW f \in failures PROVE FailureReplays(f)'
  <2>1. f \in AttemptIds /\ FailureReplays(f)
    BY <1>1 DEF TypeOK, RecordsInv
  <2>2. attempts'[f].status = attempts[f].status
    BY <2>1 DEF FailureReplays, RowsStay
  <2>3. QED BY <2>1, <2>2 DEF FailureReplays, RowsStay
<1>7. QED BY <1>3, <1>4, <1>5, <1>6

\* The accounting clock is at or past the last commit.
LEMMA AccountingPastHead ==
    ASSUME StoreInv, VerifyAccounting
    PROVE  /\ commits[head].committed_at \in Nat
           /\ commits[head].committed_at <= accounting_wall
           /\ accounting_wall \in Nat
<1>1. TypeOK /\ AdmissionsInv
  BY DEF StoreInv, KernelInv
<1>2. accounting_wall \in Nat
  BY <1>1, LimitsAssumption DEF TypeOK, Instants
<1>3. commits[head] \in CommitRow
  BY <1>1, RowTypes DEF TypeOK
<1>4. commits[head].committed_at \in Nat
  BY <1>3, LimitsAssumption DEF CommitRow, Instants
<1>5. attempts # <<>> => attempts[Len(attempts)].admitted_at \in Nat
  <2>1. attempts # <<>> => Len(attempts) \in AttemptIds
    BY <1>1, EmptySeq DEF TypeOK, AttemptIds
  <2>2. QED BY <1>1, <2>1, AdmissionInstants
<1>6. QED BY <1>2, <1>4, <1>5 DEF VerifyAccounting, Later

\* An admission replays when it is written.
LEMMA AdmitRecords ==
    ASSUME StoreInv, RecordsInv, NEW observed \in Instants,
           NEW maintenance \in MaintenanceModes, Admit(observed, maintenance)
    PROVE  RecordsInv'
<1>1. PICK n : n = Len(attempts)
  OBVIOUS
<1>2. KernelInv /\ TypeOK /\ AdmissionsInv /\ n \in Nat /\ ChainInv /\ InboxInv
  BY <1>1, RowTypes DEF StoreInv, KernelInv
<1>3. /\ AttemptIds' = AttemptIds \cup {n + 1} /\ n + 1 \notin AttemptIds
      /\ \A a \in AttemptIds : attempts'[a] = attempts[a]
      /\ attempts'[n + 1].admitted_at = Accounting(observed)
      /\ attempts'[n + 1].budget = LiveDecision(observed)
      /\ attempts'[n + 1].status = "reserved"
      /\ accounting_wall' = Accounting(observed)
      /\ UNCHANGED <<head, commits, failures, abstentions>>
  BY <1>1, <1>2, AdmitCases
<1>4. Len(attempts') = n + 1 /\ CommitIds' = CommitIds
  BY <1>1, <1>2, <1>3 DEF Admit, TypeOK, CommitIds
<1>5. RowsStay
  BY <1>1, <1>2, <1>3, <1>4 DEF RowsStay
<1>6. /\ \A c \in CommitIds \ {Genesis} : CommitFollows(c)' /\ PlanReplays(c)'
      /\ \A c \in CommitIds : DispositionReplays(c)'
      /\ \A a \in AttemptIds :
            /\ attempts'[a].budget = ReplayBudget(AdmittedAt(a - 1)', attempts'[a].admitted_at)
            /\ attempts'[a].budget.eligible_at <= attempts'[a].admitted_at
      /\ \A f \in failures : FailureReplays(f)'
  BY <1>5, VerifiedRowsStay
<1>7. VerifyAccounting'
  <2>1. /\ commits[head].committed_at \in Nat /\ commits[head].committed_at <= accounting_wall
        /\ accounting_wall \in Nat
    BY AccountingPastHead DEF RecordsInv
  <2>2. Accounting(observed) \in Nat /\ Accounting(observed) >= accounting_wall
    BY <1>2, AccountingProperties, LimitsAssumption DEF Instants
  <2>3. attempts' # <<>>
    BY <1>2, <1>4
  <2>4. Later(commits[head].committed_at, Accounting(observed)) = Accounting(observed)
    BY <2>1, <2>2 DEF Later
  <2>5. QED BY <1>3, <1>4, <2>3, <2>4 DEF VerifyAccounting
<1>8. ASSUME NEW a \in AttemptIds PROVE AdmissionReplays(a)'
  <2>1. AdmissionReplays(a)
    BY DEF RecordsInv
  <2>2. QED BY <1>3, <1>6, <2>1 DEF AdmissionReplays
<1>9. AdmissionReplays(n + 1)'
  <2>1. n + 1 \notin abstentions
    BY <1>2, <1>3 DEF TypeOK
  <2>2. AdmittedAt(n)' = AdmittedAt(n)
    BY <1>1, <1>2, <1>3, AdmittedAtStable
  <2>3. LiveDecision(observed) = ReplayBudget(AdmittedAt(n), Accounting(observed))
    <3>1. Accounting(observed) \in Nat
      BY <1>2, AccountingProperties, LimitsAssumption DEF Instants
    <3>2. AdmittedAt(n) \in Seq(Nat) /\ Nondecreasing(AdmittedAt(n))
      BY <1>1, <1>2, AdmittedAtProperties
    <3>3. QED BY <1>1, <3>1, <3>2, ReplayAgreesWithLive DEF LiveDecision
  <2>4. LiveDecision(observed).eligible_at <= Accounting(observed)
    BY <1>2, ReadyIsEligible DEF Admit
  <2>5. (n + 1) - 1 = n
    BY <1>2
  <2>6. AdmittedAt((n + 1) - 1)' = AdmittedAt(n)'
    BY <2>5
  <2>7. QED BY <1>3, <2>1, <2>2, <2>3, <2>4, <2>6 DEF AdmissionReplays
<1>10. QED BY <1>3, <1>4, <1>6, <1>7, <1>8, <1>9 DEF RecordsInv

\* A failure or an abstention is recorded as the verifier expects it.
LEMMA LapseRecords ==
    ASSUME StoreInv, RecordsInv, NEW a \in AttemptIds,
           NEW status \in {"failed", "abstained"}, Lapse(a, status)
    PROVE  RecordsInv'
<1>1. TypeOK /\ Len(attempts) \in Nat
  BY RowTypes DEF StoreInv, KernelInv
<1>2. /\ attempts[a].status = "reserved" /\ OnlyStatusChanges
      /\ \A i \in AttemptIds :
            attempts'[i].status = IF i = a THEN status ELSE attempts[i].status
      /\ UNCHANGED <<head, accounting_wall, commits>>
  BY DEF Lapse
<1>3. AttemptIds' = AttemptIds /\ CommitIds' = CommitIds /\ Len(attempts') = Len(attempts)
  BY <1>2 DEF OnlyStatusChanges, AttemptIds, CommitIds
<1>4. failures \subseteq failures' /\ failures' \subseteq failures \cup {a}
  BY DEF Lapse
<1>5. RowsStay
  BY <1>1, <1>2, <1>3, <1>4 DEF RowsStay, OnlyStatusChanges
<1>6. /\ \A c \in CommitIds \ {Genesis} : CommitFollows(c)' /\ PlanReplays(c)'
      /\ \A c \in CommitIds : DispositionReplays(c)'
      /\ \A i \in AttemptIds :
            /\ attempts'[i].budget = ReplayBudget(AdmittedAt(i - 1)', attempts'[i].admitted_at)
            /\ attempts'[i].budget.eligible_at <= attempts'[i].admitted_at
      /\ \A f \in failures : FailureReplays(f)'
  BY <1>5, VerifiedRowsStay
<1>7. VerifyAccounting'
  <2>1. attempts' = <<>> <=> attempts = <<>>
    BY <1>1, <1>2, <1>3, EmptySeq DEF TypeOK, OnlyStatusChanges
  <2>2. attempts # <<>> => Len(attempts) \in AttemptIds
    BY <1>1, EmptySeq DEF TypeOK, AttemptIds
  <2>3. QED BY <1>2, <1>3, <2>1, <2>2 DEF RecordsInv, VerifyAccounting, OnlyStatusChanges
<1>8. ASSUME NEW i \in AttemptIds PROVE AdmissionReplays(i)'
  <2>1. i \in abstentions <=> attempts[i].status = "abstained"
    BY DEF RecordsInv, AdmissionReplays
  <2>2. i \in abstentions' <=> attempts'[i].status = "abstained"
    BY <1>2, <2>1 DEF Lapse
  <2>3. QED BY <1>6, <2>2 DEF AdmissionReplays
<1>9. ASSUME NEW f \in failures' PROVE FailureReplays(f)'
  <2>1. CASE f \in failures
    BY <1>6, <2>1
  <2>2. CASE f \notin failures
    <3>1. f = a /\ status = "failed"
      BY <1>4, <1>9, <2>2 DEF Lapse
    <3>2. QED BY <1>2, <3>1 DEF FailureReplays
  <2>3. QED BY <2>1, <2>2
<1>10. QED BY <1>3, <1>6, <1>7, <1>8, <1>9 DEF RecordsInv

\* The record of a transition replays when it is written.
LEMMA TransitionRecords ==
    ASSUME StoreInv, RecordsInv, NEW a \in AttemptIds, NEW now \in Instants,
           NEW request \in Nat \cup {NoTime}, NEW disposition \in SUBSET Nat,
           Transition(a, now, request, disposition)
    PROVE  RecordsInv'
<1> DEFINE o == attempts[a].occasion
           t == CommitInstant(a, now)
<1>1. PICK id : id = Len(commits) + 1
  OBVIOUS
<1>2. PICK n : n = Len(attempts)
  OBVIOUS
<1>3. KernelInv /\ TypeOK /\ AdmissionsInv /\ n \in Nat
  BY <1>2, RowTypes DEF StoreInv, KernelInv
<1>4. CommitLocked(a, now, request, disposition) /\ UNCHANGED abstentions
  BY DEF Transition
<1>5. /\ Committable(a) /\ o \in OccasionIds
      /\ AttemptIds' = AttemptIds /\ CommitIds' = CommitIds \cup {id}
      /\ id \notin CommitIds /\ id \in Nat
      /\ \A c \in CommitIds : commits'[c] = commits[c]
      /\ commits'[id].occasion = o /\ commits'[id].attempt = a
      /\ commits'[id].committed_at = t /\ commits'[id].wake_at = wake'
      /\ commits'[id].disposition = disposition
      /\ head' = id /\ accounting_wall' = t
  BY <1>1, <1>3, <1>4, TransitionEffect
<1>6. /\ commits'[id].plan = CommitPlan(a, now, request)
      /\ wake' = CommitPlan(a, now, request).granted_at
  BY <1>1, <1>3, <1>4, TransitionEffect
<1>7. /\ OnlyStatusChanges /\ attempts'[a].status = "committed"
      /\ \A i \in AttemptIds \ {a} :
            attempts'[i].status =
               IF attempts[i].parent = head /\ attempts[i].status = "reserved"
               THEN "superseded" ELSE attempts[i].status
  BY <1>3, <1>4, TransitionEffect
<1>8. Len(attempts') = n /\ attempts[a].status = "reserved"
      /\ occasions[o].consumed = NoCommit
  BY <1>2, <1>5, <1>7 DEF OnlyStatusChanges, Committable
<1>9. failures \subseteq failures' /\ failures' \subseteq failures \cup {a}
  BY DEF Transition
<1> HIDE DEF o, t
<1>10. RowsStay
  BY <1>2, <1>3, <1>5, <1>7, <1>8, <1>9 DEF RowsStay, OnlyStatusChanges
<1>11. /\ \A c \in CommitIds \ {Genesis} : CommitFollows(c)' /\ PlanReplays(c)'
       /\ \A c \in CommitIds : DispositionReplays(c)'
       /\ \A i \in AttemptIds :
             /\ attempts'[i].budget = ReplayBudget(AdmittedAt(i - 1)', attempts'[i].admitted_at)
             /\ attempts'[i].budget.eligible_at <= attempts'[i].admitted_at
       /\ \A f \in failures : FailureReplays(f)'
  BY <1>10, VerifiedRowsStay
<1>12. /\ t \in Nat /\ t >= accounting_wall /\ t >= attempts[a].admitted_at
       /\ accounting_wall \in Nat
  BY <1>3, CommitInstantProperties, LimitsAssumption DEF Instants, t, TypeOK
<1>13. VerifyAccounting'
  <2>1. attempts' # <<>> => n \in AttemptIds
    BY <1>3, <1>7, <1>8, EmptySeq DEF OnlyStatusChanges, AttemptIds
  <2>2. n \in AttemptIds => /\ attempts'[n].admitted_at = attempts[n].admitted_at
                            /\ attempts[n].admitted_at \in Nat
                            /\ attempts[n].admitted_at <= accounting_wall
    BY <1>3, <1>7, AdmissionInstants DEF OnlyStatusChanges, AdmissionsInv
  <2>3. n \in AttemptIds => Later(t, attempts'[n].admitted_at) = t
    BY <1>12, <2>2 DEF Later
  <2>4. QED BY <1>5, <1>8, <2>1, <2>3 DEF VerifyAccounting
<1>14. CommitFollows(id)'
  <2>1. /\ commits[head].committed_at \in Nat
        /\ commits[head].committed_at <= accounting_wall
    BY AccountingPastHead DEF RecordsInv
  <2>2. head = id - 1 /\ head \in CommitIds
    BY <1>1, <1>3 DEF StoreInv, ChainInv, TypeOK, CommitIds
  <2>3. commits'[id - 1] = commits[head]
    BY <1>5, <2>2
  <2>4. attempts'[a].admitted_at = attempts[a].admitted_at
    BY <1>7 DEF OnlyStatusChanges
  <2>5. t >= commits[head].committed_at
    BY <1>12, <2>1
  <2>6. QED BY <1>5, <1>12, <2>3, <2>4, <2>5 DEF CommitFollows
<1>15. PlanReplays(id)'
  <2> DEFINE b == LiveBudget(AdmittedAt(n), t)
             plan == WakePlan(t, request, b)
  <2>1. commits'[id].plan = plan /\ wake' = plan.granted_at
    BY <1>2, <1>6 DEF CommitPlan, t
  <2>2. AdmittedAt(n) \in Seq(Nat) /\ Nondecreasing(AdmittedAt(n)) /\ Len(AdmittedAt(n)) = n
    BY <1>2, <1>3, AdmittedAtProperties
  <2>3. b = ReplayBudget(AdmittedAt(n), t) /\ b.through = n
    BY <1>12, <2>2, ReplayAgreesWithLive, LiveBudgetProperties
  <2>4. AdmittedAt(n)' = AdmittedAt(n)
    BY <1>2, <1>3, <1>7, AdmittedAtStable DEF OnlyStatusChanges
  <2> HIDE DEF b
  <2>5. plan.budget = b /\ plan.requested_after = request
    BY DEF WakePlan
  <2> HIDE DEF plan
  <2>6. commits'[id].plan.budget.through = n
    BY <2>1, <2>3, <2>5
  <2>7. AdmittedAt(commits[id].plan.budget.through)' = AdmittedAt(n)
    BY <2>4, <2>6 DEF AdmittedAt
  <2>8. n <= Len(attempts')
    BY <1>3, <1>8
  <2>9. plan = WakePlan(t, plan.requested_after, ReplayBudget(AdmittedAt(n), t))
    BY <2>3, <2>5 DEF plan
  <2>10. QED BY <1>5, <2>1, <2>6, <2>7, <2>8, <2>9 DEF PlanReplays
<1>16. ASSUME disposition # {}
       PROVE  /\ MaxOccasionFailures > 0 /\ Settles(a) /\ disposition = CountedFailures(a)
              /\ failures' = failures \cup {a}
  BY <1>16 DEF Transition
<1>17. DispositionReplays(id)'
  <2>1. SUFFICES ASSUME disposition # {} PROVE DispositionReplays(id)'
    BY <1>5 DEF DispositionReplays
  <2>2. Cardinality(disposition) = MaxOccasionFailures
    BY <1>3, <1>16, <2>1, CountedFailuresSize
  <2>3. a \in disposition
    BY <1>16, <2>1 DEF CountedFailures
  <2>4. ASSUME NEW f \in disposition
        PROVE  /\ f \in failures' /\ attempts'[f].occasion = o
               /\ attempts'[f].status = IF f = a THEN "committed" ELSE "failed"
    <3>1. CASE f = a
      BY <1>7, <1>16, <2>1, <3>1 DEF OnlyStatusChanges, o
    <3>2. CASE f # a
      <4>1. f \in failures /\ attempts[f].occasion = o
        <5>1. f \in EarlierFailures(a)
          BY <1>16, <2>1, <2>4, <3>2 DEF CountedFailures
        <5>2. EarlierFailures(a) \subseteq
                 {g \in failures : attempts[g].occasion = attempts[a].occasion}
          BY DEF EarlierFailures
        <5>3. QED BY <5>1, <5>2 DEF o
      <4>2. f \in AttemptIds /\ FailureReplays(f)
        BY <1>3, <4>1 DEF TypeOK, RecordsInv
      <4>3. attempts[f].status # "committed"
        BY <1>8, <4>1, <4>2 DEF StoreInv, AttemptsInv
      <4>4. attempts[f].status = "failed"
        BY <4>2, <4>3 DEF FailureReplays
      <4>5. QED BY <1>7, <1>9, <3>2, <4>1, <4>2, <4>4 DEF OnlyStatusChanges
    <3>3. QED BY <3>1, <3>2
  <2>5. QED BY <1>5, <1>16, <2>1, <2>2, <2>3, <2>4 DEF DispositionReplays
<1>18. ASSUME NEW i \in AttemptIds PROVE AdmissionReplays(i)'
  <2>1. i \in abstentions <=> attempts[i].status = "abstained"
    BY DEF RecordsInv, AdmissionReplays
  <2>2. i \in abstentions' <=> attempts'[i].status = "abstained"
    BY <1>4, <1>7, <1>8, <2>1
  <2>3. QED BY <1>11, <2>2 DEF AdmissionReplays
<1>19. ASSUME NEW f \in failures' PROVE FailureReplays(f)'
  <2>1. CASE f \in failures
    BY <1>11, <2>1
  <2>2. CASE f \notin failures
    <3>1. f = a /\ disposition # {}
      BY <1>9, <1>19, <2>2 DEF Transition, CountedFailures
    <3>2. QED BY <1>5, <1>7, <3>1 DEF FailureReplays
  <2>3. QED BY <2>1, <2>2
<1>20. QED BY <1>5, <1>11, <1>13, <1>14, <1>15, <1>17, <1>18, <1>19 DEF RecordsInv

\* Every step leaves records that replay.
LEMMA NextRecordsInv == StoreInv /\ RecordsInv /\ [Next]_vars => RecordsInv'
<1> SUFFICES ASSUME StoreInv, RecordsInv, [Next]_vars PROVE RecordsInv'
  OBVIOUS
<1>1. TypeOK
  BY DEF StoreInv, KernelInv
<1>2. ASSUME UNCHANGED <<head, accounting_wall, attempts, commits, failures, abstentions>>
      PROVE  RecordsInv'
  <2>1. AttemptIds' = AttemptIds /\ CommitIds' = CommitIds
    BY <1>2 DEF AttemptIds, CommitIds
  <2>2. RowsStay
    BY <1>1, <1>2, <2>1, RowTypes DEF RowsStay
  <2>3. /\ \A c \in CommitIds \ {Genesis} : CommitFollows(c)' /\ PlanReplays(c)'
        /\ \A c \in CommitIds : DispositionReplays(c)'
        /\ \A i \in AttemptIds :
              /\ attempts'[i].budget = ReplayBudget(AdmittedAt(i - 1)', attempts'[i].admitted_at)
              /\ attempts'[i].budget.eligible_at <= attempts'[i].admitted_at
        /\ \A f \in failures : FailureReplays(f)'
    BY <2>2, VerifiedRowsStay
  <2>4. \A i \in AttemptIds : AdmissionReplays(i)'
    BY <1>2, <2>3 DEF RecordsInv, AdmissionReplays
  <2>5. VerifyAccounting'
    BY <1>2 DEF RecordsInv, VerifyAccounting
  <2>6. QED BY <1>2, <2>1, <2>3, <2>4, <2>5 DEF RecordsInv
<1>3. CASE UNCHANGED vars
  BY <1>2, <1>3 DEF vars
<1>4. CASE \E key \in Keys, payload \in Payloads : Submit(key, payload)
  BY <1>2, <1>4 DEF Submit
<1>5. CASE \E observed \in Instants, maintenance \in MaintenanceModes :
              Admit(observed, maintenance)
  BY <1>5, AdmitRecords
<1>6. CASE \E a \in AttemptIds, status \in {"failed", "abstained"} : Lapse(a, status)
  BY <1>6, LapseRecords
<1>7. CASE \E a \in AttemptIds, now \in Instants, request \in Nat \cup {NoTime},
              disposition \in SUBSET Nat : Transition(a, now, request, disposition)
  BY <1>7, TransitionRecords
<1>8. QED BY <1>1, <1>3, <1>4, <1>5, <1>6, <1>7, StepCases

\* The chain and its provenance are consequences of the store's invariant.
LEMMA ChainVerifies ==
    ASSUME StoreInv, RecordsInv
    PROVE  VerifyChain /\ VerifyProvenance /\ VerifyHead
<1>1. /\ TypeOK /\ Len(commits) \in Nat /\ head = Len(commits) /\ head \in CommitIds
      /\ tick = head - 1 /\ wake = commits[head].wake_at
      /\ commits[Genesis].parent = NoCommit /\ commits[Genesis].wake_at = NoTime
      /\ \A c \in CommitIds : commits[c].tick = c - 1
  BY RowTypes DEF StoreInv, KernelInv, ChainInv, TypeOK
<1>2. ASSUME NEW c \in CommitIds \ {Genesis}
      PROVE  /\ commits[c].parent = c - 1 /\ c - 1 \in CommitIds
             /\ commits[c].attempt \in AttemptIds
             /\ attempts[commits[c].attempt].parent = c - 1
             /\ attempts[commits[c].attempt].status = "committed"
             /\ commits[c].occasion = attempts[commits[c].attempt].occasion
             /\ occasions[commits[c].occasion].consumed = c
  BY <1>1 DEF StoreInv, ChainInv, CommitIds, Genesis
<1>3. VerifyChain
  <2>1. {commits[c].tick : c \in CommitIds} = 0 .. Len(commits) - 1
    <3>1. ASSUME NEW c \in CommitIds PROVE commits[c].tick \in 0 .. Len(commits) - 1
      BY <1>1 DEF CommitIds
    <3>2. ASSUME NEW k \in 0 .. Len(commits) - 1
          PROVE  k + 1 \in CommitIds /\ commits[k + 1].tick = k
      <4>1. k + 1 \in CommitIds
        BY <1>1 DEF CommitIds
      <4>2. QED BY <1>1, <4>1
    <3>3. QED BY <3>1, <3>2
  <2>2. ASSUME NEW c \in CommitIds
        PROVE  IF commits[c].tick = 0
               THEN commits[c].parent = NoCommit /\ commits[c].wake_at = NoTime
               ELSE /\ commits[c].parent \in CommitIds
                    /\ commits[commits[c].parent].tick = commits[c].tick - 1
    <3>1. commits[c].tick = 0 <=> c = Genesis
      BY <1>1 DEF CommitIds, Genesis
    <3>2. QED BY <1>1, <1>2, <3>1
  <2>3. QED BY <1>1, <2>1, <2>2 DEF VerifyChain
<1>4. VerifyProvenance
  <2>1. SUFFICES ASSUME NEW c \in CommitIds \ {Genesis}
                 PROVE  LET o == commits[c].occasion
                            a == commits[c].attempt
                        IN  /\ commits[occasions[o].parent].tick < commits[c].tick
                            /\ occasions[o].consumed = c
                            /\ attempts[a].parent = commits[c].parent
                            /\ attempts[a].tick = commits[c].tick - 1
                            /\ attempts[a].occasion = o
                            /\ attempts[a].status = "committed"
                            /\ commits[c].committed_at >= attempts[a].admitted_at
                            /\ commits[c].committed_at >= commits[commits[c].parent].committed_at
    BY DEF VerifyProvenance
  <2> DEFINE o == commits[c].occasion
             a == commits[c].attempt
  <2>2. o \in OccasionIds /\ occasions[o].parent \in CommitIds /\ c \in CommitIds
    BY <1>1, <1>2 DEF TypeOK
  <2>3. occasions[o].parent < c
    BY <1>2, <2>2 DEF StoreInv, InboxInv, NoCommit, CommitIds
  <2>4. commits[occasions[o].parent].tick < commits[c].tick
    BY <1>1, <2>2, <2>3 DEF CommitIds
  <2>5. attempts[a].tick = commits[c].tick - 1
    BY <1>1, <1>2 DEF StoreInv, AttemptsInv
  <2>6. CommitFollows(c)
    BY DEF RecordsInv
  <2>7. QED BY <1>2, <2>4, <2>5, <2>6 DEF CommitFollows
<1>5. VerifyHead
  <2>1. tick > 0 => head \in CommitIds \ {Genesis}
    BY <1>1 DEF Genesis
  <2>2. QED BY <1>1, <1>2, <2>1 DEF VerifyHead
<1>6. QED BY <1>3, <1>4, <1>5

\* No sequence of store operations, by any number of workers and under any
\* clock, writes a history that Store::verify or verify_head refuses.
THEOREM EveryHistoryVerifies == Spec => []HistoryVerifies
<1>1. Init => RecordsInv
  <2> SUFFICES ASSUME NEW now \in Instants, Create(now) PROVE RecordsInv
    BY DEF Init
  <2>1. /\ attempts = <<>> /\ Len(commits) = 1 /\ head = 1 /\ failures = {}
        /\ accounting_wall = now /\ commits[1].committed_at = now
        /\ commits[1].disposition = {}
    BY DEF Create, Genesis
  <2>2. AttemptIds = {} /\ CommitIds = {1}
    BY <2>1 DEF AttemptIds, CommitIds
  <2>3. QED BY <2>1, <2>2 DEF RecordsInv, VerifyAccounting, DispositionReplays, Genesis
<1>2. ASSUME StoreInv, RecordsInv PROVE HistoryVerifies
  <2>1. TypeOK /\ AdmissionsInv
    BY <1>2 DEF StoreInv, KernelInv
  <2>2. VerifyChain /\ VerifyProvenance /\ VerifyHead /\ VerifyAccounting
    BY <1>2, ChainVerifies DEF RecordsInv
  <2>3. VerifyWakePlans
    BY <1>2 DEF RecordsInv, PlanReplays, VerifyWakePlans
  <2>4. VerifyDispositions
    BY <1>2 DEF RecordsInv, DispositionReplays, VerifyDispositions
  <2>5. VerifyAdmissions
    <3>1. Nondecreasing(AdmittedAt(Len(attempts)))
      BY <2>1, AdmittedAtProperties
    <3>2. ASSUME NEW a \in AttemptIds
          PROVE  /\ attempts[a].tick = commits[attempts[a].parent].tick
                 /\ occasions[attempts[a].occasion].kind = "scheduled" =>
                       attempts[a].observed_at >= occasions[attempts[a].occasion].payload
      <4>1. attempts[a].parent \in CommitIds
        BY <2>1 DEF TypeOK
      <4>2. QED BY <1>2, <4>1 DEF StoreInv, AttemptsInv, ChainInv, Message
    <3>3. QED BY <1>2, <3>1, <3>2 DEF RecordsInv, AdmissionReplays, VerifyAdmissions
  <2>6. VerifySettlements
    <3>1. ASSUME NEW a \in abstentions, NEW c \in CommitIds, commits[c].attempt = a
          PROVE  FALSE
      <4>1. a \in AttemptIds /\ attempts[a].status = "abstained"
        BY <1>2, <2>1 DEF TypeOK, RecordsInv, AdmissionReplays
      <4>2. c # Genesis => attempts[a].status = "committed"
        BY <1>2, <3>1 DEF StoreInv, ChainInv
      <4>3. CASE c = Genesis
        BY <1>2, <3>1, <4>1, <4>3 DEF StoreInv, ChainInv, AttemptIds, NoRow
      <4>4. QED BY <4>1, <4>2, <4>3
    <3>2. QED BY <1>2, <3>1 DEF RecordsInv, AdmissionReplays, FailureReplays,
                                VerifySettlements
  <2>7. QED BY <2>2, <2>3, <2>4, <2>5, <2>6 DEF HistoryVerifies
<1>3. QED BY <1>1, <1>2, NextRecordsInv, StoreInvHolds, PTL DEF Spec
=============================================================================
