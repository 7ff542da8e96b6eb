---------------------------- MODULE ClientProofs ----------------------------
(***************************************************************************)
(* The client, its requests and the host they reach, for every number of   *)
(* databases, drafts, controls and timeouts: the entry is owed one send,   *)
(* no draft is saved twice or lost, a pause that was acknowledged holds,   *)
(* and evidence is staged only for what was displayed.                     *)
(***************************************************************************)
EXTENDS Client, FiniteSetTheorems, SequenceTheorems, FunctionTheorems,
        WellFoundedInduction, TLAPS

-----------------------------------------------------------------------------
(* The inductive invariant.                                                *)

DraftRow == [text : Drafts \cup {Empty}, key : Nat]
ResultRow == [job : JobRow, ok : BOOLEAN, data : ViewRow \cup {Nothing}]
CallRow == [job : JobRow, open : BOOLEAN]
ControlRow == [paused : BOOLEAN, staged : [n : Nat, about : ViewRow] \cup {Nothing}]
SubjectRow == [head : Nat, settled : Nat]

ClientTypes ==
    /\ server \in [Sockets -> Databases \cup {Nobody}]
    /\ input \in Drafts \cup {Empty}
    /\ retry \in DraftRow
    /\ pending \in BOOLEAN /\ connected \in BOOLEAN /\ held \in BOOLEAN
    /\ snapshot \in ViewRow \cup {Nothing}
    /\ jobs \in Seq(JobRow)
    /\ results \in Seq(ResultRow)
    /\ call \in JobRow \cup {Nothing}
    /\ calls \in Seq(CallRow)
    /\ control \in ControlRow
    /\ inbox \in [Databases -> Seq(DraftRow)]
    /\ subject \in [Databases -> SubjectRow]
    /\ typed \in Seq(Drafts)
    /\ saved \in Seq(DraftRow)
    /\ issued \in Nat

\* The requests in each place.
Jobs == {jobs[i] : i \in DOMAIN jobs}
Queued == {calls[i].job : i \in DOMAIN calls}

\* The only open connection is the one the network thread waits for.
CallInv ==
    /\ \A i \in DOMAIN calls : calls[i].open => calls[i].job = call
    /\ \A i, j \in DOMAIN calls : calls[i].open /\ calls[j].open => i = j

\* Controls reach the host in the order they were entered.
Steers(job) == job.op \in {"pause", "resume", "evidence"}

OrderInv ==
    /\ \A job \in Jobs \cup Queued : Steers(job) => job.n <= issued
    /\ \A r \in Results : Steers(r.job) /\ r.ok => r.job.n <= issued
    /\ \A i, j \in DOMAIN jobs :
          i < j /\ Steers(jobs[i]) /\ Steers(jobs[j]) => jobs[i].n < jobs[j].n
    /\ \A i, j \in DOMAIN calls :
          i < j /\ Steers(calls[i].job) /\ Steers(calls[j].job) => calls[i].job.n < calls[j].job.n
    /\ \A first \in Queued, then \in Jobs :
          Steers(first) /\ Steers(then) => first.n < then.n

\* The last control entered was a pause, and it was executed.
Settled ==
    held \/ \E r \in Results : r.job.op = "pause" /\ r.ok /\ r.job.n = issued

SettledInv ==
    Settled => control.paused /\ \A job \in Jobs \cup Queued : ~Steers(job)

\* Evidence on its way, or staged, was entered for what it names.
BoundInv ==
    /\ \A job \in Jobs \cup Queued :
          job.op = "evidence" => [n |-> job.n, about |-> job.about] \in bound
    /\ EvidenceReachesItsRequest

\* The send in flight is the one the retry is kept for.
SendInv ==
    /\ SendIsOwed
    /\ pending => input = retry.text /\ input # Empty
    /\ \A job \in Jobs \cup {r.job : r \in Results} \cup ({call} \ {Nothing}) :
          Sending(job) => job.text = retry.text /\ job.key = retry.key

\* A key is the number of drafts written when the text was first sent.
Written(key, text) == key \in 1 .. Len(typed) /\ typed[key] = text

DraftInv ==
    /\ input # Empty => typed # <<>> /\ input = typed[Len(typed)]
    /\ retry = NoRetry \/ (retry.text # Empty /\ Written(retry.key, retry.text))
    /\ \A job \in Queued : Sending(job) => Written(job.key, job.text)
    /\ \A d \in Databases : \A i \in DOMAIN inbox[d] :
          Written(inbox[d][i].key, inbox[d][i].text)
    /\ \A d \in Databases : \A i, j \in DOMAIN inbox[d] :
          inbox[d][i].key = inbox[d][j].key => i = j

\* A text that is not the one kept for a retry was written after every send.
FreshInv ==
    input \notin {Empty, retry.text} =>
        /\ retry.key < Len(typed)
        /\ \A job \in Queued : Sending(job) => job.key < Len(typed)
        /\ \A d \in Databases : \A i \in DOMAIN inbox[d] : inbox[d][i].key < Len(typed)

Kept(draft) == \E d \in Databases : \E i \in DOMAIN inbox[d] : inbox[d][i] = draft

SavedInv ==
    /\ \A r \in Results :
          Sending(r.job) /\ r.ok => Kept([text |-> r.job.text, key |-> r.job.key])
    /\ \A i \in DOMAIN saved : Kept(saved[i])
    /\ \A i, j \in DOMAIN saved : saved[i].key = saved[j].key => i = j
    /\ retry # NoRetry => \A i \in DOMAIN saved : saved[i].key # retry.key

ClientInv ==
    /\ ClientTypes
    /\ CallInv
    /\ OrderInv
    /\ SettledInv
    /\ BoundInv
    /\ SendInv
    /\ DraftInv
    /\ FreshInv
    /\ SavedInv


-----------------------------------------------------------------------------
(* Queues.                                                                 *)

LEMMA AppendFacts ==
    ASSUME NEW S, NEW q \in Seq(S), NEW x \in S
    PROVE  /\ Append(q, x) \in Seq(S)
           /\ DOMAIN q = 1 .. Len(q) /\ Len(q) \in Nat
           /\ DOMAIN Append(q, x) = 1 .. Len(q) + 1
           /\ Append(q, x)[Len(q) + 1] = x
           /\ \A i \in DOMAIN q : i \in DOMAIN Append(q, x) /\ Append(q, x)[i] = q[i]
           /\ \A i \in DOMAIN Append(q, x) : i \in DOMAIN q \/ i = Len(q) + 1
           /\ {Append(q, x)[i] : i \in DOMAIN Append(q, x)} = {q[i] : i \in DOMAIN q} \cup {x}
<1>1. /\ Append(q, x) \in Seq(S)
      /\ Len(q) \in Nat /\ DOMAIN q = 1 .. Len(q)
      /\ Len(Append(q, x)) = Len(q) + 1
      /\ \A i \in 1 .. Len(q) : Append(q, x)[i] = q[i]
      /\ Append(q, x)[Len(q) + 1] = x
  BY AppendProperties, LenProperties
<1>2. DOMAIN Append(q, x) = 1 .. Len(q) + 1
  BY <1>1, LenProperties
<1>3. /\ \A i \in DOMAIN q : i \in DOMAIN Append(q, x) /\ Append(q, x)[i] = q[i]
      /\ \A i \in DOMAIN Append(q, x) : i \in DOMAIN q \/ i = Len(q) + 1
      /\ Len(q) + 1 \in DOMAIN Append(q, x)
  BY <1>1, <1>2
<1>4. {Append(q, x)[i] : i \in DOMAIN Append(q, x)} = {q[i] : i \in DOMAIN q} \cup {x}
  BY <1>1, <1>3
<1>5. QED BY <1>1, <1>2, <1>3, <1>4

LEMMA TailFacts ==
    ASSUME NEW S, NEW q \in Seq(S), q # <<>>
    PROVE  /\ Tail(q) \in Seq(S)
           /\ 1 \in DOMAIN q /\ Head(q) = q[1] /\ q[1] \in S
           /\ DOMAIN q = 1 .. Len(q) /\ Len(q) \in Nat
           /\ \A i \in DOMAIN Tail(q) : /\ i \in Nat /\ i + 1 \in DOMAIN q
                                        /\ Tail(q)[i] = q[i + 1]
           /\ \A i \in DOMAIN q \ {1} : i - 1 \in DOMAIN Tail(q)
           /\ {Tail(q)[i] : i \in DOMAIN Tail(q)} \subseteq {q[i] : i \in DOMAIN q}
<1>1. /\ Head(q) \in S /\ Tail(q) \in Seq(S)
      /\ Len(Tail(q)) = Len(q) - 1
      /\ \A i \in 1 .. Len(Tail(q)) : Tail(q)[i] = q[i + 1]
  BY HeadTailProperties
<1>2. Len(q) \in Nat \ {0} /\ DOMAIN q = 1 .. Len(q)
  BY EmptySeq, LenProperties
<1>3. DOMAIN Tail(q) = 1 .. Len(q) - 1
  BY <1>1, LenProperties
<1>4. Head(q) = q[1]
  OBVIOUS
<1>5. /\ 1 \in DOMAIN q
      /\ \A i \in DOMAIN Tail(q) : i \in Nat /\ i + 1 \in DOMAIN q /\ Tail(q)[i] = q[i + 1]
      /\ \A i \in DOMAIN q \ {1} : i - 1 \in DOMAIN Tail(q)
  BY <1>1, <1>2, <1>3
<1>6. QED BY <1>1, <1>2, <1>4, <1>5

\* The rows of a queue that lie in a set, and their number.
Hits(q, T) == {i \in DOMAIN q : q[i] \in T}

LEMMA HitsCount ==
    ASSUME NEW S, NEW q \in Seq(S), NEW T
    PROVE  /\ IsFiniteSet(Hits(q, T))
           /\ Cardinality(Hits(q, T)) \in Nat
           /\ Cardinality(Hits(q, T)) = 0 <=> \A i \in DOMAIN q : q[i] \notin T
<1>1. Hits(q, T) \in SUBSET (1 .. Len(q)) /\ Len(q) \in Nat
  BY LenProperties DEF Hits
<1>2. IsFiniteSet(1 .. Len(q))
  BY <1>1, FS_Interval
<1>3. IsFiniteSet(Hits(q, T))
  BY <1>1, <1>2, FS_Subset
<1>4. Cardinality(Hits(q, T)) \in Nat
  BY <1>3, FS_CardinalityType
<1>5. Cardinality(Hits(q, T)) = 0 <=> Hits(q, T) = {}
  BY <1>3, FS_EmptySet
<1>6. QED BY <1>3, <1>4, <1>5 DEF Hits

LEMMA HitsAppend ==
    ASSUME NEW S, NEW q \in Seq(S), NEW x \in S, NEW T
    PROVE  Cardinality(Hits(Append(q, x), T)) =
               Cardinality(Hits(q, T)) + (IF x \in T THEN 1 ELSE 0)
<1>1. Hits(Append(q, x), T) =
          IF x \in T THEN Hits(q, T) \cup {Len(q) + 1} ELSE Hits(q, T)
  <2>1. \A i : i \in Hits(Append(q, x), T) <=>
                   i \in Hits(q, T) \/ (i = Len(q) + 1 /\ x \in T)
    BY AppendFacts DEF Hits
  <2>2. QED BY <2>1
<1>2. Len(q) + 1 \notin Hits(q, T)
  BY AppendFacts DEF Hits
<1>3. IsFiniteSet(Hits(q, T)) /\ Cardinality(Hits(q, T)) \in Nat
  BY HitsCount
<1>4. Cardinality(Hits(q, T) \cup {Len(q) + 1}) = Cardinality(Hits(q, T)) + 1
  BY <1>2, <1>3, FS_AddElement
<1>5. QED BY <1>1, <1>3, <1>4

LEMMA HitsTail ==
    ASSUME NEW S, NEW q \in Seq(S), q # <<>>, NEW T
    PROVE  Cardinality(Hits(q, T)) =
               Cardinality(Hits(Tail(q), T)) + (IF q[1] \in T THEN 1 ELSE 0)
<1> DEFINE A == Hits(Tail(q), T)
           B == Hits(q, T) \ {1}
           f == [i \in A |-> i + 1]
<1>1. f \in [A -> B]
  BY TailFacts DEF Hits
<1>2. \A i, j \in A : f[i] = f[j] => i = j
  BY TailFacts DEF Hits
<1>3. \A j \in B : \E i \in A : f[i] = j
  <2> TAKE j \in B
  <2>1. j \in DOMAIN q \ {1} /\ j \in Nat /\ q[j] \in T
    BY TailFacts DEF Hits
  <2>2. j - 1 \in DOMAIN Tail(q) /\ Tail(q)[j - 1] = q[j - 1 + 1] /\ j - 1 + 1 = j
    BY <2>1, TailFacts
  <2>3. j - 1 \in A
    BY <2>1, <2>2 DEF Hits
  <2>4. QED BY <2>2, <2>3
<1>4. f \in Bijection(A, B)
  <2> HIDE DEF A, B, f
  <2>1. f \in Injection(A, B) /\ f \in Surjection(A, B)
    BY <1>1, <1>2, <1>3, Fun_IsInj, Fun_IsSurj
  <2>2. QED BY <2>1, Fun_IsBij
<1>5. IsFiniteSet(A) /\ Cardinality(A) \in Nat
  <2>1. PICK rest \in Seq(S) : rest = Tail(q)
    BY TailFacts
  <2>2. IsFiniteSet(Hits(rest, T)) /\ Cardinality(Hits(rest, T)) \in Nat
    BY HitsCount
  <2>3. QED BY <2>1, <2>2
<1>6. Cardinality(A) = Cardinality(B)
  <2> HIDE DEF A, B, f
  <2>1. ExistsBijection(A, B)
    BY <1>4 DEF ExistsBijection
  <2>2. QED BY <1>5, <2>1, FS_Bijection
<1>7. IsFiniteSet(Hits(q, T)) /\ Cardinality(Hits(q, T)) \in Nat
  BY HitsCount
<1>8. Cardinality(B) = IF 1 \in Hits(q, T) THEN Cardinality(Hits(q, T)) - 1
                                           ELSE Cardinality(Hits(q, T))
  BY <1>7, FS_RemoveElement
<1>9. 1 \in Hits(q, T) <=> q[1] \in T
  BY TailFacts DEF Hits
<1>10. QED
  <2> HIDE DEF B
  <2> QED BY <1>5, <1>6, <1>7, <1>8, <1>9


-----------------------------------------------------------------------------
(* The sends in flight.                                                    *)

SendJobs == {job \in JobRow : Sending(job)}
SendResults == {r \in ResultRow : Sending(r.job)}

OwedCall == IF call # Nothing /\ Sending(call) THEN 1 ELSE 0

LEMMA ResultFields ==
    ASSUME NEW job \in JobRow, NEW ok \in BOOLEAN, NEW data \in ViewRow \cup {Nothing}
    PROVE  /\ Result(job, ok, data) \in ResultRow
           /\ Result(job, ok, data).job = job /\ Result(job, ok, data).ok = ok
           /\ Result(job, ok, data).data = data
BY DEF Result, ResultRow

\* The count of SendIsOwed, place by place, before a step and after it.
LEMMA OwedPlaces ==
    ASSUME NEW js \in Seq(JobRow), NEW rs \in Seq(ResultRow), NEW c
    PROVE  /\ {i \in DOMAIN js : Sending(js[i])} = Hits(js, SendJobs)
           /\ {i \in DOMAIN rs : Sending(rs[i].job)} = Hits(rs, SendResults)
           /\ Cardinality({x \in {c} : x # Nothing /\ Sending(x)}) =
                (IF c # Nothing /\ Sending(c) THEN 1 ELSE 0)
<1>1. /\ {i \in DOMAIN js : Sending(js[i])} = Hits(js, SendJobs)
      /\ {i \in DOMAIN rs : Sending(rs[i].job)} = Hits(rs, SendResults)
  <2>1. /\ \A i \in DOMAIN js : js[i] \in JobRow
        /\ \A i \in DOMAIN rs : rs[i] \in ResultRow
    BY ElementOfSeq, LenProperties
  <2>2. QED BY <2>1 DEF Hits, SendJobs, SendResults
<1>2. CASE c # Nothing /\ Sending(c)
  <2>1. {x \in {c} : x # Nothing /\ Sending(x)} = {c}
    BY <1>2
  <2>2. QED BY <1>1, <1>2, <2>1, FS_Singleton
<1>3. CASE ~(c # Nothing /\ Sending(c))
  <2>1. {x \in {c} : x # Nothing /\ Sending(x)} = {}
    BY <1>3
  <2>2. QED BY <1>1, <1>3, <2>1, FS_EmptySet
<1>4. QED BY <1>2, <1>3

LEMMA Owed ==
    ASSUME ClientTypes
    PROVE  SendIsOwed <=>
             Cardinality(Hits(jobs, SendJobs)) + Cardinality(Hits(results, SendResults)) + OwedCall
               = IF pending THEN 1 ELSE 0
<1>1. jobs \in Seq(JobRow) /\ results \in Seq(ResultRow)
  BY DEF ClientTypes
<1>2. QED BY <1>1, OwedPlaces DEF SendIsOwed, OwedCall

LEMMA OwedNext ==
    ASSUME jobs' \in Seq(JobRow), results' \in Seq(ResultRow)
    PROVE  SendIsOwed' <=>
             Cardinality(Hits(jobs', SendJobs)) + Cardinality(Hits(results', SendResults)) + OwedCall'
               = IF pending' THEN 1 ELSE 0
BY OwedPlaces DEF SendIsOwed, OwedCall

\* Nothing is in flight unless the entry is locked.
LEMMA IdleEntry ==
    ASSUME ClientTypes, SendIsOwed
    PROVE  /\ Cardinality(Hits(jobs, SendJobs)) \in Nat
           /\ Cardinality(Hits(results, SendResults)) \in Nat
           /\ OwedCall \in {0, 1}
           /\ \A job \in Jobs : Sending(job) => pending
           /\ \A r \in Results : Sending(r.job) => pending
           /\ call # Nothing /\ Sending(call) => pending
<1>1. /\ jobs \in Seq(JobRow) /\ results \in Seq(ResultRow)
      /\ \A i \in DOMAIN jobs : jobs[i] \in JobRow
      /\ \A i \in DOMAIN results : results[i] \in ResultRow
  BY ElementOfSeq, LenProperties DEF ClientTypes
<1>2. /\ Cardinality(Hits(jobs, SendJobs)) \in Nat
      /\ Cardinality(Hits(results, SendResults)) \in Nat
  BY <1>1, HitsCount
<1>3. OwedCall \in {0, 1}
  BY DEF OwedCall
<1>4. ~pending => /\ Cardinality(Hits(jobs, SendJobs)) = 0
                  /\ Cardinality(Hits(results, SendResults)) = 0
                  /\ OwedCall = 0
  BY <1>2, <1>3, Owed
<1>5. ~pending => /\ \A i \in DOMAIN jobs : jobs[i] \notin SendJobs
                  /\ \A i \in DOMAIN results : results[i] \notin SendResults
  BY <1>1, <1>4, HitsCount
<1>6. /\ \A job \in Jobs : Sending(job) => pending
      /\ \A r \in Results : Sending(r.job) => pending
  BY <1>1, <1>5 DEF Jobs, Results, SendJobs, SendResults
<1>7. call # Nothing /\ Sending(call) => pending
  BY <1>4 DEF OwedCall
<1>8. QED BY <1>2, <1>3, <1>6, <1>7

\* The rows of the queues.
LEMMA QueueRows ==
    ASSUME ClientTypes
    PROVE  /\ Jobs \subseteq JobRow /\ Queued \subseteq JobRow
           /\ Results \subseteq ResultRow
           /\ \A i \in DOMAIN calls : calls[i] \in CallRow /\ calls[i].job \in JobRow
<1>1. /\ \A i \in DOMAIN jobs : jobs[i] \in JobRow
      /\ \A i \in DOMAIN results : results[i] \in ResultRow
      /\ \A i \in DOMAIN calls : calls[i] \in CallRow
  BY ElementOfSeq, LenProperties DEF ClientTypes
<1>2. QED BY <1>1 DEF Jobs, Queued, Results, CallRow

\* The job of a round, and what is left.
LEMMA NextJobFacts ==
    ASSUME ClientTypes
    PROVE  /\ NextJob \in JobRow /\ NextJob # Nothing
           /\ Dequeued \in Seq(JobRow)
           /\ {Dequeued[i] : i \in DOMAIN Dequeued} \subseteq Jobs
           /\ NextJob \in Jobs \/ (~Steers(NextJob) /\ ~Sending(NextJob))
           /\ Cardinality(Hits(jobs, SendJobs)) =
                Cardinality(Hits(Dequeued, SendJobs)) + (IF Sending(NextJob) THEN 1 ELSE 0)
           /\ Cardinality(Hits(Dequeued, SendJobs)) \in Nat
<1>1. jobs \in Seq(JobRow) /\ Nothing \notin JobRow
  BY ClientAssumption DEF ClientTypes
<1>2. CASE jobs = <<>>
  <2>1. NextJob = Job("snapshot", Empty, NoKey, Nothing, 0) /\ Dequeued = jobs
    BY <1>2 DEF NextJob, Dequeued
  <2>2. /\ NextJob \in JobRow /\ NextJob.op = "snapshot"
    BY <2>1 DEF Job, JobRow, NoKey
  <2>3. ~Steers(NextJob) /\ ~Sending(NextJob)
    BY <2>2 DEF Steers, Sending
  <2>4. Cardinality(Hits(jobs, SendJobs)) \in Nat
    BY <1>1, HitsCount
  <2>5. QED BY <1>1, <2>1, <2>2, <2>3, <2>4 DEF Jobs
<1>3. CASE jobs # <<>>
  <2>1. NextJob = jobs[1] /\ Dequeued = Tail(jobs)
    BY <1>1, <1>3, TailFacts DEF NextJob, Dequeued
  <2>2. /\ jobs[1] \in JobRow /\ 1 \in DOMAIN jobs /\ Tail(jobs) \in Seq(JobRow)
        /\ {Tail(jobs)[i] : i \in DOMAIN Tail(jobs)} \subseteq Jobs
    BY <1>1, <1>3, TailFacts DEF Jobs
  <2>3. Cardinality(Hits(jobs, SendJobs)) =
          Cardinality(Hits(Tail(jobs), SendJobs)) + (IF jobs[1] \in SendJobs THEN 1 ELSE 0)
    BY <1>1, <1>3, HitsTail
  <2>4. Cardinality(Hits(Tail(jobs), SendJobs)) \in Nat
    BY <2>2, HitsCount
  <2>5. jobs[1] \in SendJobs <=> Sending(jobs[1])
    BY <2>2 DEF SendJobs
  <2>6. jobs[1] \in Jobs
    BY <2>2 DEF Jobs
  <2>7. QED BY <1>1, <2>1, <2>2, <2>3, <2>4, <2>5, <2>6
<1>4. QED BY <1>2, <1>3


-----------------------------------------------------------------------------
(* What a step that leaves its state alone keeps of the invariant.         *)

LEMMA DraftsKept ==
    ASSUME DraftInv, FreshInv, UNCHANGED <<input, retry, typed, inbox>>,
           \A job \in Queued' : job \in Queued \/ ~Sending(job)
    PROVE  DraftInv' /\ FreshInv'
BY DEF DraftInv, FreshInv, Written

LEMMA SavedKept ==
    ASSUME SavedInv, UNCHANGED <<retry, saved, inbox>>,
           \A r \in Results' : r \in Results \/ ~Sending(r.job) \/ ~r.ok
    PROVE  SavedInv'
BY DEF SavedInv, Kept

LEMMA BoundKept ==
    ASSUME BoundInv, UNCHANGED <<bound, control, server>>,
           \A job \in Jobs' \cup Queued' : job \in Jobs \cup Queued \/ ~Steers(job)
    PROVE  BoundInv'
<1>1. EvidenceReachesItsRequest'
  BY DEF BoundInv, EvidenceReachesItsRequest, Db
<1>2. QED BY <1>1 DEF BoundInv, Steers

LEMMA SettledKept ==
    ASSUME SettledInv, UNCHANGED <<held, issued>>, control.paused => control'.paused,
           \A job \in Jobs' \cup Queued' : job \in Jobs \cup Queued \/ ~Steers(job),
           \A r \in Results' : r \in Results \/ r.job.op # "pause" \/ ~r.ok
    PROVE  SettledInv'
BY DEF SettledInv, Settled

LEMMA CallKept ==
    ASSUME CallInv, UNCHANGED <<calls, call>>
    PROVE  CallInv'
BY DEF CallInv

LEMMA OrderKept ==
    ASSUME OrderInv, UNCHANGED <<jobs, calls, issued>>,
           \A r \in Results' : r \in Results
    PROVE  OrderInv'
BY DEF OrderInv, Jobs, Queued

LEMMA SendKept ==
    ASSUME SendInv, UNCHANGED <<input, retry, pending, jobs, results, call>>
    PROVE  SendInv'
BY DEF SendInv, SendIsOwed, Jobs, Results

\* The network thread takes a job: the rest follow it.
LEMMA Dequeues ==
    ASSUME ClientTypes, OrderInv, jobs' = Dequeued
    PROVE  /\ \A i, j \in DOMAIN jobs' :
                 i < j /\ Steers(jobs'[i]) /\ Steers(jobs'[j]) => jobs'[i].n < jobs'[j].n
           /\ \A then \in Jobs' : Steers(NextJob) /\ Steers(then) => NextJob.n < then.n
           /\ \A job \in Jobs' : job \in Jobs
<1>1. CASE jobs = <<>>
  BY <1>1 DEF Dequeued, OrderInv, Jobs
<1>2. CASE jobs # <<>>
  <2>1. jobs' = Tail(jobs) /\ NextJob = jobs[1] /\ jobs \in Seq(JobRow)
    BY <1>2, TailFacts DEF Dequeued, NextJob, ClientTypes
  <2>2. \A i \in DOMAIN jobs' : /\ i \in Nat /\ i + 1 \in DOMAIN jobs
                                /\ jobs'[i] = jobs[i + 1]
    BY <1>2, <2>1, TailFacts
  <2>3. 1 \in DOMAIN jobs /\ \A i \in DOMAIN jobs : i \in Nat
    BY <1>2, <2>1, TailFacts
  <2>4. \A i, j \in DOMAIN jobs' : i < j => i + 1 < j + 1
    BY <2>2
  <2>5. \A i \in DOMAIN jobs' : 1 < i + 1
    <3> TAKE i \in DOMAIN jobs'
    <3>1. i \in 1 .. Len(jobs')
      BY <1>2, <2>1, TailFacts, LenProperties
    <3>2. QED BY <2>2, <3>1
  <2>6. \A i, j \in DOMAIN jobs :
           i < j /\ Steers(jobs[i]) /\ Steers(jobs[j]) => jobs[i].n < jobs[j].n
    BY DEF OrderInv
  <2>7. \A i, j \in DOMAIN jobs' :
           i < j /\ Steers(jobs'[i]) /\ Steers(jobs'[j]) => jobs'[i].n < jobs'[j].n
    BY <2>2, <2>4, <2>6
  <2>8. \A i \in DOMAIN jobs' :
           Steers(NextJob) /\ Steers(jobs'[i]) => NextJob.n < jobs'[i].n
    BY <2>1, <2>2, <2>3, <2>5, <2>6
  <2>9. QED BY <2>2, <2>7, <2>8 DEF Jobs
<1>3. QED BY <1>1, <1>2


-----------------------------------------------------------------------------
(* The UI thread.                                                          *)

\* A draft is written after everything that was sent.
LEMMA WriteClientInv ==
    ASSUME ClientInv, NEW x \in Drafts, Write(x), UNCHANGED <<server, hostVars>>
    PROVE  ClientInv'
<1>1. /\ ~pending /\ input' = x /\ typed' = Append(typed, x) /\ x # Empty
      /\ typed \in Seq(Drafts)
      /\ UNCHANGED <<retry, pending, connected, snapshot, jobs, results, call, saved, issued,
                     bound, held, server, calls, control, inbox, subject>>
  BY ClientAssumption DEF Write, queueVars, hostVars, ClientInv, ClientTypes
<1>2. /\ typed' \in Seq(Drafts) /\ DOMAIN typed = 1 .. Len(typed)
      /\ Len(typed) \in Nat /\ Len(typed') = Len(typed) + 1
      /\ typed'[Len(typed) + 1] = x
      /\ \A i \in DOMAIN typed : typed'[i] = typed[i]
  BY <1>1, AppendFacts, AppendProperties
<1>3. ClientTypes'
  BY <1>1, <1>2 DEF ClientInv, ClientTypes
<1>4. CallInv'
  BY <1>1, CallKept DEF ClientInv
<1>5. OrderInv'
  BY <1>1 DEF ClientInv, OrderInv, Jobs, Queued, Results
<1>6. SettledInv'
  BY <1>1 DEF ClientInv, SettledInv, Settled, Jobs, Queued, Results
<1>7. BoundInv'
  BY <1>1 DEF ClientInv, BoundInv, EvidenceReachesItsRequest, Db, Jobs, Queued
<1>8. SendInv'
  BY <1>1 DEF ClientInv, SendInv, SendIsOwed, Jobs, Results
<1>9. \A key, text : Written(key, text) => Written(key, text)' /\ key \in Nat /\ key <= Len(typed)
  BY <1>2 DEF Written
<1>10. DraftInv'
  <2>1. typed' # <<>> /\ input' = typed'[Len(typed')]
    BY <1>1, <1>2
  <2>2. QED BY <1>1, <1>9, <2>1 DEF ClientInv, DraftInv, Queued
<1>11. FreshInv'
  <2>1. retry.key <= Len(typed) /\ retry.key \in Nat
    BY <1>2, <1>9 DEF ClientInv, DraftInv, NoRetry, NoKey
  <2>2. \A job \in Queued : Sending(job) => job.key \in Nat /\ job.key <= Len(typed)
    BY <1>9 DEF ClientInv, DraftInv
  <2>3. \A d \in Databases : \A i \in DOMAIN inbox[d] :
           inbox[d][i].key \in Nat /\ inbox[d][i].key <= Len(typed)
    BY <1>9 DEF ClientInv, DraftInv
  <2>4. \A k \in Nat : k <= Len(typed) => k < Len(typed')
    BY <1>2
  <2>5. QED BY <1>1, <2>1, <2>2, <2>3, <2>4 DEF FreshInv, Queued
<1>12. SavedInv'
  BY <1>1, SavedKept DEF ClientInv, Results
<1>13. QED
  BY <1>3, <1>4, <1>5, <1>6, <1>7, <1>8, <1>10, <1>11, <1>12 DEF ClientInv

\* The entry is emptied.
LEMMA ClearClientInv ==
    ASSUME ClientInv, Clear, UNCHANGED <<server, hostVars>>
    PROVE  ClientInv'
<1>1. /\ ~pending /\ input' = Empty
      /\ UNCHANGED <<retry, pending, connected, snapshot, jobs, results, call, typed, saved,
                     issued, bound, held, server, calls, control, inbox, subject>>
  BY DEF Clear, queueVars, historyVars, hostVars
<1>2. ClientTypes'
  BY <1>1 DEF ClientInv, ClientTypes
<1>3. CallInv' /\ OrderInv'
  BY <1>1, CallKept, OrderKept DEF ClientInv, Results
<1>4. SettledInv' /\ BoundInv'
  BY <1>1, SettledKept, BoundKept DEF ClientInv, Results, Jobs, Queued
<1>5. SendInv'
  BY <1>1 DEF ClientInv, SendInv, SendIsOwed, Jobs, Results
<1>6. DraftInv' /\ FreshInv'
  BY <1>1 DEF ClientInv, DraftInv, FreshInv, Queued, Written
<1>7. SavedInv'
  BY <1>1, SavedKept DEF ClientInv, Results
<1>8. QED BY <1>2, <1>3, <1>4, <1>5, <1>6, <1>7 DEF ClientInv

\* The key of a text: a new one unless the text is the one that was not saved.
LEMMA RetryFacts ==
    ASSUME ClientInv, input # Empty
    PROVE  /\ Retry \in DraftRow /\ Retry.text = input /\ Written(Retry.key, Retry.text)
           /\ \A i \in DOMAIN saved : saved[i].key # Retry.key
<1>1. /\ typed # <<>> /\ input = typed[Len(typed)] /\ typed \in Seq(Drafts)
      /\ input \in Drafts \cup {Empty} /\ retry \in DraftRow
  BY DEF ClientInv, DraftInv, ClientTypes
<1>2. Len(typed) \in Nat \ {0} /\ DOMAIN typed = 1 .. Len(typed)
  BY <1>1, EmptySeq, LenProperties
<1>3. CASE input # retry.text
  <2>1. Retry = [text |-> input, key |-> Len(typed)]
    BY <1>3 DEF Retry, nonce
  <2>2. Retry \in DraftRow /\ Retry.text = input /\ Retry.key = Len(typed)
    BY <1>1, <1>2, <2>1 DEF DraftRow
  <2>3. Written(Len(typed), input)
    BY <1>1, <1>2 DEF Written
  <2>4. \A d \in Databases : \A i \in DOMAIN inbox[d] : inbox[d][i].key < Len(typed)
    BY <1>3 DEF ClientInv, FreshInv
  <2>5. \A i \in DOMAIN saved : saved[i].key # Len(typed)
    BY <1>2, <2>4 DEF ClientInv, SavedInv, Kept
  <2>6. QED BY <2>2, <2>3, <2>5
<1>4. CASE input = retry.text
  <2>1. Retry = retry /\ retry # NoRetry
    BY <1>4 DEF Retry, NoRetry
  <2>2. Written(retry.key, retry.text)
    BY <2>1 DEF ClientInv, DraftInv
  <2>3. QED BY <1>1, <1>4, <2>1, <2>2 DEF ClientInv, SavedInv
<1>5. QED BY <1>3, <1>4

\* Enter locks the entry for the one send it puts in the queue.
LEMMA SendClientInv ==
    ASSUME ClientInv, Send, UNCHANGED <<server, hostVars>>
    PROVE  ClientInv'
<1>1. /\ ~pending /\ pending' = TRUE /\ input # Empty /\ retry' = Retry
      /\ UNCHANGED <<input, connected, snapshot, results, call, typed, saved, issued, bound,
                     held, server, calls, control, inbox, subject>>
  BY DEF Send, enqueue, historyVars, hostVars
<1>2. PICK job : job = Job("send", input, retry'.key, Nothing, 0) /\ jobs' = Append(jobs, job)
  BY DEF Send, enqueue
<1>3. /\ retry' \in DraftRow /\ retry'.text = input /\ Written(retry'.key, retry'.text)
      /\ \A i \in DOMAIN saved : saved[i].key # retry'.key
  BY <1>1, RetryFacts
<1>4. input \in Drafts /\ retry'.key \in Nat /\ jobs \in Seq(JobRow)
  BY <1>1, <1>3 DEF ClientInv, ClientTypes, DraftRow
<1>5. /\ job \in JobRow /\ Sending(job) /\ ~Steers(job)
      /\ job.text = retry'.text /\ job.key = retry'.key
  BY <1>2, <1>3, <1>4 DEF Job, JobRow, Sending, Steers
<1>6. /\ jobs' \in Seq(JobRow) /\ Jobs' = Jobs \cup {job} /\ Queued' = Queued
      /\ Results' = Results
      /\ \A i \in DOMAIN jobs : jobs'[i] = jobs[i]
      /\ \A i \in DOMAIN jobs' : i \in DOMAIN jobs \/ jobs'[i] = job
  BY <1>1, <1>2, <1>4, <1>5, AppendFacts DEF Jobs, Queued, Results
<1>7. ClientTypes'
  BY <1>1, <1>3, <1>6 DEF ClientInv, ClientTypes
<1>8. CallInv'
  BY <1>1, CallKept DEF ClientInv
<1>9. OrderInv'
  BY <1>1, <1>5, <1>6 DEF ClientInv, OrderInv
<1>10. SettledInv' /\ BoundInv'
  BY <1>1, <1>5, <1>6, SettledKept, BoundKept DEF ClientInv
<1>11. SendInv'
  <2>1. ClientTypes /\ SendIsOwed
    BY DEF ClientInv, SendInv
  <2>2. /\ Cardinality(Hits(jobs, SendJobs)) + Cardinality(Hits(results, SendResults)) + OwedCall = 0
        /\ Cardinality(Hits(jobs, SendJobs)) \in Nat
        /\ Cardinality(Hits(results, SendResults)) \in Nat
        /\ OwedCall \in {0, 1}
    BY <1>1, <2>1, Owed, IdleEntry
  <2>3. job \in SendJobs
    BY <1>5 DEF SendJobs
  <2>4. Cardinality(Hits(jobs', SendJobs)) = Cardinality(Hits(jobs, SendJobs)) + 1
    BY <1>2, <1>4, <1>5, <2>3, HitsAppend
  <2>5. OwedCall' = OwedCall
    BY <1>1 DEF OwedCall
  <2>6. Cardinality(Hits(jobs', SendJobs)) + Cardinality(Hits(results', SendResults)) + OwedCall' = 1
    BY <1>1, <2>2, <2>4, <2>5
  <2>7. SendIsOwed'
    <3>1. SendIsOwed' <=>
            Cardinality(Hits(jobs', SendJobs)) + Cardinality(Hits(results', SendResults)) + OwedCall'
              = IF pending' THEN 1 ELSE 0
      BY <1>7, OwedNext DEF ClientTypes
    <3>2. QED BY <1>1, <2>6, <3>1
  <2>8. \A j \in Jobs \cup {r.job : r \in Results} \cup ({call} \ {Nothing}) : ~Sending(j)
    BY <1>1, <2>1, IdleEntry
  <2>9. \A j \in Jobs' \cup {r.job : r \in Results'} \cup ({call'} \ {Nothing}) :
           Sending(j) => j.text = retry'.text /\ j.key = retry'.key
    BY <1>1, <1>5, <1>6, <2>8
  <2>10. QED BY <1>1, <1>3, <2>7, <2>9 DEF SendInv
<1>12. DraftInv' /\ FreshInv'
  <2>1. retry'.text # Empty
    BY <1>1, <1>3
  <2>2. (retry.text # Empty /\ Written(retry.key, retry.text))'
    BY <1>1, <1>3, <2>1 DEF Written
  <2>3. DraftInv'
    BY <1>1, <1>6, <2>2 DEF ClientInv, DraftInv, Written
  <2>4. QED BY <1>1, <1>3, <2>3 DEF FreshInv
<1>13. SavedInv'
  BY <1>1, <1>3, <1>6 DEF ClientInv, SavedInv, Kept
<1>14. QED
  BY <1>7, <1>8, <1>9, <1>10, <1>11, <1>12, <1>13 DEF ClientInv


\* A control is entered: it comes after every other, and nothing is settled.
LEMMA IssueClientInv ==
    ASSUME ClientInv, NEW op \in {"pause", "resume", "evidence"}, Issue(op),
           UNCHANGED <<server, hostVars>>
    PROVE  ClientInv'
<1>1. /\ ~pending /\ input' = Empty /\ issued' = issued + 1 /\ held' = FALSE
      /\ UNCHANGED <<retry, pending, connected, snapshot, results, call, typed, saved,
                     server, calls, control, inbox, subject>>
  BY DEF Issue, enqueue, hostVars
<1>2. PICK about : about = IF op = "evidence" THEN snapshot ELSE Nothing
  OBVIOUS
<1>3. PICK job : job = Job(op, Empty, NoKey, about, issued + 1) /\ jobs' = Append(jobs, job)
  BY <1>2 DEF Issue, enqueue
<1>4. /\ bound' = bound \cup {[n |-> issued + 1, about |-> about]}
      /\ issued \in Nat /\ jobs \in Seq(JobRow) /\ about \in ViewRow \cup {Nothing}
  BY <1>2 DEF Issue, ClientInv, ClientTypes
<1>5. /\ job \in JobRow /\ ~Sending(job) /\ job.n = issued + 1 /\ job.about = about
  BY <1>3, <1>4 DEF Job, JobRow, NoKey, Sending
<1>6. /\ jobs' \in Seq(JobRow) /\ Jobs' = Jobs \cup {job} /\ Queued' = Queued
      /\ Results' = Results
      /\ DOMAIN jobs = 1 .. Len(jobs) /\ Len(jobs) \in Nat
      /\ DOMAIN jobs' = 1 .. Len(jobs) + 1 /\ jobs'[Len(jobs) + 1] = job
      /\ \A i \in DOMAIN jobs : jobs'[i] = jobs[i]
  BY <1>1, <1>3, <1>4, <1>5, AppendFacts DEF Jobs, Queued, Results
<1>7. ClientTypes'
  <2>1. input' \in Drafts \cup {Empty} /\ issued' \in Nat
    BY <1>1, <1>4
  <2>2. held' \in BOOLEAN
    BY <1>1
  <2>3. QED BY <1>1, <1>6, <2>1, <2>2 DEF ClientInv, ClientTypes
<1>8. CallInv'
  BY <1>1, CallKept DEF ClientInv
<1>9. OrderInv'
  <2>1. \A j \in Jobs \cup Queued \cup {r.job : r \in Results} : j.n \in Nat
    BY QueueRows DEF ClientInv, JobRow, ResultRow
  <2>2. \A j \in Jobs \cup Queued : Steers(j) => j.n < job.n
    BY <1>4, <1>5, <2>1 DEF ClientInv, OrderInv
  <2>3. \A i, j \in DOMAIN jobs' :
           i < j /\ Steers(jobs'[i]) /\ Steers(jobs'[j]) => jobs'[i].n < jobs'[j].n
    <3> SUFFICES ASSUME NEW i \in DOMAIN jobs', NEW j \in DOMAIN jobs', i < j,
                        Steers(jobs'[i]), Steers(jobs'[j])
                 PROVE  jobs'[i].n < jobs'[j].n
      OBVIOUS
    <3>1. i \in DOMAIN jobs /\ jobs'[i] = jobs[i]
      BY <1>6
    <3>2. CASE j \in DOMAIN jobs
      BY <1>6, <3>1, <3>2 DEF ClientInv, OrderInv
    <3>3. CASE j \notin DOMAIN jobs
      <4>1. jobs'[j] = job
        BY <1>6, <3>3
      <4>2. jobs[i] \in Jobs
        BY <3>1 DEF Jobs
      <4>3. QED BY <2>2, <3>1, <4>1, <4>2
    <3>4. QED BY <3>2, <3>3
  <2>4. \A j \in Jobs' \cup Queued' : Steers(j) => j.n <= issued'
    BY <1>1, <1>4, <1>5, <1>6, <2>1 DEF ClientInv, OrderInv
  <2>5. \A r \in Results' : Steers(r.job) /\ r.ok => r.job.n <= issued'
    BY <1>1, <1>4, <1>6, <2>1 DEF ClientInv, OrderInv
  <2>6. \A first \in Queued', then \in Jobs' :
           Steers(first) /\ Steers(then) => first.n < then.n
    BY <1>6, <2>2 DEF ClientInv, OrderInv
  <2>7. QED BY <1>1, <2>3, <2>4, <2>5, <2>6 DEF ClientInv, OrderInv
<1>10. SettledInv'
  <2>1. \A r \in Results : r.job.op = "pause" /\ r.ok => r.job.n # issued + 1
    <3>1. \A r \in Results : r.job.n \in Nat
      BY QueueRows DEF ClientInv, JobRow, ResultRow
    <3>2. QED BY <1>4, <3>1 DEF ClientInv, OrderInv, Steers
  <2>2. QED BY <1>1, <1>6, <2>1 DEF SettledInv, Settled
<1>11. BoundInv'
  <2>1. EvidenceReachesItsRequest'
    BY <1>1, <1>4 DEF ClientInv, BoundInv, EvidenceReachesItsRequest, Db
  <2>2. [n |-> job.n, about |-> job.about] \in bound'
    BY <1>4, <1>5
  <2>3. QED BY <1>4, <1>6, <2>1, <2>2 DEF ClientInv, BoundInv
<1>12. SendInv'
  <2>1. ClientTypes /\ SendIsOwed
    BY DEF ClientInv, SendInv
  <2>2. job \notin SendJobs
    BY <1>5 DEF SendJobs
  <2>3. Cardinality(Hits(jobs', SendJobs)) = Cardinality(Hits(jobs, SendJobs))
    <3>1. Cardinality(Hits(jobs, SendJobs)) \in Nat
      BY <2>1, IdleEntry
    <3>2. QED BY <1>3, <1>4, <1>5, <2>2, <3>1, HitsAppend
  <2>4. OwedCall' = OwedCall
    BY <1>1 DEF OwedCall
  <2>5. SendIsOwed'
    BY <1>1, <1>7, <2>1, <2>3, <2>4, Owed, OwedNext DEF ClientTypes
  <2>6. QED BY <1>1, <1>5, <1>6, <2>5 DEF ClientInv, SendInv
<1>13. DraftInv' /\ FreshInv'
  BY <1>1 DEF ClientInv, DraftInv, FreshInv, Queued, Written
<1>14. SavedInv'
  BY <1>1, <1>6, SavedKept DEF ClientInv
<1>15. QED
  BY <1>7, <1>8, <1>9, <1>10, <1>11, <1>12, <1>13, <1>14 DEF ClientInv

\* A nonempty set of rows has a last one.
LEMMA LastRow ==
    ASSUME NEW n \in Nat, NEW K \in SUBSET (1 .. n), K # {}
    PROVE  \E i \in K : \A j \in K : j <= i
<1> DEFINE D == {d \in 0 .. n : n - d \in K}
<1>1. D \subseteq Nat /\ D # {}
  <2>1. PICK k \in K : TRUE
    OBVIOUS
  <2>2. n - k \in 0 .. n /\ n - (n - k) = k
    OBVIOUS
  <2>3. n - k \in D
    BY <2>2
  <2>4. D \subseteq Nat
    OBVIOUS
  <2> HIDE DEF D
  <2>5. QED BY <2>3, <2>4
<1>2. PICK d \in D : \A e \in D : ~(<<e, d>> \in OpToRel(<, Nat))
  <2> HIDE DEF D
  <2> QED BY <1>1, WFMin, NatLessThanWellFounded
<1>3. \A e \in D : d <= e
  <2> HIDE DEF D
  <2>1. \A e \in D : ~(e < d) /\ e \in Nat
    BY <1>1, <1>2 DEF OpToRel
  <2>2. QED BY <1>1, <2>1
<1>4. \A k \in K : n - k \in D
  <2> TAKE k \in K
  <2>1. n - k \in 0 .. n /\ n - (n - k) = k
    OBVIOUS
  <2>2. QED BY <2>1
<1>5. \A k \in K : k <= n - d
  BY <1>3, <1>4
<1>6. n - d \in K
  OBVIOUS
<1>7. QED BY <1>5, <1>6

\* The view follows the last polls of a batch.
LEMMA DrainTypes ==
    ASSUME ClientTypes, Drain
    PROVE  connected' \in BOOLEAN /\ snapshot' \in ViewRow \cup {Nothing}
<1> DEFINE last(S) == CHOOSE i \in S : \A j \in S : j <= i
           polls == {i \in DOMAIN results : results[i].job.op = "snapshot"}
           good == {i \in polls : results[i].ok}
<1>1. /\ results \in Seq(ResultRow) /\ DOMAIN results = 1 .. Len(results) /\ Len(results) \in Nat
      /\ \A i \in DOMAIN results : results[i] \in ResultRow
  BY ElementOfSeq, LenProperties DEF ClientTypes
<1>2. \A S \in SUBSET DOMAIN results : S # {} => last(S) \in S
  BY <1>1, LastRow
<1>3. polls \in SUBSET DOMAIN results /\ good \in SUBSET DOMAIN results
  OBVIOUS
<1>4. polls # {} => results[last(polls)].ok \in BOOLEAN
  <2> HIDE DEF last, polls
  <2> QED BY <1>1, <1>2, <1>3 DEF ResultRow
<1>5. good # {} => results[last(good)].data \in ViewRow \cup {Nothing}
  <2> HIDE DEF last, good
  <2> QED BY <1>1, <1>2, <1>3 DEF ResultRow
<1>6. /\ connected' = IF polls = {} THEN connected ELSE results[last(polls)].ok
      /\ snapshot' = IF good = {} THEN snapshot ELSE results[last(good)].data
  BY DEF Drain
<1>7. QED
  <2> HIDE DEF last, polls, good
  <2> QED BY <1>4, <1>5, <1>6 DEF ClientTypes


\* A batch of results: a good send is the one kept for a retry, and empties the
\* entry; a failed one only unlocks it.
LEMMA DrainClientInv ==
    ASSUME ClientInv, Drain, UNCHANGED <<server, hostVars>>
    PROVE  ClientInv'
<1> DEFINE done == \E r \in Results : Sending(r.job) /\ r.ok
           sent == \E r \in Results : Sending(r.job)
           pause == \E r \in Results : r.job.op = "pause" /\ r.ok /\ r.job.n = issued
<1>1. /\ results' = <<>>
      /\ pending' = (pending /\ \A r \in Results : ~Sending(r.job))
      /\ input' = (IF done THEN Empty ELSE input)
      /\ retry' = (IF done THEN NoRetry ELSE retry)
      /\ saved' = (IF done THEN Append(saved, retry) ELSE saved)
      /\ held' = (held \/ pause)
      /\ UNCHANGED <<jobs, call, typed, issued, bound, server, calls, control, inbox, subject>>
  BY DEF Drain, hostVars
<1>2. ClientTypes /\ SendIsOwed
  BY DEF ClientInv, SendInv
<1>3. sent => pending
  BY <1>2, IdleEntry
<1>4. /\ Jobs' = Jobs /\ Queued' = Queued /\ Results' = {}
  BY <1>1 DEF Jobs, Queued, Results
<1>5. done => /\ retry # NoRetry /\ Kept(retry) /\ retry \in DraftRow
  <2> SUFFICES ASSUME done PROVE retry # NoRetry /\ Kept(retry) /\ retry \in DraftRow
    OBVIOUS
  <2>1. PICK r \in Results : Sending(r.job) /\ r.ok
    OBVIOUS
  <2>2. pending
    BY <1>3, <2>1
  <2>3. input = retry.text /\ input # Empty
    BY <2>2 DEF ClientInv, SendInv
  <2>4. r.job.text = retry.text /\ r.job.key = retry.key
    BY <2>1 DEF ClientInv, SendInv
  <2>5. retry \in DraftRow /\ retry = [text |-> retry.text, key |-> retry.key]
    BY DEF ClientInv, ClientTypes, DraftRow
  <2>6. Kept([text |-> r.job.text, key |-> r.job.key])
    BY <2>1 DEF ClientInv, SavedInv
  <2>7. QED BY <2>3, <2>4, <2>5, <2>6 DEF NoRetry
<1>6. ClientTypes'
  <2>1. connected' \in BOOLEAN /\ snapshot' \in ViewRow \cup {Nothing}
    BY <1>2, DrainTypes
  <2>2. results' \in Seq(ResultRow) /\ input' \in Drafts \cup {Empty}
    BY <1>1, <1>2 DEF ClientTypes
  <2>3. retry' \in DraftRow
    BY <1>1, <1>2 DEF ClientTypes, NoRetry, NoKey, DraftRow
  <2>4. saved' \in Seq(DraftRow)
    BY <1>1, <1>2, <1>5, AppendFacts DEF ClientTypes
  <2>5. pending' \in BOOLEAN
    BY <1>1
  <2>6. held' \in BOOLEAN
    <3> HIDE DEF pause
    <3> QED BY <1>1
  <2>7. QED BY <1>1, <1>2, <2>1, <2>2, <2>3, <2>4, <2>5, <2>6 DEF ClientTypes
<1>7. CallInv' /\ OrderInv'
  BY <1>1, <1>4, CallKept, OrderKept DEF ClientInv
<1>8. SettledInv'
  <2>1. Settled' => Settled
    BY <1>1, <1>4 DEF Settled
  <2>2. QED BY <1>1, <1>4, <2>1 DEF ClientInv, SettledInv
<1>9. BoundInv'
  BY <1>1, <1>4, BoundKept DEF ClientInv
<1>10. SendInv'
  <2>1. /\ Cardinality(Hits(jobs, SendJobs)) \in Nat
        /\ Cardinality(Hits(results, SendResults)) \in Nat
        /\ OwedCall \in {0, 1}
    BY <1>2, IdleEntry
  <2>2. Cardinality(Hits(jobs, SendJobs)) + Cardinality(Hits(results, SendResults)) + OwedCall
          = IF pending THEN 1 ELSE 0
    BY <1>2, Owed
  <2>3. Cardinality(Hits(results, SendResults)) = 0 <=> ~sent
    <3>1. \A i \in DOMAIN results : results[i] \in ResultRow
      BY <1>2, ElementOfSeq, LenProperties DEF ClientTypes
    <3>2. results \in Seq(ResultRow)
      BY <1>2 DEF ClientTypes
    <3>3. (\A i \in DOMAIN results : results[i] \notin SendResults) <=> ~sent
      BY <3>1 DEF Results, SendResults
    <3>4. QED BY <3>2, <3>3, HitsCount
  <2>4. /\ Cardinality(Hits(jobs', SendJobs)) = Cardinality(Hits(jobs, SendJobs))
        /\ OwedCall' = OwedCall
    BY <1>1 DEF OwedCall
  <2>5. Cardinality(Hits(results', SendResults)) = 0
    <3>1. Hits(results', SendResults) = {}
      BY <1>1 DEF Hits
    <3>2. QED BY <3>1, FS_EmptySet
  <2>6. sent => Cardinality(Hits(jobs, SendJobs)) = 0 /\ OwedCall = 0
    <3> HIDE DEF sent
    <3> QED BY <2>1, <2>2, <2>3
  <2>7. pending' <=> pending /\ ~sent
    BY <1>1
  <2>8. SendIsOwed'
    <3> HIDE DEF sent
    <3>1. CASE sent
      BY <1>6, <2>4, <2>5, <2>6, <2>7, <3>1, OwedNext DEF ClientTypes
    <3>2. CASE ~sent
      BY <1>6, <2>1, <2>2, <2>3, <2>4, <2>5, <2>7, <3>2, OwedNext DEF ClientTypes
    <3>3. QED BY <3>1, <3>2
  <2>9. pending' => input' = retry'.text /\ input' # Empty
    BY <1>1 DEF ClientInv, SendInv
  <2>10. \A job \in Jobs \cup ({call} \ {Nothing}) :
            Sending(job) => ~sent /\ job.text = retry.text /\ job.key = retry.key
    <3>1. sent => \A i \in DOMAIN jobs : jobs[i] \notin SendJobs
      BY <1>2, <2>6, HitsCount DEF ClientTypes
    <3>2. sent => \A job \in Jobs : ~Sending(job)
      BY <1>2, <3>1, ElementOfSeq, LenProperties DEF Jobs, SendJobs, ClientTypes
    <3>3. sent => ~(call # Nothing /\ Sending(call))
      BY <2>6 DEF OwedCall
    <3>4. QED BY <3>2, <3>3 DEF ClientInv, SendInv
  <2>11. \A job \in Jobs' \cup {r.job : r \in Results'} \cup ({call'} \ {Nothing}) :
            Sending(job) => job.text = retry'.text /\ job.key = retry'.key
    BY <1>1, <1>4, <2>10
  <2>12. QED BY <2>8, <2>9, <2>11 DEF SendInv
<1>11. DraftInv' /\ FreshInv'
  BY <1>1, <1>4 DEF ClientInv, DraftInv, FreshInv, Written
<1>12. SavedInv'
  <2>1. CASE ~done
    <3> HIDE DEF done
    <3> QED BY <1>1, <1>4, <2>1 DEF ClientInv, SavedInv, Kept
  <2>2. CASE done
    <3> HIDE DEF done
    <3>1. /\ DOMAIN saved = 1 .. Len(saved) /\ Len(saved) \in Nat
          /\ DOMAIN saved' = 1 .. Len(saved) + 1 /\ saved'[Len(saved) + 1] = retry
          /\ \A i \in DOMAIN saved : saved'[i] = saved[i]
      BY <1>1, <1>2, <1>5, <2>2, AppendFacts DEF ClientTypes
    <3>2. \A i \in DOMAIN saved' : i \in DOMAIN saved \/ i = Len(saved) + 1
      BY <3>1
    <3>3. \A i \in DOMAIN saved' :
             \E d \in Databases : \E k \in DOMAIN inbox'[d] : inbox'[d][k] = saved'[i]
      BY <1>1, <1>5, <2>2, <3>1, <3>2 DEF ClientInv, SavedInv, Kept
    <3>4. \A i, j \in DOMAIN saved' : saved'[i].key = saved'[j].key => i = j
      BY <1>5, <2>2, <3>1, <3>2 DEF ClientInv, SavedInv
    <3>5. retry' = NoRetry
      BY <1>1, <2>2
    <3>6. QED BY <1>4, <3>3, <3>4, <3>5 DEF SavedInv, Kept
  <2>3. QED BY <2>1, <2>2
<1>13. QED
  BY <1>6, <1>7, <1>8, <1>9, <1>10, <1>11, <1>12 DEF ClientInv


-----------------------------------------------------------------------------
(* The network thread.                                                     *)

\* The job of a call ends as a result.
LEMMA CallEnds ==
    ASSUME ClientInv, NEW r \in ResultRow, call # Nothing, r.job = call,
           results' = Append(results, r), call' = Nothing, jobs' = jobs,
           UNCHANGED <<input, retry, pending>>
    PROVE  SendInv'
<1>1. /\ ClientTypes /\ SendIsOwed /\ results \in Seq(ResultRow)
      /\ jobs' \in Seq(JobRow) /\ results' \in Seq(ResultRow)
  BY AppendFacts DEF ClientInv, SendInv, ClientTypes
<1>2. /\ Cardinality(Hits(jobs, SendJobs)) \in Nat
      /\ Cardinality(Hits(results, SendResults)) \in Nat
      /\ OwedCall = (IF r \in SendResults THEN 1 ELSE 0)
      /\ OwedCall' = 0
  BY <1>1, IdleEntry DEF OwedCall, SendResults
<1>3. Cardinality(Hits(results', SendResults)) =
        Cardinality(Hits(results, SendResults)) + (IF r \in SendResults THEN 1 ELSE 0)
  BY <1>1, HitsAppend
<1>4. Cardinality(Hits(jobs', SendJobs)) = Cardinality(Hits(jobs, SendJobs))
  OBVIOUS
<1>5. SendIsOwed'
  BY <1>1, <1>2, <1>3, <1>4, Owed, OwedNext
<1>6. Results' = Results \cup {r} /\ Jobs' = Jobs
  BY <1>1, AppendFacts DEF Results, Jobs
<1>7. QED BY <1>5, <1>6 DEF ClientInv, SendInv

\* A new result that is neither a good send nor a good pause.
LEMMA ResultAppends ==
    ASSUME ClientTypes, NEW r \in ResultRow, results' = Append(results, r)
    PROVE  results' \in Seq(ResultRow) /\ Results' = Results \cup {r}
<1>1. results \in Seq(ResultRow)
  BY DEF ClientTypes
<1>2. QED BY <1>1, AppendFacts DEF Results

\* A job goes to the listener; its connection is the only open one.
LEMMA ConnectClientInv ==
    ASSUME ClientInv, Connect, UNCHANGED <<server, uiVars, historyVars>>
    PROVE  ClientInv'
<1>1. /\ call = Nothing /\ jobs' = Dequeued
      /\ UNCHANGED <<server, input, retry, pending, connected, snapshot, typed, saved, issued,
                     bound, held, results, control, inbox, subject>>
      /\ ClientTypes /\ SendIsOwed
  BY DEF Connect, uiVars, historyVars, ClientInv, SendInv
<1>2. PICK job : job = NextJob
  OBVIOUS
<1>3. /\ job \in JobRow /\ job # Nothing /\ call' = job /\ jobs' \in Seq(JobRow)
      /\ job \in Jobs \/ (~Steers(job) /\ ~Sending(job))
      /\ Cardinality(Hits(jobs, SendJobs)) =
           Cardinality(Hits(jobs', SendJobs)) + (IF Sending(job) THEN 1 ELSE 0)
      /\ Cardinality(Hits(jobs', SendJobs)) \in Nat
  BY <1>1, <1>2, NextJobFacts DEF Connect
<1>4. PICK c : c = [job |-> job, open |-> TRUE]
  OBVIOUS
<1>5. c \in CallRow /\ c.job = job /\ c.open /\ calls \in Seq(CallRow) /\ calls' = Append(calls, c)
  BY <1>1, <1>2, <1>3, <1>4 DEF Connect, CallRow, ClientTypes
<1>6. /\ calls' \in Seq(CallRow)
      /\ DOMAIN calls = 1 .. Len(calls) /\ Len(calls) \in Nat
      /\ DOMAIN calls' = 1 .. Len(calls) + 1 /\ calls'[Len(calls) + 1] = c
      /\ \A i \in DOMAIN calls : calls'[i] = calls[i]
      /\ \A i \in DOMAIN calls' : i \in DOMAIN calls \/ i = Len(calls) + 1
  BY <1>5, AppendFacts
<1>7. Queued' = Queued \cup {job} /\ Results' = Results
  BY <1>1, <1>5, <1>6 DEF Queued, Results
<1>8. /\ \A i, j \in DOMAIN jobs' :
            i < j /\ Steers(jobs'[i]) /\ Steers(jobs'[j]) => jobs'[i].n < jobs'[j].n
      /\ \A then \in Jobs' : Steers(job) /\ Steers(then) => job.n < then.n
      /\ \A j \in Jobs' : j \in Jobs
  BY <1>1, <1>2, Dequeues DEF ClientInv
<1>9. ClientTypes'
  BY <1>1, <1>3, <1>6 DEF ClientTypes
<1>10. CallInv'
  <2>1. \A i \in DOMAIN calls : ~calls[i].open
    BY <1>1, QueueRows, ClientAssumption DEF ClientInv, CallInv
  <2>2. \A i \in DOMAIN calls' : calls'[i].open => i = Len(calls) + 1
    BY <1>6, <2>1
  <2>3. QED BY <1>3, <1>5, <1>6, <2>2 DEF CallInv
<1>11. OrderInv'
  <2>1. \A i, j \in DOMAIN calls' :
           i < j /\ Steers(calls'[i].job) /\ Steers(calls'[j].job)
             => calls'[i].job.n < calls'[j].job.n
    <3> SUFFICES ASSUME NEW i \in DOMAIN calls', NEW j \in DOMAIN calls', i < j,
                        Steers(calls'[i].job), Steers(calls'[j].job)
                 PROVE  calls'[i].job.n < calls'[j].job.n
      OBVIOUS
    <3>1. i \in DOMAIN calls /\ calls'[i] = calls[i]
      BY <1>6
    <3>2. CASE j \in DOMAIN calls
      BY <1>6, <3>1, <3>2 DEF ClientInv, OrderInv
    <3>3. CASE j \notin DOMAIN calls
      <4>1. calls'[j].job = job /\ Steers(job) /\ job \in Jobs
        BY <1>3, <1>5, <1>6, <3>3
      <4>2. calls[i].job \in Queued
        BY <3>1 DEF Queued
      <4>3. QED BY <3>1, <4>1, <4>2 DEF ClientInv, OrderInv
    <3>4. QED BY <3>2, <3>3
  <2>2. \A j \in Jobs' \cup Queued' : Steers(j) => j.n <= issued
    BY <1>3, <1>7, <1>8 DEF ClientInv, OrderInv
  <2>3. \A first \in Queued', then \in Jobs' :
           Steers(first) /\ Steers(then) => first.n < then.n
    BY <1>7, <1>8 DEF ClientInv, OrderInv
  <2>4. QED BY <1>1, <1>7, <1>8, <2>1, <2>2, <2>3 DEF ClientInv, OrderInv
<1>12. SettledInv' /\ BoundInv'
  BY <1>1, <1>3, <1>7, <1>8, SettledKept, BoundKept DEF ClientInv
<1>13. SendInv'
  <2>1. /\ OwedCall = 0 /\ OwedCall' = (IF Sending(job) THEN 1 ELSE 0)
        /\ Cardinality(Hits(results, SendResults)) \in Nat
    BY <1>1, <1>3, IdleEntry DEF OwedCall
  <2>2. Cardinality(Hits(results', SendResults)) = Cardinality(Hits(results, SendResults))
    BY <1>1
  <2>3. SendIsOwed'
    BY <1>1, <1>3, <1>9, <2>1, <2>2, Owed, OwedNext DEF ClientTypes
  <2>4. \A j \in Jobs' \cup {r.job : r \in Results'} \cup ({call'} \ {Nothing}) :
           Sending(j) => j \in Jobs \cup {r.job : r \in Results}
    BY <1>3, <1>7, <1>8
  <2>5. QED BY <1>1, <2>3, <2>4 DEF ClientInv, SendInv
<1>14. DraftInv' /\ FreshInv'
  <2>1. CASE ~Sending(job)
    BY <1>1, <1>7, <2>1, DraftsKept DEF ClientInv
  <2>2. CASE Sending(job)
    <3>1. pending /\ job.text = retry.text /\ job.key = retry.key
      BY <1>1, <1>3, <2>2, IdleEntry DEF ClientInv, SendInv
    <3>2. input = retry.text /\ retry # NoRetry
      BY <3>1 DEF ClientInv, SendInv, NoRetry
    <3>3. Written(job.key, job.text)
      BY <3>1, <3>2 DEF ClientInv, DraftInv
    <3>4. DraftInv'
      BY <1>1, <1>7, <3>3 DEF ClientInv, DraftInv, Written
    <3>5. QED BY <1>1, <3>2, <3>4 DEF FreshInv
  <2>3. QED BY <2>1, <2>2
<1>15. SavedInv'
  BY <1>1, <1>7, SavedKept DEF ClientInv
<1>16. QED
  BY <1>9, <1>10, <1>11, <1>12, <1>13, <1>14, <1>15 DEF ClientInv

\* No host within the deadline: the job ends as a failed result.
LEMMA UnavailableClientInv ==
    ASSUME ClientInv, Unavailable, UNCHANGED <<server, uiVars, historyVars>>
    PROVE  ClientInv'
<1>1. /\ call = Nothing /\ jobs' = Dequeued
      /\ UNCHANGED <<server, input, retry, pending, connected, snapshot, typed, saved, issued,
                     bound, held, call, calls, control, inbox, subject>>
      /\ ClientTypes /\ SendIsOwed
  BY DEF Unavailable, hostVars, uiVars, historyVars, ClientInv, SendInv
<1>2. PICK job : job = NextJob
  OBVIOUS
<1>3. /\ job \in JobRow /\ jobs' \in Seq(JobRow)
      /\ job \in Jobs \/ (~Steers(job) /\ ~Sending(job))
      /\ Cardinality(Hits(jobs, SendJobs)) =
           Cardinality(Hits(jobs', SendJobs)) + (IF Sending(job) THEN 1 ELSE 0)
      /\ Cardinality(Hits(jobs', SendJobs)) \in Nat
  BY <1>1, <1>2, NextJobFacts
<1>4. PICK r : r = Result(job, FALSE, Nothing)
  OBVIOUS
<1>5. r \in ResultRow /\ r.job = job /\ r.ok = FALSE
  BY <1>3, <1>4 DEF Result, ResultRow
<1>6. results' = Append(results, r)
  BY <1>2, <1>4 DEF Unavailable
<1>7. results' \in Seq(ResultRow) /\ Results' = Results \cup {r} /\ Queued' = Queued
  BY <1>1, <1>5, <1>6, ResultAppends DEF Queued
<1>8. /\ \A i, j \in DOMAIN jobs' :
            i < j /\ Steers(jobs'[i]) /\ Steers(jobs'[j]) => jobs'[i].n < jobs'[j].n
      /\ \A j \in Jobs' : j \in Jobs
  BY <1>1, Dequeues DEF ClientInv
<1>9. ClientTypes'
  BY <1>1, <1>3, <1>7 DEF ClientTypes
<1>10. CallInv'
  BY <1>1, CallKept DEF ClientInv
<1>11. OrderInv'
  BY <1>1, <1>5, <1>7, <1>8 DEF ClientInv, OrderInv
<1>12. SettledInv' /\ BoundInv'
  BY <1>1, <1>5, <1>7, <1>8, SettledKept, BoundKept DEF ClientInv
<1>13. SendInv'
  <2>1. OwedCall' = OwedCall /\ OwedCall = 0 /\ Cardinality(Hits(results, SendResults)) \in Nat
    BY <1>1, IdleEntry DEF OwedCall
  <2>2. r \in SendResults <=> Sending(job)
    BY <1>5 DEF SendResults
  <2>3. Cardinality(Hits(results', SendResults)) =
          Cardinality(Hits(results, SendResults)) + (IF Sending(job) THEN 1 ELSE 0)
    BY <1>1, <1>5, <1>6, <2>2, HitsAppend DEF ClientTypes
  <2>4. SendIsOwed'
    BY <1>1, <1>3, <1>9, <2>1, <2>3, Owed, OwedNext DEF ClientTypes
  <2>5. \A j \in Jobs' \cup {q.job : q \in Results'} \cup ({call'} \ {Nothing}) :
           Sending(j) => j \in Jobs \cup {q.job : q \in Results}
    BY <1>1, <1>3, <1>5, <1>7, <1>8
  <2>6. QED BY <1>1, <2>4, <2>5 DEF ClientInv, SendInv
<1>14. DraftInv' /\ FreshInv'
  BY <1>1, <1>7, DraftsKept DEF ClientInv
<1>15. SavedInv'
  BY <1>1, <1>5, <1>7, SavedKept DEF ClientInv
<1>16. QED
  BY <1>9, <1>10, <1>11, <1>12, <1>13, <1>14, <1>15 DEF ClientInv

\* A request that times out fails, and stays with the host.
LEMMA TimeOutClientInv ==
    ASSUME ClientInv, TimeOut, UNCHANGED <<server, uiVars, historyVars>>
    PROVE  ClientInv'
<1>1. /\ call # Nothing /\ call' = Nothing /\ calls' = Abandoned
      /\ UNCHANGED <<server, input, retry, pending, connected, snapshot, typed, saved, issued,
                     bound, held, jobs, control, inbox, subject>>
      /\ ClientTypes /\ call \in JobRow
  BY DEF TimeOut, uiVars, historyVars, ClientInv, ClientTypes
<1>2. PICK r : r = Result(call, FALSE, Nothing)
  OBVIOUS
<1>3. r \in ResultRow /\ r.job = call /\ r.ok = FALSE
  BY <1>1, <1>2 DEF Result, ResultRow
<1>4. results' = Append(results, r)
  BY <1>2 DEF TimeOut
<1>5. results' \in Seq(ResultRow) /\ Results' = Results \cup {r} /\ Jobs' = Jobs
  BY <1>1, <1>3, <1>4, ResultAppends DEF Jobs
<1>6. /\ calls' \in Seq(CallRow) /\ DOMAIN calls' = DOMAIN calls
      /\ \A i \in DOMAIN calls' : calls'[i].job = calls[i].job /\ calls'[i].open = FALSE
  <2>1. /\ Len(calls) \in Nat /\ DOMAIN calls = 1 .. Len(calls)
        /\ \A i \in 1 .. Len(calls) : calls[i] \in CallRow
    BY <1>1, ElementOfSeq, LenProperties DEF ClientTypes
  <2>2. calls' = [i \in 1 .. Len(calls) |-> [calls[i] EXCEPT !.open = FALSE]]
    BY <1>1, <2>1 DEF Abandoned
  <2>3. \A i \in 1 .. Len(calls) : [calls[i] EXCEPT !.open = FALSE] \in CallRow
    BY <2>1 DEF CallRow
  <2>4. calls' \in Seq(CallRow)
    BY <2>1, <2>2, <2>3
  <2>5. QED BY <2>1, <2>2, <2>4 DEF CallRow
<1>7. Queued' = Queued
  BY <1>6 DEF Queued
<1>8. ClientTypes'
  BY <1>1, <1>5, <1>6 DEF ClientTypes
<1>9. CallInv'
  BY <1>6 DEF CallInv
<1>10. OrderInv'
  BY <1>1, <1>3, <1>5, <1>6, <1>7 DEF ClientInv, OrderInv
<1>11. SettledInv' /\ BoundInv'
  BY <1>1, <1>3, <1>5, <1>7, SettledKept, BoundKept DEF ClientInv
<1>12. SendInv'
  BY <1>1, <1>3, <1>4, CallEnds
<1>13. DraftInv' /\ FreshInv'
  BY <1>1, <1>7, DraftsKept DEF ClientInv
<1>14. SavedInv'
  BY <1>1, <1>3, <1>5, SavedKept DEF ClientInv
<1>15. QED
  BY <1>8, <1>9, <1>10, <1>11, <1>12, <1>13, <1>14 DEF ClientInv


-----------------------------------------------------------------------------
(* The host.                                                               *)

\* The oldest request leaves the queue; its result reaches the client if the
\* client still waits for it.
LEMMA ReplyKeeps ==
    ASSUME ClientInv, calls # <<>>, NEW ok \in BOOLEAN, NEW data \in ViewRow \cup {Nothing},
           Reply(ok, data), NEW job, job = Head(calls).job,
           UNCHANGED <<input, retry, pending>>, issued' = issued
    PROVE  /\ jobs' = jobs /\ jobs' \in Seq(JobRow)
           /\ results' \in Seq(ResultRow) /\ call' \in JobRow \cup {Nothing}
           /\ calls' \in Seq(CallRow)
           /\ CallInv' /\ OrderInv' /\ SendInv'
           /\ job \in Queued /\ job \in JobRow
           /\ Jobs' = Jobs /\ Queued' \subseteq Queued
           /\ \A r \in Results' : r \in Results \/ r = Result(job, ok, data)
           /\ \A then \in Jobs' \cup Queued' : Steers(job) /\ Steers(then) => job.n < then.n
<1>1. calls \in Seq(CallRow) /\ jobs \in Seq(JobRow) /\ results \in Seq(ResultRow) /\ ClientTypes
  BY DEF ClientInv, ClientTypes
<1>2. /\ Head(calls) = calls[1] /\ 1 \in DOMAIN calls /\ calls[1] \in CallRow
      /\ calls' = Tail(calls) /\ calls' \in Seq(CallRow)
      /\ \A i \in DOMAIN calls' : i \in Nat /\ i + 1 \in DOMAIN calls /\ calls'[i] = calls[i + 1]
  BY <1>1, TailFacts DEF Reply
<1>3. jobs' = jobs /\ Jobs' = Jobs
  BY DEF Reply, Jobs
<1>4. job \in Queued /\ job \in JobRow /\ job # Nothing
  BY <1>2, ClientAssumption DEF Queued, CallRow
<1>5. Queued' \subseteq Queued
  BY <1>2 DEF Queued
<1>6. \A i \in DOMAIN calls' : 1 < i + 1
  <2> TAKE i \in DOMAIN calls'
  <2>1. i \in 1 .. Len(calls')
    BY <1>2, LenProperties
  <2>2. QED BY <1>2, <2>1
<1>7. \A then \in Jobs' \cup Queued' : Steers(job) /\ Steers(then) => job.n < then.n
  <2>1. \A then \in Jobs' : Steers(job) /\ Steers(then) => job.n < then.n
    BY <1>3, <1>4 DEF ClientInv, OrderInv
  <2>2. \A i \in DOMAIN calls' :
           Steers(job) /\ Steers(calls'[i].job) => job.n < calls'[i].job.n
    BY <1>2, <1>6 DEF ClientInv, OrderInv
  <2>3. QED BY <2>1, <2>2 DEF Queued
<1>8. PICK r : r = Result(job, ok, data)
  OBVIOUS
<1>9. r \in ResultRow /\ r.job = job /\ r.ok = ok
  BY <1>4, <1>8, ResultFields
<1>10. \A i, j \in DOMAIN calls' :
          i < j /\ Steers(calls'[i].job) /\ Steers(calls'[j].job)
            => calls'[i].job.n < calls'[j].job.n
  <2>1. \A i, j \in DOMAIN calls' : i < j => i + 1 < j + 1
    BY <1>2
  <2>2. QED BY <1>2, <2>1 DEF ClientInv, OrderInv
<1>11. \A q \in Results' : q \in Results \/ q = r =>
          (Steers(q.job) /\ q.ok => q.job.n <= issued)
  BY <1>4, <1>9 DEF ClientInv, OrderInv
<1>12. ASSUME \A q \in Results' : q \in Results \/ q = r PROVE OrderInv'
  <2>1. \A j \in Jobs' \cup Queued' : Steers(j) => j.n <= issued
    BY <1>3, <1>5 DEF ClientInv, OrderInv
  <2>2. \A first \in Queued', then \in Jobs' :
           Steers(first) /\ Steers(then) => first.n < then.n
    BY <1>3, <1>5 DEF ClientInv, OrderInv
  <2>3. QED BY <1>3, <1>10, <1>11, <1>12, <2>1, <2>2 DEF ClientInv, OrderInv
<1>13. CASE ~Head(calls).open
  <2>1. UNCHANGED <<results, call>>
    BY <1>13 DEF Reply
  <2>2. Results' = Results
    BY <2>1 DEF Results
  <2>3. call' \in JobRow \cup {Nothing} /\ results' \in Seq(ResultRow)
    BY <1>1, <2>1 DEF ClientTypes
  <2>4. CallInv'
    BY <1>2, <2>1 DEF ClientInv, CallInv
  <2>5. SendInv'
    BY <1>3, <2>1, SendKept DEF ClientInv
  <2>6. QED
    BY <1>1, <1>2, <1>3, <1>4, <1>5, <1>7, <1>8, <1>12, <2>2, <2>3, <2>4, <2>5
<1>14. CASE Head(calls).open
  <2>1. call = job /\ \A i \in DOMAIN calls : calls[i].open => i = 1
    BY <1>2, <1>14 DEF ClientInv, CallInv
  <2>2. results' = Append(results, r) /\ call' = Nothing
    BY <1>8, <1>14, <2>1 DEF Reply
  <2>3. results' \in Seq(ResultRow) /\ Results' = Results \cup {r}
    BY <1>1, <1>9, <2>2, ResultAppends
  <2>4. CallInv'
    BY <1>2, <1>6, <2>1 DEF CallInv
  <2>5. call # Nothing /\ r.job = call
    BY <1>4, <1>9, <2>1
  <2>6. SendInv'
    BY <1>3, <1>9, <2>2, <2>5, CallEnds
  <2>7. QED
    BY <1>1, <1>2, <1>3, <1>4, <1>5, <1>7, <1>8, <1>12, <2>2, <2>3, <2>4, <2>6
<1>15. QED BY <1>13, <1>14


\* A host serves a database, and its schedule is a view.
LEMMA HostFacts ==
    ASSUME ClientTypes, Db # Nobody
    PROVE  Db \in Databases /\ schedule(Db) \in ViewRow /\ schedule(Db).db = Db
<1>1. Db \in Databases
  BY ClientAssumption DEF Db, ClientTypes
<1>2. \A d \in Databases : schedule(d) \in ViewRow /\ schedule(d).db = d
  <2> TAKE d \in Databases
  <2>1. /\ subject[d].head \in Nat /\ subject[d].settled \in Nat
        /\ Len(inbox[d]) \in Nat
    BY LenProperties DEF ClientTypes, SubjectRow
  <2>2. (IF subject[d].settled < Len(inbox[d]) THEN subject[d].settled + 1 ELSE 0) \in Nat
    BY <2>1
  <2>3. QED BY <2>1, <2>2 DEF schedule, ViewRow
<1>3. QED BY <1>1, <1>2

\* A key names one row, whatever is executed late or twice.
LEMMA SubmitClientInv ==
    ASSUME ClientInv, Submit, UNCHANGED <<server, uiVars, historyVars>>
    PROVE  ClientInv'
<1>1. /\ calls # <<>> /\ Db # Nobody /\ Request.op = "send"
      /\ UNCHANGED <<server, input, retry, pending, connected, snapshot, typed, saved, issued,
                     bound, held, control, subject>>
      /\ ClientTypes
  BY DEF Submit, Accepts, uiVars, historyVars, ClientInv
<1>2. PICK d \in Databases : d = Db
  BY <1>1, HostFacts
<1>3. PICK job : job = Head(calls).job
  OBVIOUS
<1>4. PICK row : row = [key |-> job.key, text |-> job.text]
  OBVIOUS
<1>5. PICK same : same = {i \in DOMAIN inbox[d] : inbox[d][i].key = job.key}
  OBVIOUS
<1>6. PICK ok \in BOOLEAN : ok = (\A i \in same : inbox[d][i] = row)
  OBVIOUS
<1>7. /\ inbox' = IF same = {} THEN [inbox EXCEPT ![d] = Append(@, row)] ELSE inbox
      /\ Reply(ok, Nothing)
  BY <1>2, <1>3, <1>4, <1>5, <1>6 DEF Submit, Request
<1>8. /\ jobs' = jobs /\ jobs' \in Seq(JobRow)
      /\ results' \in Seq(ResultRow) /\ call' \in JobRow \cup {Nothing}
      /\ calls' \in Seq(CallRow)
      /\ CallInv' /\ OrderInv' /\ SendInv'
      /\ job \in Queued /\ job \in JobRow
      /\ Jobs' = Jobs /\ Queued' \subseteq Queued
      /\ \A r \in Results' : r \in Results \/ r = Result(job, ok, Nothing)
  <2>1. Nothing \in ViewRow \cup {Nothing}
    OBVIOUS
  <2>2. QED BY <1>1, <1>3, <1>7, <2>1, ReplyKeeps
<1>9. job.op = "send" /\ Sending(job) /\ row \in DraftRow
  BY <1>1, <1>3, <1>4, <1>8 DEF Request, Sending, JobRow, DraftRow
<1>10. PICK r : r = Result(job, ok, Nothing)
  OBVIOUS
<1>11. r.job = job /\ r.ok = ok
  BY <1>10 DEF Result
<1>12. /\ inbox \in [Databases -> Seq(DraftRow)]
       /\ inbox[d] \in Seq(DraftRow)
  BY <1>1 DEF ClientTypes
<1>13. /\ DOMAIN inbox[d] = 1 .. Len(inbox[d]) /\ Len(inbox[d]) \in Nat
       /\ Append(inbox[d], row) \in Seq(DraftRow)
       /\ DOMAIN Append(inbox[d], row) = 1 .. Len(inbox[d]) + 1
       /\ Append(inbox[d], row)[Len(inbox[d]) + 1] = row
       /\ \A i \in DOMAIN inbox[d] : Append(inbox[d], row)[i] = inbox[d][i]
       /\ \A i \in DOMAIN Append(inbox[d], row) : i \in DOMAIN inbox[d] \/ i = Len(inbox[d]) + 1
  BY <1>9, <1>12, AppendFacts
<1>14. /\ inbox' \in [Databases -> Seq(DraftRow)]
       /\ \A e \in Databases : e # d => inbox'[e] = inbox[e]
       /\ same # {} => inbox'[d] = inbox[d]
       /\ same = {} => inbox'[d] = Append(inbox[d], row)
  BY <1>7, <1>12, <1>13
<1>15. /\ \A e \in Databases : \A i \in DOMAIN inbox[e] :
             i \in DOMAIN inbox'[e] /\ inbox'[e][i] = inbox[e][i]
       /\ \A e \in Databases : \A i \in DOMAIN inbox'[e] :
             \/ i \in DOMAIN inbox[e] /\ inbox'[e][i] = inbox[e][i]
             \/ e = d /\ same = {} /\ inbox'[e][i] = row /\ i = Len(inbox[d]) + 1
  <2>1. CASE same # {}
    BY <1>14, <2>1
  <2>2. CASE same = {}
    <3>1. inbox'[d] = Append(inbox[d], row)
      BY <1>14, <2>2
    <3>2. \A i \in DOMAIN inbox[d] : i \in DOMAIN Append(inbox[d], row)
      BY <1>13
    <3>3. ASSUME NEW e \in Databases
          PROVE  /\ \A i \in DOMAIN inbox[e] :
                       i \in DOMAIN inbox'[e] /\ inbox'[e][i] = inbox[e][i]
                 /\ \A i \in DOMAIN inbox'[e] :
                       \/ i \in DOMAIN inbox[e] /\ inbox'[e][i] = inbox[e][i]
                       \/ e = d /\ inbox'[e][i] = row /\ i = Len(inbox[d]) + 1
      <4>1. CASE e # d
        BY <1>14, <4>1
      <4>2. CASE e = d
        BY <1>13, <3>1, <3>2, <4>2
      <4>3. QED BY <4>1, <4>2
    <3>4. QED BY <2>2, <3>3
  <2>3. QED BY <2>1, <2>2
<1>16. ClientTypes'
  BY <1>1, <1>8, <1>14 DEF ClientTypes
<1>17. SettledInv' /\ BoundInv'
  BY <1>1, <1>8, <1>9, <1>10, <1>11, SettledKept, BoundKept DEF ClientInv
<1>18. Written(job.key, job.text) /\ row.key = job.key /\ row.text = job.text
  BY <1>4, <1>8, <1>9 DEF ClientInv, DraftInv
<1>19. DraftInv'
  <2>1. \A e \in Databases : \A i \in DOMAIN inbox'[e] :
           inbox'[e][i].key \in 1 .. Len(typed) /\ typed[inbox'[e][i].key] = inbox'[e][i].text
    BY <1>15, <1>18 DEF ClientInv, DraftInv, Written
  <2>2. \A e \in Databases : \A i, j \in DOMAIN inbox'[e] :
           inbox'[e][i].key = inbox'[e][j].key => i = j
    <3> SUFFICES ASSUME NEW e \in Databases, NEW i \in DOMAIN inbox'[e],
                        NEW j \in DOMAIN inbox'[e], inbox'[e][i].key = inbox'[e][j].key
                 PROVE  i = j
      OBVIOUS
    <3>1. CASE i \in DOMAIN inbox[e] /\ j \in DOMAIN inbox[e]
      BY <1>15, <3>1 DEF ClientInv, DraftInv
    <3>2. CASE ~(i \in DOMAIN inbox[e] /\ j \in DOMAIN inbox[e])
      <4>1. e = d /\ same = {}
        BY <1>15, <3>2
      <4>2. \A k \in DOMAIN inbox[d] : inbox[d][k].key # row.key
        BY <1>5, <1>18, <4>1
      <4>3. QED BY <1>15, <3>2, <4>1, <4>2
    <3>3. QED BY <3>1, <3>2
  <2>3. QED BY <1>1, <1>8, <2>1, <2>2 DEF ClientInv, DraftInv, Written
<1>20. FreshInv'
  BY <1>1, <1>8, <1>9, <1>15, <1>18 DEF ClientInv, FreshInv
<1>21. SavedInv'
  <2>1. \A draft : Kept(draft) =>
           \E e \in Databases : \E i \in DOMAIN inbox'[e] : inbox'[e][i] = draft
    BY <1>15 DEF Kept
  <2>2. ok => \E i \in DOMAIN inbox'[d] : inbox'[d][i] = row
    <3>1. CASE same = {}
      <4>1. Len(inbox[d]) + 1 \in 1 .. Len(inbox[d]) + 1
        BY <1>13
      <4>2. QED BY <1>13, <1>14, <3>1, <4>1
    <3>2. CASE same # {}
      <4>1. PICK i \in same : TRUE
        BY <3>2
      <4>2. ok => inbox[d][i] = row
        BY <1>6, <4>1
      <4>3. i \in DOMAIN inbox'[d] /\ inbox'[d][i] = inbox[d][i]
        BY <1>5, <1>15, <4>1
      <4>4. QED BY <4>2, <4>3
    <3>3. QED BY <3>1, <3>2
  <2>3. row = [text |-> job.text, key |-> job.key]
    BY <1>4
  <2>4. \A q \in Results' : Sending(q.job) /\ q.ok =>
           \E e \in Databases : \E i \in DOMAIN inbox'[e] :
              inbox'[e][i] = [text |-> q.job.text, key |-> q.job.key]
    <3> TAKE q \in Results'
    <3>1. CASE q \in Results
      BY <2>1, <3>1 DEF ClientInv, SavedInv
    <3>2. CASE q = r
      <4>1. q.job = job /\ q.ok = ok
        BY <1>11, <3>2
      <4>2. q.ok => ok
        BY <4>1
      <4>3. QED BY <2>2, <2>3, <4>1, <4>2
    <3>3. QED BY <1>8, <1>10, <3>1, <3>2
  <2>5. \A i \in DOMAIN saved :
           \E e \in Databases : \E k \in DOMAIN inbox'[e] : inbox'[e][k] = saved[i]
    BY <2>1 DEF ClientInv, SavedInv
  <2>6. QED BY <1>1, <2>4, <2>5 DEF ClientInv, SavedInv, Kept
<1>22. QED
  BY <1>8, <1>16, <1>17, <1>19, <1>20, <1>21 DEF ClientInv

\* A control is executed after those entered before it.
LEMMA PauseOrResumeClientInv ==
    ASSUME ClientInv, PauseOrResume, UNCHANGED <<server, uiVars, historyVars>>
    PROVE  ClientInv'
<1>1. /\ calls # <<>> /\ Request.op \in {"pause", "resume"}
      /\ control' = [control EXCEPT !.paused = (Request.op = "pause")]
      /\ UNCHANGED <<server, input, retry, pending, connected, snapshot, typed, saved, issued,
                     bound, held, inbox, subject>>
      /\ ClientTypes /\ Reply(TRUE, Nothing)
  BY DEF PauseOrResume, Accepts, uiVars, historyVars, ClientInv
<1>2. PICK job : job = Head(calls).job
  OBVIOUS
<1>3. PICK ok \in BOOLEAN : ok = TRUE /\ Reply(ok, Nothing)
  BY <1>1
<1>4. /\ jobs' = jobs /\ jobs' \in Seq(JobRow)
      /\ results' \in Seq(ResultRow) /\ call' \in JobRow \cup {Nothing}
      /\ calls' \in Seq(CallRow)
      /\ CallInv' /\ OrderInv' /\ SendInv'
      /\ job \in Queued /\ job \in JobRow
      /\ Jobs' = Jobs /\ Queued' \subseteq Queued
      /\ \A r \in Results' : r \in Results \/ r = Result(job, ok, Nothing)
      /\ \A then \in Jobs' \cup Queued' : Steers(job) /\ Steers(then) => job.n < then.n
  <2>1. Nothing \in ViewRow \cup {Nothing}
    OBVIOUS
  <2>2. QED BY <1>1, <1>2, <1>3, <2>1, ReplyKeeps
<1>5. Steers(job) /\ ~Sending(job) /\ job.op \in {"pause", "resume"}
  BY <1>1, <1>2 DEF Request, Steers, Sending
<1>6. PICK r : r = Result(job, ok, Nothing)
  OBVIOUS
<1>7. r.job = job
  BY <1>6 DEF Result
<1>8. /\ control' \in ControlRow /\ control'.staged = control.staged
      /\ control'.paused <=> job.op = "pause"
  BY <1>1, <1>2 DEF ClientTypes, ControlRow, Request
<1>9. ClientTypes'
  BY <1>1, <1>4, <1>8 DEF ClientTypes
<1>10. SettledInv'
  <2>1. ~Settled
    BY <1>4, <1>5 DEF ClientInv, SettledInv
  <2>2. Settled' => job.op = "pause" /\ job.n = issued
    BY <1>1, <1>4, <1>6, <1>7, <2>1 DEF Settled
  <2>3. \A then \in Jobs' \cup Queued' : Steers(then) => then.n <= issued /\ then.n \in Nat
    BY <1>4, QueueRows DEF ClientInv, OrderInv, JobRow
  <2>4. job.n = issued => \A then \in Jobs' \cup Queued' : ~Steers(then)
    <3>1. issued \in Nat
      BY <1>1 DEF ClientTypes
    <3>2. QED BY <1>4, <1>5, <2>3, <3>1
  <2>5. QED BY <1>8, <2>2, <2>4 DEF SettledInv
<1>11. BoundInv'
  BY <1>1, <1>4, <1>8 DEF ClientInv, BoundInv, EvidenceReachesItsRequest, Db
<1>12. DraftInv' /\ FreshInv'
  BY <1>1, <1>4, DraftsKept DEF ClientInv
<1>13. SavedInv'
  BY <1>1, <1>4, <1>5, <1>6, <1>7, SavedKept DEF ClientInv
<1>14. QED
  BY <1>4, <1>9, <1>10, <1>11, <1>12, <1>13 DEF ClientInv

\* Evidence is staged for the schedule it named, and resumes.
LEMMA EvidenceClientInv ==
    ASSUME ClientInv, Evidence, UNCHANGED <<server, uiVars, historyVars>>
    PROVE  ClientInv'
<1>1. /\ calls # <<>> /\ Db # Nobody /\ Request.op = "evidence"
      /\ UNCHANGED <<server, input, retry, pending, connected, snapshot, typed, saved, issued,
                     bound, held, inbox, subject>>
      /\ ClientTypes
  BY DEF Evidence, Accepts, uiVars, historyVars, ClientInv
<1>2. PICK job : job = Head(calls).job
  OBVIOUS
<1>3. PICK ok \in BOOLEAN : ok = (control.paused /\ schedule(Db).occasion # 0 /\ Binds(Request.about))
  BY <1>1 DEF ClientTypes, ControlRow
<1>4. /\ control' = IF ok
                    THEN [paused |-> FALSE, staged |-> [n |-> Request.n, about |-> schedule(Db)]]
                    ELSE control
      /\ Reply(ok, Nothing)
  BY <1>3 DEF Evidence
<1>5. /\ jobs' = jobs /\ jobs' \in Seq(JobRow)
      /\ results' \in Seq(ResultRow) /\ call' \in JobRow \cup {Nothing}
      /\ calls' \in Seq(CallRow)
      /\ CallInv' /\ OrderInv' /\ SendInv'
      /\ job \in Queued /\ job \in JobRow
      /\ Jobs' = Jobs /\ Queued' \subseteq Queued
      /\ \A r \in Results' : r \in Results \/ r = Result(job, ok, Nothing)
  <2>1. Nothing \in ViewRow \cup {Nothing}
    OBVIOUS
  <2>2. QED BY <1>1, <1>2, <1>4, <2>1, ReplyKeeps
<1>6. Steers(job) /\ ~Sending(job) /\ job.op = "evidence"
  BY <1>1, <1>2 DEF Request, Steers, Sending
<1>7. PICK r : r = Result(job, ok, Nothing)
  OBVIOUS
<1>8. r.job = job
  BY <1>7 DEF Result
<1>9. PICK view \in ViewRow : view = schedule(Db) /\ view.db = Db
  BY <1>1, HostFacts
<1>10. PICK staged : staged = [n |-> job.n, about |-> view]
  OBVIOUS
<1>11. staged \in [n : Nat, about : ViewRow] /\ staged.about = view
  BY <1>5, <1>9, <1>10 DEF JobRow
<1>12. ok => control' = [paused |-> FALSE, staged |-> staged] /\ job.about = view
  BY <1>2, <1>3, <1>4, <1>9, <1>10 DEF Request, Binds
<1>13. control' \in ControlRow
  <2>1. \A p \in BOOLEAN : [paused |-> p, staged |-> staged] \in ControlRow
    BY <1>11 DEF ControlRow
  <2>2. CASE ok
    <3>1. FALSE \in BOOLEAN
      OBVIOUS
    <3>2. [paused |-> FALSE, staged |-> staged] \in ControlRow
      BY <2>1, <3>1
    <3>3. QED BY <1>12, <2>2, <3>2
  <2>3. CASE ~ok
    BY <1>1, <1>4, <2>3 DEF ClientTypes
  <2>4. QED BY <2>2, <2>3
<1>14. ClientTypes'
  BY <1>1, <1>5, <1>13 DEF ClientTypes
<1>15. SettledInv'
  <2>1. ~Settled
    BY <1>5, <1>6 DEF ClientInv, SettledInv
  <2>2. ~Settled'
    BY <1>1, <1>5, <1>6, <1>7, <1>8, <2>1 DEF Settled
  <2>3. QED BY <2>2 DEF SettledInv
<1>16. BoundInv'
  <2>1. \A j \in Jobs' \cup Queued' :
           j.op = "evidence" => [n |-> j.n, about |-> j.about] \in bound
    BY <1>5 DEF ClientInv, BoundInv
  <2>2. EvidenceReachesItsRequest'
    <3>1. CASE ok
      <4>1. [n |-> job.n, about |-> job.about] \in bound
        BY <1>5, <1>6 DEF ClientInv, BoundInv
      <4>2. staged \in bound /\ control'.staged = staged
        BY <1>10, <1>12, <3>1, <4>1
      <4>3. staged.about.db = Db /\ Db' = Db
        BY <1>1, <1>9, <1>11 DEF Db
      <4>4. QED BY <1>1, <4>2, <4>3 DEF EvidenceReachesItsRequest
    <3>2. CASE ~ok
      BY <1>1, <1>4, <3>2 DEF ClientInv, BoundInv, EvidenceReachesItsRequest, Db
    <3>3. QED BY <3>1, <3>2
  <2>3. QED BY <1>1, <2>1, <2>2 DEF BoundInv
<1>17. DraftInv' /\ FreshInv'
  BY <1>1, <1>5, DraftsKept DEF ClientInv
<1>18. SavedInv'
  BY <1>1, <1>5, <1>6, <1>7, <1>8, SavedKept DEF ClientInv
<1>19. QED
  BY <1>5, <1>14, <1>15, <1>16, <1>17, <1>18 DEF ClientInv


\* A reply to a request that changes nothing at the host.
LEMMA AnswerClientInv ==
    ASSUME ClientInv, calls # <<>>, NEW ok \in BOOLEAN, NEW data \in ViewRow \cup {Nothing},
           Reply(ok, data), ~ok \/ Request.op = "snapshot",
           UNCHANGED <<server, control, inbox, subject, uiVars, historyVars>>
    PROVE  ClientInv'
<1>1. /\ UNCHANGED <<server, input, retry, pending, connected, snapshot, typed, saved, issued,
                     bound, held, control, inbox, subject>>
      /\ ClientTypes
  BY DEF uiVars, historyVars, ClientInv
<1>2. PICK job : job = Head(calls).job
  OBVIOUS
<1>3. /\ jobs' = jobs /\ jobs' \in Seq(JobRow)
      /\ results' \in Seq(ResultRow) /\ call' \in JobRow \cup {Nothing}
      /\ calls' \in Seq(CallRow)
      /\ CallInv' /\ OrderInv' /\ SendInv'
      /\ job \in JobRow
      /\ Jobs' = Jobs /\ Queued' \subseteq Queued
      /\ \A r \in Results' : r \in Results \/ r = Result(job, ok, data)
  BY <1>1, <1>2, ReplyKeeps
<1>4. PICK r : r = Result(job, ok, data)
  OBVIOUS
<1>5. r.job = job /\ (~r.ok \/ (r.job.op # "pause" /\ ~Sending(r.job)))
  <2>1. r.job = job /\ r.ok = ok
    BY <1>4 DEF Result
  <2>2. CASE ~ok
    BY <2>1, <2>2
  <2>3. CASE Request.op = "snapshot"
    BY <1>2, <2>1, <2>3 DEF Request, Sending
  <2>4. QED BY <2>2, <2>3
<1>6. ClientTypes'
  BY <1>1, <1>3 DEF ClientTypes
<1>7. SettledInv' /\ BoundInv'
  BY <1>1, <1>3, <1>4, <1>5, SettledKept, BoundKept DEF ClientInv
<1>8. DraftInv' /\ FreshInv'
  BY <1>1, <1>3, DraftsKept DEF ClientInv
<1>9. SavedInv'
  BY <1>1, <1>3, <1>4, <1>5, SavedKept DEF ClientInv
<1>10. QED BY <1>3, <1>6, <1>7, <1>8, <1>9 DEF ClientInv

LEMMA LookClientInv ==
    ASSUME ClientInv, Look, UNCHANGED <<server, uiVars, historyVars>>
    PROVE  ClientInv'
<1>1. /\ calls # <<>> /\ Db # Nobody /\ Request.op = "snapshot"
      /\ UNCHANGED <<control, inbox, subject>> /\ ClientTypes
  BY DEF Look, Accepts, ClientInv
<1>2. PICK view \in ViewRow : view = schedule(Db)
  BY <1>1, HostFacts
<1>3. PICK ok \in BOOLEAN : ok = TRUE
  OBVIOUS
<1>4. Reply(ok, view)
  BY <1>2, <1>3 DEF Look
<1>5. view \in ViewRow \cup {Nothing}
  OBVIOUS
<1>6. QED BY <1>1, <1>4, <1>5, AnswerClientInv

LEMMA DeclineClientInv ==
    ASSUME ClientInv, Decline, UNCHANGED <<server, uiVars, historyVars>>
    PROVE  ClientInv'
<1>1. calls # <<>> /\ UNCHANGED <<control, inbox, subject>>
  BY DEF Decline
<1>2. PICK ok \in BOOLEAN : ok = FALSE
  OBVIOUS
<1>3. Reply(ok, Nothing) /\ Nothing \in ViewRow \cup {Nothing}
  BY <1>2 DEF Decline
<1>4. ~ok
  BY <1>2
<1>5. QED BY <1>1, <1>3, <1>4, AnswerClientInv

\* A process that has just started.
LEMMA StartedControl == StartedPaused \in ControlRow /\ StartedPaused.paused /\ StartedPaused.staged = Nothing
<1>1. \A p \in BOOLEAN : [paused |-> p, staged |-> Nothing] \in ControlRow
  BY DEF ControlRow
<1>2. TRUE \in BOOLEAN
  OBVIOUS
<1>3. StartedPaused \in ControlRow
  BY <1>1, <1>2 DEF StartedPaused
<1>4. QED BY <1>3 DEF StartedPaused

\* The worker runs only while nothing is settled.
LEMMA WorkClientInv ==
    ASSUME ClientInv, Work, UNCHANGED <<server, uiVars, historyVars>>
    PROVE  ClientInv'
<1>1. /\ Db # Nobody /\ ~control.paused
      /\ UNCHANGED <<server, input, retry, pending, connected, snapshot, typed, saved, issued,
                     bound, held, jobs, results, call, calls, inbox>>
      /\ ClientTypes
  BY DEF Work, uiVars, queueVars, historyVars, ClientInv
<1>2. /\ Jobs' = Jobs /\ Queued' = Queued /\ Results' = Results
  BY <1>1 DEF Jobs, Queued, Results
<1>3. control' \in ControlRow /\ control'.staged = Nothing
  <2>1. [control EXCEPT !.staged = Nothing] \in ControlRow
    BY <1>1 DEF ClientTypes, ControlRow
  <2>2. [control EXCEPT !.staged = Nothing].staged = Nothing
    BY <1>1 DEF ClientTypes, ControlRow
  <2>3. QED BY <2>1, <2>2, StartedControl DEF Work
<1>4. subject' \in [Databases -> SubjectRow]
  <2>1. CASE UNCHANGED subject
    BY <1>1, <2>1 DEF ClientTypes
  <2>2. CASE Advance(Db)
    <3>1. PICK d \in Databases : d = Db
      BY <1>1, HostFacts
    <3>2. PICK settles \in {0, 1} :
             subject' = [subject EXCEPT ![d] = [head |-> @.head + 1, settled |-> @.settled + settles]]
      BY <2>2, <3>1 DEF Advance
    <3>3. subject \in [Databases -> SubjectRow] /\ subject[d].head \in Nat /\ subject[d].settled \in Nat
      BY <1>1 DEF ClientTypes, SubjectRow
    <3>4. [head |-> subject[d].head + 1, settled |-> subject[d].settled + settles] \in SubjectRow
      BY <3>3 DEF SubjectRow
    <3>5. QED BY <3>2, <3>3, <3>4
  <2>3. QED BY <2>1, <2>2 DEF Work
<1>5. ClientTypes'
  BY <1>1, <1>3, <1>4 DEF ClientTypes
<1>6. CallInv' /\ OrderInv'
  BY <1>1, <1>2, CallKept, OrderKept DEF ClientInv
<1>7. SettledInv'
  <2>1. ~Settled
    BY <1>1 DEF ClientInv, SettledInv
  <2>2. ~Settled'
    BY <1>1, <1>2, <2>1 DEF Settled
  <2>3. QED BY <2>2 DEF SettledInv
<1>8. BoundInv'
  <2>1. EvidenceReachesItsRequest'
    BY <1>3 DEF EvidenceReachesItsRequest
  <2>2. QED BY <1>1, <1>2, <2>1 DEF ClientInv, BoundInv
<1>9. SendInv'
  BY <1>1, SendKept DEF ClientInv
<1>10. DraftInv' /\ FreshInv'
  BY <1>1, <1>2, DraftsKept DEF ClientInv
<1>11. SavedInv'
  BY <1>1, <1>2, SavedKept DEF ClientInv
<1>12. QED
  BY <1>5, <1>6, <1>7, <1>8, <1>9, <1>10, <1>11 DEF ClientInv

\* A listener ends with its connections, and its host's control with it.
LEMMA ProcessesClientInv ==
    ASSUME ClientInv, Processes
    PROVE  ClientInv'
<1>1. /\ UNCHANGED <<input, retry, pending, connected, snapshot, typed, saved, issued,
                     bound, held, jobs, results, call, inbox, subject>>
      /\ ClientTypes /\ EndpointNext
  BY DEF Processes, uiVars, queueVars, historyVars, ClientInv
<1>2. \/ Db' = Db /\ UNCHANGED <<calls, control>>
      \/ calls' = <<>> /\ control' = StartedPaused
  BY DEF Processes, Db
<1>3. Jobs' = Jobs /\ Results' = Results /\ Queued' \subseteq Queued
  BY <1>1, <1>2 DEF Jobs, Results, Queued
<1>4. server' \in [Sockets -> Databases \cup {Nobody}]
  <2>1. PICK s \in Sockets : Down(s) \/ \E d \in Databases : Up(s, d)
    BY <1>1 DEF EndpointNext
  <2>2. QED BY <1>1, <2>1 DEF Down, Up, ClientTypes
<1>5. ClientTypes'
  <2>1. calls' \in Seq(CallRow) /\ control' \in ControlRow
    <3>1. <<>> \in Seq(CallRow) /\ calls \in Seq(CallRow) /\ control \in ControlRow
      BY <1>1 DEF ClientTypes
    <3>2. QED BY <1>2, <3>1, StartedControl
  <2>2. QED BY <1>1, <1>4, <2>1 DEF ClientTypes
<1>6. CallInv' /\ OrderInv'
  <2>1. CASE UNCHANGED <<calls, control>>
    BY <1>1, <1>3, <2>1, CallKept, OrderKept DEF ClientInv
  <2>2. CASE calls' = <<>>
    BY <1>1, <1>3, <2>2 DEF ClientInv, CallInv, OrderInv
  <2>3. QED BY <1>2, <2>1, <2>2
<1>7. SettledInv'
  <2>1. control.paused => control'.paused
    BY <1>2, StartedControl
  <2>2. QED BY <1>1, <1>3, <2>1, SettledKept DEF ClientInv
<1>8. BoundInv'
  <2>1. EvidenceReachesItsRequest'
    BY <1>1, <1>2, StartedControl DEF ClientInv, BoundInv, EvidenceReachesItsRequest
  <2>2. QED BY <1>1, <1>3, <2>1 DEF ClientInv, BoundInv
<1>9. SendInv'
  BY <1>1, SendKept DEF ClientInv
<1>10. DraftInv' /\ FreshInv'
  BY <1>1, <1>3, DraftsKept DEF ClientInv
<1>11. SavedInv'
  BY <1>1, <1>3, SavedKept DEF ClientInv
<1>12. QED
  BY <1>5, <1>6, <1>7, <1>8, <1>9, <1>10, <1>11 DEF ClientInv

-----------------------------------------------------------------------------
(* The induction, and what follows.                                        *)

LEMMA InitClientInv == ClientInit => ClientInv
<1> SUFFICES ASSUME ClientInit PROVE ClientInv
  OBVIOUS
<1>1. /\ input = Empty /\ retry = NoRetry /\ pending = FALSE /\ connected = FALSE
      /\ snapshot = Nothing /\ jobs = <<>> /\ results = <<>> /\ call = Nothing /\ calls = <<>>
      /\ control = StartedPaused /\ typed = <<>> /\ saved = <<>> /\ issued = 0 /\ bound = {}
      /\ held = FALSE /\ server = [s \in Sockets |-> Nobody]
      /\ inbox = [d \in Databases |-> <<>>]
      /\ subject = [d \in Databases |-> [head |-> 0, settled |-> 0]]
  BY DEF ClientInit, EndpointInit
<1>2. Jobs = {} /\ Queued = {} /\ Results = {}
  BY <1>1 DEF Jobs, Queued, Results
<1>3. ClientTypes
  <2>1. NoRetry \in DraftRow
    BY DEF NoRetry, NoKey, DraftRow
  <2>2. pending \in BOOLEAN /\ connected \in BOOLEAN /\ held \in BOOLEAN
    BY <1>1
  <2>3. subject \in [Databases -> SubjectRow]
    BY <1>1 DEF SubjectRow
  <2>4. control \in ControlRow
    BY <1>1, StartedControl
  <2>5. /\ jobs \in Seq(JobRow) /\ results \in Seq(ResultRow) /\ calls \in Seq(CallRow)
        /\ typed \in Seq(Drafts) /\ saved \in Seq(DraftRow)
        /\ inbox \in [Databases -> Seq(DraftRow)]
    BY <1>1
  <2>6. QED BY <1>1, <2>1, <2>2, <2>3, <2>4, <2>5 DEF ClientTypes
<1>4. CallInv /\ OrderInv
  BY <1>1, <1>2 DEF CallInv, OrderInv
<1>5. SettledInv /\ BoundInv
  BY <1>1, <1>2, StartedControl
  DEF SettledInv, Settled, BoundInv, EvidenceReachesItsRequest
<1>6. SendInv
  <2>1. /\ Hits(jobs, SendJobs) = {} /\ Hits(results, SendResults) = {} /\ OwedCall = 0
    BY <1>1 DEF Hits, OwedCall
  <2>2. /\ Cardinality(Hits(jobs, SendJobs)) = 0
        /\ Cardinality(Hits(results, SendResults)) = 0
    BY <2>1, FS_EmptySet
  <2>3. Cardinality(Hits(jobs, SendJobs)) + Cardinality(Hits(results, SendResults)) + OwedCall = 0
    BY <2>1, <2>2
  <2>4. ~pending
    BY <1>1
  <2>5. SendIsOwed
    BY <1>3, <2>3, <2>4, Owed
  <2>6. QED BY <1>1, <1>2, <2>5 DEF SendInv
<1>7. DraftInv /\ FreshInv
  BY <1>1, <1>2 DEF DraftInv, FreshInv
<1>8. SavedInv
  BY <1>1, <1>2 DEF SavedInv
<1>9. QED BY <1>3, <1>4, <1>5, <1>6, <1>7, <1>8 DEF ClientInv

LEMMA NextClientInv == ClientInv /\ [ClientNext]_clientVars => ClientInv'
<1> SUFFICES ASSUME ClientInv, [ClientNext]_clientVars PROVE ClientInv'
  OBVIOUS
<1>1. CASE UNCHANGED clientVars
  <2>1. UNCHANGED <<server, input, retry, pending, connected, snapshot, typed, saved, issued,
                    bound, held, jobs, results, call, calls, control, inbox, subject>>
    BY <1>1 DEF clientVars, uiVars, queueVars, hostVars, historyVars
  <2>2. Jobs' = Jobs /\ Queued' = Queued /\ Results' = Results
    BY <2>1 DEF Jobs, Queued, Results
  <2>3. ClientTypes'
    BY <2>1 DEF ClientInv, ClientTypes
  <2>4. CallInv' /\ OrderInv' /\ SettledInv' /\ BoundInv'
    BY <2>1, <2>2, CallKept, OrderKept, SettledKept, BoundKept DEF ClientInv
  <2>5. SendInv' /\ DraftInv' /\ FreshInv' /\ SavedInv'
    BY <2>1, <2>2, SendKept, DraftsKept, SavedKept DEF ClientInv
  <2>6. QED BY <2>3, <2>4, <2>5 DEF ClientInv
<1>2. CASE UI
  <2>1. UNCHANGED <<server, hostVars>>
    BY <1>2 DEF UI
  <2>2. CASE \E x \in Drafts : Write(x)
    BY <2>1, <2>2, WriteClientInv
  <2>3. CASE Clear
    BY <2>1, <2>3, ClearClientInv
  <2>4. CASE Send
    BY <2>1, <2>4, SendClientInv
  <2>5. CASE \E op \in {"pause", "resume", "evidence"} : Issue(op)
    BY <2>1, <2>5, IssueClientInv
  <2>6. CASE Drain
    BY <2>1, <2>6, DrainClientInv
  <2>7. QED BY <1>2, <2>2, <2>3, <2>4, <2>5, <2>6 DEF UI
<1>3. CASE Network
  <2>1. UNCHANGED <<server, uiVars, historyVars>>
    BY <1>3 DEF Network
  <2>2. QED
    BY <1>3, <2>1, ConnectClientInv, UnavailableClientInv, TimeOutClientInv DEF Network
<1>4. CASE HostSide
  <2>1. UNCHANGED <<server, uiVars, historyVars>>
    BY <1>4 DEF HostSide
  <2>2. CASE Submit
    BY <2>1, <2>2, SubmitClientInv
  <2>3. CASE PauseOrResume
    BY <2>1, <2>3, PauseOrResumeClientInv
  <2>4. CASE Evidence
    BY <2>1, <2>4, EvidenceClientInv
  <2>5. CASE Look
    BY <2>1, <2>5, LookClientInv
  <2>6. CASE Decline
    BY <2>1, <2>6, DeclineClientInv
  <2>7. CASE Work
    BY <2>1, <2>7, WorkClientInv
  <2>8. QED BY <1>4, <2>2, <2>3, <2>4, <2>5, <2>6, <2>7 DEF HostSide
<1>5. CASE Processes
  BY <1>5, ProcessesClientInv
<1>6. QED BY <1>1, <1>2, <1>3, <1>4, <1>5 DEF ClientNext

\* The inductive invariant holds throughout.
THEOREM ClientInvariant == ClientSpec => []ClientInv
BY InitClientInv, NextClientInv, PTL DEF ClientSpec

\* The entry is locked exactly while one send is on its way: whatever times
\* out, disconnects or restarts, it is unlocked again and never twice.
THEOREM TheSendIsOwed == ClientSpec => []SendIsOwed
<1>1. ClientInv => SendIsOwed
  BY DEF ClientInv, SendInv
<1>2. QED BY <1>1, ClientInvariant, PTL

\* A pause that was acknowledged holds until another control is entered: no
\* request that timed out resumes the host behind it.
THEOREM AcknowledgedPausesHold == ClientSpec => []PauseHolds
<1>1. ClientInv => PauseHolds
  BY DEF ClientInv, SettledInv, Settled, PauseHolds
<1>2. QED BY <1>1, ClientInvariant, PTL

\* Staged evidence is about what was displayed when it was entered.
THEOREM EvidenceIsForItsRequest == ClientSpec => []EvidenceReachesItsRequest
<1>1. ClientInv => EvidenceReachesItsRequest
  BY DEF ClientInv, BoundInv
<1>2. QED BY <1>1, ClientInvariant, PTL

\* The rows of a text have as many drafts of their own: their keys.
LEMMA RowsAreWritten ==
    ASSUME ClientInv, NEW d \in Databases, NEW x \in Drafts
    PROVE  Cardinality(Rows(d, x)) <= Cardinality({i \in DOMAIN typed : typed[i] = x})
<1> DEFINE T == {i \in DOMAIN typed : typed[i] = x}
           f == [i \in Rows(d, x) |-> inbox[d][i].key]
<1>1. DOMAIN typed = 1 .. Len(typed) /\ Len(typed) \in Nat
  BY LenProperties DEF ClientInv, ClientTypes
<1>2. \A i \in DOMAIN inbox[d] : /\ inbox[d][i].key \in DOMAIN typed
                                 /\ typed[inbox[d][i].key] = inbox[d][i].text
  BY <1>1 DEF ClientInv, DraftInv, Written
<1>3. f \in [Rows(d, x) -> T]
  BY <1>2 DEF Rows
<1>4. \A i, j \in Rows(d, x) : f[i] = f[j] => i = j
  BY DEF Rows, ClientInv, DraftInv
<1>5. IsFiniteSet(T)
  <2>1. T \in SUBSET (1 .. Len(typed)) /\ IsFiniteSet(1 .. Len(typed))
    BY <1>1, FS_Interval
  <2>2. QED BY <2>1, FS_Subset
<1>6. QED
  <2> HIDE DEF T, f
  <2>1. f \in Injection(Rows(d, x), T)
    BY <1>3, <1>4, Fun_IsInj
  <2>2. QED BY <1>5, <2>1, FS_Injection DEF T

\* No draft is in an inbox more often than it was written, and every
\* acknowledged draft has a row that no other draft shares.
THEOREM DraftsAreSavedOnce == ClientSpec => []RowsMatchDrafts
<1>1. ClientInv => RowsMatchDrafts
  BY RowsAreWritten DEF ClientInv, SavedInv, Kept, RowsMatchDrafts
<1>2. QED BY <1>1, ClientInvariant, PTL

\* While a send is in flight the entry keeps its text, until that text is in
\* an inbox.
THEOREM DraftsStay == ClientSpec => DraftsAreKept
<1>1. ClientInv /\ [ClientNext]_clientVars =>
        [pending /\ input' # input => \E d \in Databases : Rows(d, input) # {}]_clientVars
  <2> SUFFICES ASSUME ClientInv, ClientNext, pending, input' # input
               PROVE  \E d \in Databases : Rows(d, input) # {}
    OBVIOUS
  <2>1. Drain
    BY DEF ClientNext, UI, Write, Clear, Send, Issue, Network, HostSide, Processes, uiVars
  <2>2. PICK r \in Results : Sending(r.job) /\ r.ok
    BY <2>1 DEF Drain
  <2>3. r.job.text = input
    BY <2>2 DEF ClientInv, SendInv
  <2>4. PICK d \in Databases : \E i \in DOMAIN inbox[d] :
           inbox[d][i] = [text |-> r.job.text, key |-> r.job.key]
    BY <2>2 DEF ClientInv, SavedInv, Kept
  <2>5. \E i \in DOMAIN inbox[d] : inbox[d][i].text = input
    BY <2>3, <2>4
  <2>6. QED BY <2>5 DEF Rows
<1>2. QED BY <1>1, ClientInvariant, PTL DEF ClientSpec, DraftsAreKept
=============================================================================
