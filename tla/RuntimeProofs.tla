---------------------------- MODULE RuntimeProofs ----------------------------
(***************************************************************************)
(* Workers on one subject, proved for every number of workers, every route *)
(* and registry and every interleaving: workers only make transactions of  *)
(* the store, and what they report, own and pass on is sound.              *)
(***************************************************************************)
EXTENDS KernelProofs, Runtime

-----------------------------------------------------------------------------
(* The inductive invariant: the store's, and for each worker what the code *)
(* of a step has established at the line where it stands.                  *)

Resting == {"idle", "bind", "select", "check", "admit"}
Owning == {"owned", "respond", "judge", "settle"}

Places == Resting \cup Owning \cup {"done"}

Replies == {"none", "proposal", "mute", "ungranted"} \cup Abstentions \cup Failures
Reasons == {"none", "conflict", "error", "overflow"}
Verdicts == {"none", "raised", "waiting", "cancelled", "timeout", "exhausted", "conflict",
             "committed", "abstained", "disposed", "failed", "skipped", "context_overflow"}

LineRow == [executor : Executors, attempt : Nat, status : Verdicts]

WorkRow ==
    [at : Places, original : Nat, context : [head : Nat, occasion : Nat],
     next : Nat \ {0}, attempt : Nat, answer : Replies, reason : Reasons,
     status : Verdicts, report : Seq(LineRow)]

RegistryRow == [enabled : SUBSET Executors, sessions : SUBSET Executors]

\* Between admission and settlement a step has an attempt that nobody else
\* settles, though a commit at its head may supersede it.  Outside, it has
\* none, and no answer.
ControlInv(w) ==
    LET r == work[w]
    IN  /\ r.at \in Resting => r.attempt = NoAttempt
        /\ r.attempt # NoAttempt => r.attempt \in AttemptIds
        /\ r.at \in Owning => /\ r.attempt \in AttemptIds
                              /\ attempts[r.attempt].status \in {"reserved", "superseded"}
        /\ r.at # "done" => r.status = "none"
        /\ r.at \notin {"judge", "settle"} => r.answer = "none"
        /\ r.at \in {"select", "check", "owned"} => Routed(w)
        /\ r.at = "bind" => ~Routed(w)
        /\ Routed(w) /\ r.at \in {"check", "admit"} \cup Owning => r.next \in DOMAIN Route

\* The registry lets the current executor see the attempt.
AdmissibleInv(w) ==
    Routed(w) /\ work[w].at \in {"check", "admit"} \cup Owning =>
        /\ Current(w) \in registry[w].enabled \ Refused
        /\ Current(w) \in registry[w].sessions

\* The attempt is the one its evidence was staged for.
BoundInv(w) ==
    LET a == work[w].attempt
        c == work[w].context
    IN  (c # NoContext /\ a # NoAttempt) =>
            /\ attempts[a].parent = c.head
            /\ IF c.occasion = NoRow
               THEN occasions[attempts[a].occasion].key = WakeKey(c.head)
               ELSE attempts[a].occasion = c.occasion

\* A line of the report is of a settled attempt at the route's head, and only
\* the last line of a finished route is of one that ended it.
LinesInv(w) ==
    LET r == work[w]
    IN  \A i \in DOMAIN r.report :
            LET line == r.report[i]
            IN  line.attempt # NoAttempt =>
                    /\ line.attempt \in AttemptIds
                    /\ attempts[line.attempt].status # "reserved"
                    /\ attempts[line.attempt].parent = r.original
                    /\ r.status # "disposed" => Durable(line.attempt, line.status)
                    /\ attempts[line.attempt].status \in {"committed", "abstained"} =>
                          i = Len(r.report) /\ r.at = "done"

\* What a finished step tells its caller; and a route's backend sees only
\* attempts at the route's head.
ReportInv(w) ==
    LET r == work[w]
    IN  /\ (r.at = "done" /\ r.attempt # NoAttempt) => Durable(r.attempt, r.status)
        /\ Routed(w) /\ r.at \in {"respond", "judge", "settle"} =>
              attempts[r.attempt].parent = r.original

WorkerInv(w) ==
    /\ ControlInv(w)
    /\ AdmissibleInv(w)
    /\ BoundInv(w)
    /\ LinesInv(w)
    /\ ReportInv(w)

\* No two steps hold the same attempt.
OwnersAreDistinct ==
    \A v, w \in Workers :
        /\ work[v].at \in Owning
        /\ work[w].at \in Owning
        /\ work[v].attempt = work[w].attempt
        => v = w

RuntimeInv ==
    /\ StoreInv
    /\ work \in [Workers -> WorkRow]
    /\ registry \in [Workers -> RegistryRow]
    /\ \A w \in Workers : WorkerInv(w)
    /\ OwnersAreDistinct
    /\ OrphansAreAbandoned

-----------------------------------------------------------------------------
(* What the store's transactions leave of the rows a step relies on.       *)

\* A row keeps its parent and its occasion, and once settled its outcome.
RowsAreKept ==
    /\ AttemptIds \subseteq AttemptIds'
    /\ \A a \in AttemptIds :
          /\ attempts'[a].parent = attempts[a].parent
          /\ attempts'[a].occasion = attempts[a].occasion
          /\ occasions'[attempts[a].occasion].key = occasions[attempts[a].occasion].key
          /\ attempts[a].status # "reserved" =>
                /\ attempts'[a].status = attempts[a].status
                /\ Disposed(a)' <=> Disposed(a)

\* Only attempt a is settled, but reservations at its head may be superseded.
SettlesOnly(a) ==
    \A i \in AttemptIds \ {a} :
        \/ attempts'[i].status = attempts[i].status
        \/ attempts[i].status = "reserved" /\ attempts'[i].status = "superseded"

\* Transactions that settle nothing.
LEMMA UnsettledEffect ==
    ASSUME StoreInv,
           \/ UNCHANGED vars
           \/ \E key \in Keys, payload \in Payloads : Submit(key, payload)
           \/ \E observed \in Instants, maintenance \in MaintenanceModes :
                 Admit(observed, maintenance)
    PROVE  /\ RowsAreKept
           /\ \A i \in AttemptIds : attempts'[i].status = attempts[i].status
<1>1. KernelInv /\ TypeOK /\ ChainInv /\ InboxInv
  BY DEF StoreInv, KernelInv
<1>2. /\ AttemptIds \subseteq AttemptIds'
      /\ UNCHANGED commits
      /\ \A a \in AttemptIds : attempts'[a] = attempts[a]
      /\ \A o \in OccasionIds : occasions'[o] = occasions[o]
  <2>1. CASE UNCHANGED vars
    BY <2>1 DEF vars, AttemptIds
  <2>2. CASE \E key \in Keys, payload \in Payloads : Submit(key, payload)
    BY <1>1, <2>2, SubmitCases DEF InboxGrows, AttemptIds
  <2>3. ASSUME NEW observed \in Instants, NEW maintenance \in MaintenanceModes,
               Admit(observed, maintenance)
        PROVE  /\ AttemptIds \subseteq AttemptIds'
               /\ UNCHANGED commits
               /\ \A a \in AttemptIds : attempts'[a] = attempts[a]
               /\ \A o \in OccasionIds : occasions'[o] = occasions[o]
    BY <1>1, <2>3, AdmitCases DEF InboxGrows
  <2>4. QED BY <2>1, <2>2, <2>3
<1>3. \A a \in AttemptIds : Disposed(a)' <=> Disposed(a)
  BY <1>2 DEF Disposed, CommitIds
<1>4. \A a \in AttemptIds : attempts[a].occasion \in OccasionIds
  BY <1>1 DEF TypeOK
<1>5. QED BY <1>2, <1>3, <1>4 DEF RowsAreKept

\* A failure or an abstention.
LEMMA LapseEffect ==
    ASSUME StoreInv, NEW a \in AttemptIds, NEW status \in {"failed", "abstained"},
           Lapse(a, status)
    PROVE  /\ RowsAreKept
           /\ SettlesOnly(a)
           /\ AttemptIds' = AttemptIds
           /\ attempts'[a].status = status
<1>1. /\ attempts[a].status = "reserved" /\ OnlyStatusChanges
      /\ \A i \in AttemptIds :
            attempts'[i].status = IF i = a THEN status ELSE attempts[i].status
      /\ UNCHANGED <<occasions, commits>>
  BY DEF Lapse
<1>2. AttemptIds' = AttemptIds
  BY <1>1 DEF OnlyStatusChanges, AttemptIds
<1>3. \A i \in AttemptIds : Disposed(i)' <=> Disposed(i)
  BY <1>1 DEF Disposed, CommitIds
<1>4. QED BY <1>1, <1>2, <1>3 DEF RowsAreKept, SettlesOnly, OnlyStatusChanges

\* A transition: the commit names its attempt, no earlier one does, and it is a
\* disposition only if it counts failures.
LEMMA TransitionRows ==
    ASSUME StoreInv, NEW a \in AttemptIds, NEW now \in Instants,
           NEW request \in Nat \cup {NoTime}, NEW disposition \in SUBSET Nat,
           Transition(a, now, request, disposition)
    PROVE  /\ RowsAreKept
           /\ SettlesOnly(a)
           /\ AttemptIds' = AttemptIds
           /\ attempts'[a].status = "committed"
           /\ Disposed(a)' <=> disposition # {}
<1> DEFINE id == Len(commits) + 1
<1>1. KernelInv /\ TypeOK /\ ChainInv
  BY DEF StoreInv, KernelInv
<1>2. CommitLocked(a, now, request, disposition)
  BY DEF Transition
<1>3. /\ Committable(a) /\ AttemptIds' = AttemptIds
      /\ CommitIds' = CommitIds \cup {id}
      /\ \A c \in CommitIds : commits'[c] = commits[c] /\ c # id
      /\ commits'[id].attempt = a
      /\ commits'[id].disposition = disposition
  BY <1>1, <1>2, TransitionEffect
<1>4. /\ \A p \in OccasionIds : occasions'[p].key = occasions[p].key
      /\ OnlyStatusChanges
      /\ attempts'[a].status = "committed"
      /\ \A i \in AttemptIds \ {a} :
            attempts'[i].status =
               IF attempts[i].parent = head /\ attempts[i].status = "reserved"
               THEN "superseded" ELSE attempts[i].status
  BY <1>1, <1>2, TransitionEffect
<1> HIDE DEF id
<1>5. \A c \in CommitIds : commits[c].attempt # a
  <2>1. attempts[a].status = "reserved"
    BY <1>3 DEF Committable
  <2>2. a # NoRow
    BY DEF AttemptIds, NoRow
  <2>3. QED BY <1>1, <2>1, <2>2 DEF ChainInv
<1>6. Disposed(a)' <=> disposition # {}
  BY <1>3, <1>5 DEF Disposed
<1>7. ASSUME NEW i \in AttemptIds, attempts[i].status # "reserved"
      PROVE  Disposed(i)' <=> Disposed(i)
  <2>1. i # a
    BY <1>3, <1>7 DEF Committable
  <2>2. QED BY <1>3, <2>1 DEF Disposed
<1>8. \A i \in AttemptIds : attempts[i].occasion \in OccasionIds
  BY <1>1 DEF TypeOK
<1>9. attempts[a].status = "reserved"
  BY <1>3 DEF Committable
<1>10. RowsAreKept
  BY <1>3, <1>4, <1>7, <1>8, <1>9 DEF RowsAreKept, OnlyStatusChanges
<1>11. SettlesOnly(a)
  BY <1>4 DEF SettlesOnly
<1>12. QED BY <1>3, <1>4, <1>6, <1>10, <1>11

-----------------------------------------------------------------------------
(* What one worker's step leaves of the others'.                           *)

\* What the store keeps of a reported attempt stays true.
LEMMA DurableIsStable ==
    ASSUME RowsAreKept, abandoned \subseteq abandoned',
           NEW a \in AttemptIds, NEW status, Durable(a, status)
    PROVE  Durable(a, status)'
<1>1. /\ attempts[a].status # "reserved" => attempts'[a].status = attempts[a].status
      /\ attempts[a].status # "reserved" => (Disposed(a)' <=> Disposed(a))
      /\ a \in abandoned => a \in abandoned'
  BY DEF RowsAreKept
<1>2. QED BY <1>1 DEF Durable

\* The lines of a report stay true while their step goes on.
LEMMA LinesAreStable ==
    ASSUME NEW w \in Workers, LinesInv(w), RowsAreKept, abandoned \subseteq abandoned',
           work'[w].report = work[w].report, work'[w].original = work[w].original,
           work[w].status # "disposed" \/ work'[w].status = "disposed",
           work[w].at = "done" => work'[w].at = "done"
    PROVE  LinesInv(w)'
<1>1. SUFFICES ASSUME NEW i \in DOMAIN work[w].report,
                      work[w].report[i].attempt # NoAttempt
               PROVE  LET line == work[w].report[i]
                      IN  /\ line.attempt \in AttemptIds'
                          /\ attempts'[line.attempt].status # "reserved"
                          /\ attempts'[line.attempt].parent = work[w].original
                          /\ work'[w].status # "disposed" => Durable(line.attempt, line.status)'
                          /\ attempts'[line.attempt].status \in {"committed", "abstained"} =>
                                i = Len(work[w].report) /\ work'[w].at = "done"
  BY DEF LinesInv
<1>2. PICK line : line = work[w].report[i]
  OBVIOUS
<1>3. /\ line.attempt \in AttemptIds
      /\ attempts[line.attempt].status # "reserved"
      /\ attempts[line.attempt].parent = work[w].original
      /\ work[w].status # "disposed" => Durable(line.attempt, line.status)
      /\ attempts[line.attempt].status \in {"committed", "abstained"} =>
            i = Len(work[w].report) /\ work[w].at = "done"
  BY <1>1, <1>2 DEF LinesInv
<1>4. work'[w].status # "disposed" => Durable(line.attempt, line.status)'
  BY <1>3, DurableIsStable
<1>5. QED BY <1>2, <1>3, <1>4 DEF RowsAreKept

\* Evidence stays bound.
LEMMA BoundIsStable ==
    ASSUME NEW w \in Workers, BoundInv(w), RowsAreKept,
           work[w].attempt # NoAttempt => work[w].attempt \in AttemptIds,
           work'[w].attempt = work[w].attempt, work'[w].context = work[w].context
    PROVE  BoundInv(w)'
BY DEF BoundInv, RowsAreKept

\* A worker that does not move keeps its invariant, if nobody settles its attempt.
LEMMA Bystander ==
    ASSUME NEW w \in Workers, WorkerInv(w), RowsAreKept, abandoned \subseteq abandoned',
           work'[w] = work[w], registry'[w] = registry[w],
           work[w].at \in Owning =>
              attempts'[work[w].attempt].status \in {"reserved", "superseded"}
    PROVE  WorkerInv(w)'
<1>1. ControlInv(w)'
  BY DEF WorkerInv, ControlInv, RowsAreKept, Routed
<1>2. AdmissibleInv(w)'
  BY DEF WorkerInv, AdmissibleInv, Routed, Current
<1>3. BoundInv(w)'
  BY BoundIsStable DEF WorkerInv, ControlInv
<1>4. LinesInv(w)'
  BY LinesAreStable DEF WorkerInv
<1>5. ReportInv(w)'
  <2>1. work[w].at = "done" /\ work[w].attempt # NoAttempt =>
           Durable(work[w].attempt, work[w].status)
    BY DEF WorkerInv, ReportInv
  <2>2. work[w].attempt # NoAttempt => work[w].attempt \in AttemptIds
    BY DEF WorkerInv, ControlInv
  <2>3. PICK a, status : a = work[w].attempt /\ status = work[w].status
    OBVIOUS
  <2>4. work[w].at = "done" /\ a # NoAttempt => Durable(a, status)'
    BY <2>1, <2>2, <2>3, DurableIsStable
  <2>5. Routed(w) /\ work[w].at \in {"respond", "judge", "settle"} =>
           attempts'[work[w].attempt].parent = work[w].original
    BY DEF WorkerInv, ReportInv, ControlInv, Owning, RowsAreKept
  <2>6. QED BY <2>3, <2>4, <2>5 DEF ReportInv, Routed
<1>6. QED BY <1>1, <1>2, <1>3, <1>4, <1>5 DEF WorkerInv

\* A step of worker w, with what it does to the store, the registry and the
\* reservations: a step takes an attempt only when it admits it, and gives one
\* up only settled or abandoned.
LEMMA WorkerMove ==
    ASSUME RuntimeInv, StoreInv', NEW w \in Workers, NEW record \in WorkRow,
           Goto(w, record),
           registry' \in [Workers -> RegistryRow],
           \A v \in Workers \ {w} : registry'[v] = registry[v],
           RowsAreKept, abandoned \subseteq abandoned',
           \/ \A i \in AttemptIds : attempts'[i].status = attempts[i].status
           \/ work[w].at \in Owning /\ SettlesOnly(work[w].attempt),
           \A i \in AttemptIds' \ AttemptIds : record.at \in Owning /\ record.attempt = i,
           record.at \in Owning =>
              \/ work[w].at \in Owning /\ record.attempt = work[w].attempt
              \/ record.attempt \notin AttemptIds,
           work[w].at \in Owning =>
              \/ record.at \in Owning /\ record.attempt = work[w].attempt
              \/ attempts'[work[w].attempt].status # "reserved"
              \/ work[w].attempt \in abandoned',
           WorkerInv(w)'
    PROVE  RuntimeInv'
<1>1. /\ work \in [Workers -> WorkRow]
      /\ \A v \in Workers : WorkerInv(v)
      /\ OwnersAreDistinct /\ OrphansAreAbandoned
  BY DEF RuntimeInv
<1>2. /\ work' \in [Workers -> WorkRow]
      /\ work'[w] = record
      /\ \A v \in Workers \ {w} : work'[v] = work[v]
  BY <1>1 DEF Goto
<1>3. \A v \in Workers : work[v].at \in Owning =>
         /\ work[v].attempt \in AttemptIds
         /\ attempts[work[v].attempt].status \in {"reserved", "superseded"}
  BY <1>1 DEF WorkerInv, ControlInv
<1>4. ASSUME NEW v \in Workers \ {w} PROVE WorkerInv(v)'
  <2>1. work[v].at \in Owning =>
           attempts'[work[v].attempt].status \in {"reserved", "superseded"}
    BY <1>1, <1>3 DEF SettlesOnly, OwnersAreDistinct
  <2>2. QED BY <1>1, <1>2, <2>1, Bystander
<1>5. OwnersAreDistinct'
  <2>1. \A v \in Workers \ {w} :
           work[v].at \in Owning /\ record.at \in Owning => work[v].attempt # record.attempt
    BY <1>1, <1>3 DEF OwnersAreDistinct
  <2>2. QED BY <1>1, <1>2, <2>1 DEF OwnersAreDistinct
<1>6. OrphansAreAbandoned'
  <2>1. SUFFICES ASSUME NEW a \in AttemptIds', attempts'[a].status = "reserved",
                        a \notin abandoned'
                 PROVE  \E v \in Workers : work'[v].attempt = a /\ work'[v].at \in Owning
    BY DEF OrphansAreAbandoned, Owning
  <2>2. CASE a \notin AttemptIds
    BY <1>2, <2>1, <2>2
  <2>3. CASE a \in AttemptIds
    <3>1. attempts[a].status = "reserved" /\ a \notin abandoned
      BY <2>1, <2>3 DEF RowsAreKept
    <3>2. PICK v \in Workers : work[v].attempt = a /\ work[v].at \in Owning
      BY <1>1, <2>3, <3>1 DEF OrphansAreAbandoned, Owning
    <3>3. CASE v = w
      BY <1>2, <2>1, <3>2, <3>3
    <3>4. QED BY <1>2, <3>2, <3>3
  <2>4. QED BY <2>2, <2>3
<1>7. QED BY <1>2, <1>4, <1>5, <1>6 DEF RuntimeInv

\* A transaction that leaves every row alone.
LEMMA StoreAtRest ==
    ASSUME RuntimeInv, UNCHANGED vars
    PROVE  /\ StoreInv'
           /\ RowsAreKept
           /\ AttemptIds' = AttemptIds
           /\ \A i \in AttemptIds : attempts'[i].status = attempts[i].status
<1>1. StoreInv
  BY DEF RuntimeInv
<1>2. QED BY <1>1, NextStoreInv, UnsettledEffect DEF vars, AttemptIds

\* A step of worker w between two transactions.
LEMMA LocalMove ==
    ASSUME RuntimeInv, UNCHANGED vars, NEW w \in Workers, NEW record \in WorkRow,
           Goto(w, record),
           registry' \in [Workers -> RegistryRow],
           \A v \in Workers \ {w} : registry'[v] = registry[v],
           abandoned \subseteq abandoned',
           record.at \in Owning => work[w].at \in Owning /\ record.attempt = work[w].attempt,
           work[w].at \in Owning =>
              \/ record.at \in Owning /\ record.attempt = work[w].attempt
              \/ work[w].attempt \in abandoned',
           WorkerInv(w)'
    PROVE  RuntimeInv'
BY StoreAtRest, WorkerMove

-----------------------------------------------------------------------------
(* The local state of a step.                                              *)

\* What the assignments of a step make of its record.
LEMMA DoneUpdate ==
    ASSUME NEW r \in WorkRow, NEW at \in Places, NEW next \in Nat \ {0},
           NEW answer \in Replies, NEW reason \in Reasons, NEW status \in Verdicts
    PROVE  [r EXCEPT !.at = at, !.next = next, !.answer = answer, !.reason = reason,
                     !.status = status] \in WorkRow
BY DEF WorkRow

LEMMA FallbackUpdate ==
    ASSUME NEW r \in WorkRow, NEW at \in Places, NEW next \in Nat \ {0},
           NEW attempt \in Nat, NEW answer \in Replies, NEW reason \in Reasons,
           NEW report \in Seq(LineRow)
    PROVE  [r EXCEPT !.at = at, !.next = next, !.attempt = attempt, !.answer = answer,
                     !.reason = reason, !.report = report] \in WorkRow
BY DEF WorkRow

\* A step goes on to another line.
LEMMA StepFields ==
    ASSUME NEW w \in Workers, work[w] \in WorkRow, NEW pc \in Places
    PROVE  /\ Step(w, pc) \in WorkRow
           /\ Step(w, pc).at = pc
           /\ Step(w, pc).original = work[w].original
           /\ Step(w, pc).context = work[w].context
           /\ Step(w, pc).next = work[w].next
           /\ Step(w, pc).attempt = work[w].attempt
           /\ Step(w, pc).answer = work[w].answer
           /\ Step(w, pc).reason = work[w].reason
           /\ Step(w, pc).status = work[w].status
           /\ Step(w, pc).report = work[w].report
BY DEF Step, WorkRow

\* A step is over.
LEMMA DoneFields ==
    ASSUME NEW w \in Workers, work[w] \in WorkRow, NEW status \in Verdicts
    PROVE  /\ Done(w, status) \in WorkRow
           /\ Done(w, status).at = "done"
           /\ Done(w, status).original = work[w].original
           /\ Done(w, status).context = work[w].context
           /\ Done(w, status).next = 1
           /\ Done(w, status).attempt = work[w].attempt
           /\ Done(w, status).answer = "none"
           /\ Done(w, status).status = status
           /\ Done(w, status).report = work[w].report
<1>1. "done" \in Places /\ 1 \in Nat \ {0} /\ "none" \in Replies /\ "none" \in Reasons
  BY DEF Places, Replies, Reasons
<1>2. PICK r \in WorkRow : r = work[w]
  OBVIOUS
<1>3. Done(w, status) \in WorkRow
  BY <1>1, <1>2, DoneUpdate DEF Done
<1>4. LET d == [r EXCEPT !.at = "done", !.next = 1, !.answer = "none", !.reason = "none",
                         !.status = status]
      IN  /\ d.at = "done" /\ d.original = r.original /\ d.context = r.context
          /\ d.next = 1 /\ d.attempt = r.attempt /\ d.answer = "none" /\ d.status = status
          /\ d.report = r.report
  BY DEF WorkRow
<1>5. QED BY <1>2, <1>3, <1>4 DEF Done

\* The line of the current executor.
LEMMA LineFields ==
    ASSUME RuntimeInv, NEW w \in Workers, work[w].next \in DOMAIN Route,
           NEW status \in Verdicts
    PROVE  /\ Line(w, status) \in LineRow
           /\ Line(w, status).attempt = work[w].attempt
           /\ Line(w, status).status = status
           /\ work[w].report \in Seq(LineRow)
           /\ Append(work[w].report, Line(w, status)) \in Seq(LineRow)
<1>1. Current(w) \in Executors
  BY RuntimeAssumption DEF Current
<1>2. work[w] \in WorkRow
  BY DEF RuntimeInv
<1>3. Line(w, status) \in LineRow
  BY <1>1, <1>2 DEF Line, LineRow, WorkRow
<1>4. work[w].report \in Seq(LineRow)
  BY <1>2 DEF WorkRow
<1>5. Append(work[w].report, Line(w, status)) \in Seq(LineRow)
  BY <1>3, <1>4
<1>6. QED BY <1>3, <1>4, <1>5 DEF Line

\* A route goes on with its next executor.
LEMMA FallbackFields ==
    ASSUME RuntimeInv, NEW w \in Workers, work[w].next \in DOMAIN Route,
           NEW status \in Verdicts
    PROVE  /\ Fallback(w, status) \in WorkRow
           /\ Fallback(w, status).at = "select"
           /\ Fallback(w, status).original = work[w].original
           /\ Fallback(w, status).context = work[w].context
           /\ Fallback(w, status).next = work[w].next + 1
           /\ Fallback(w, status).attempt = NoAttempt
           /\ Fallback(w, status).answer = "none"
           /\ Fallback(w, status).status = work[w].status
           /\ Fallback(w, status).report = Append(work[w].report, Line(w, status))
<1>1. PICK r \in WorkRow : r = work[w]
  BY DEF RuntimeInv
<1>2. PICK line \in LineRow : line = Line(w, status)
  BY LineFields
<1>3. /\ "select" \in Places /\ r.next + 1 \in Nat \ {0} /\ NoAttempt \in Nat
      /\ "none" \in Replies /\ "none" \in Reasons /\ Append(r.report, line) \in Seq(LineRow)
  BY DEF WorkRow, Places, Resting, Replies, Reasons, NoAttempt
<1>4. Fallback(w, status) =
        [r EXCEPT !.at = "select", !.next = @ + 1, !.attempt = NoAttempt, !.answer = "none",
                  !.reason = "none", !.report = Append(@, line)]
  BY <1>1, <1>2 DEF Fallback
<1>5. Fallback(w, status) \in WorkRow
  <2>1. [r EXCEPT !.at = "select", !.next = r.next + 1, !.attempt = NoAttempt,
                  !.answer = "none", !.reason = "none",
                  !.report = Append(r.report, line)] \in WorkRow
    BY <1>3, FallbackUpdate
  <2>2. QED BY <1>4, <2>1 DEF WorkRow
<1>6. LET d == [r EXCEPT !.at = "select", !.next = @ + 1, !.attempt = NoAttempt,
                         !.answer = "none", !.reason = "none", !.report = Append(@, line)]
      IN  /\ d.at = "select" /\ d.original = r.original /\ d.context = r.context
          /\ d.next = r.next + 1 /\ d.attempt = NoAttempt
          /\ d.answer = "none" /\ d.status = r.status /\ d.report = Append(r.report, line)
  BY DEF WorkRow
<1>7. QED BY <1>1, <1>2, <1>4, <1>5, <1>6

\* A route ends with a line for its last executor.
LEMMA FinalFields ==
    ASSUME RuntimeInv, NEW w \in Workers, work[w].next \in DOMAIN Route,
           NEW status \in Verdicts, NEW reason \in Verdicts
    PROVE  LET final == [Done(w, status) EXCEPT !.report = Append(@, Line(w, reason))]
           IN  /\ final \in WorkRow
               /\ final.at = "done"
               /\ final.original = work[w].original
               /\ final.context = work[w].context
               /\ final.next = 1
               /\ final.attempt = work[w].attempt
               /\ final.answer = "none"
               /\ final.status = status
               /\ final.report = Append(work[w].report, Line(w, reason))
<1>1. work[w] \in WorkRow
  BY DEF RuntimeInv
<1>2. PICK r \in WorkRow : r = Done(w, status)
  BY <1>1, DoneFields
<1>3. PICK line \in LineRow : line = Line(w, reason)
  BY LineFields
<1>4. LET d == [r EXCEPT !.report = Append(@, line)]
      IN  /\ d \in WorkRow /\ d.at = r.at /\ d.original = r.original /\ d.context = r.context
          /\ d.next = r.next /\ d.attempt = r.attempt /\ d.answer = r.answer
          /\ d.status = r.status /\ d.report = Append(r.report, line)
  <2>1. Append(r.report, line) \in Seq(LineRow)
    <3>1. r.report \in Seq(LineRow)
      BY DEF WorkRow
    <3>2. PICK report \in Seq(LineRow) : report = r.report
      BY <3>1
    <3>3. QED BY <3>2
  <2>2. PICK longer \in Seq(LineRow) : longer = Append(r.report, line)
    BY <2>1
  <2>3. QED BY <2>2 DEF WorkRow
<1>5. /\ r.at = "done" /\ r.original = work[w].original /\ r.context = work[w].context
      /\ r.next = 1 /\ r.attempt = work[w].attempt /\ r.answer = "none" /\ r.status = status
      /\ r.report = work[w].report
  BY <1>1, <1>2, DoneFields
<1>6. QED BY <1>2, <1>3, <1>4, <1>5

-----------------------------------------------------------------------------
(* The steps between two transactions.                                     *)

\* What the invariant says of the worker that moves.
LEMMA WorkerFacts ==
    ASSUME RuntimeInv, NEW w \in Workers
    PROVE  /\ work[w] \in WorkRow /\ registry[w] \in RegistryRow
           /\ ControlInv(w) /\ AdmissibleInv(w) /\ BoundInv(w) /\ LinesInv(w) /\ ReportInv(w)
BY DEF RuntimeInv, WorkerInv

\* A report grows by a line of a settled attempt, or of none.
LEMMA LinesGrow ==
    ASSUME RuntimeInv, NEW w \in Workers, RowsAreKept, abandoned \subseteq abandoned',
           work[w].at # "done",
           work'[w].original = work[w].original,
           NEW line \in LineRow, work'[w].report = Append(work[w].report, line),
           line.attempt # NoAttempt =>
              /\ line.attempt \in AttemptIds'
              /\ attempts'[line.attempt].status # "reserved"
              /\ attempts'[line.attempt].parent = work[w].original
              /\ work'[w].status # "disposed" => Durable(line.attempt, line.status)'
              /\ attempts'[line.attempt].status \in {"committed", "abstained"} =>
                    work'[w].at = "done"
    PROVE  LinesInv(w)'
<1>1. PICK report \in Seq(LineRow) : report = work[w].report
  BY WorkerFacts DEF WorkRow
<1>2. /\ Len(Append(report, line)) = Len(report) + 1
      /\ DOMAIN Append(report, line) = 1 .. Len(report) + 1
      /\ \A i \in DOMAIN report : Append(report, line)[i] = report[i]
      /\ Append(report, line)[Len(report) + 1] = line
      /\ DOMAIN report = 1 .. Len(report) /\ Len(report) \in Nat
  OBVIOUS
<1>3. SUFFICES ASSUME NEW i \in 1 .. Len(report) + 1, NEW l, l = Append(report, line)[i],
                      l.attempt # NoAttempt
               PROVE  /\ l.attempt \in AttemptIds'
                      /\ attempts'[l.attempt].status # "reserved"
                      /\ attempts'[l.attempt].parent = work[w].original
                      /\ work'[w].status # "disposed" => Durable(l.attempt, l.status)'
                      /\ attempts'[l.attempt].status \in {"committed", "abstained"} =>
                            i = Len(report) + 1 /\ work'[w].at = "done"
  BY <1>1, <1>2 DEF LinesInv
<1>4. CASE i = Len(report) + 1
  BY <1>2, <1>3, <1>4
<1>5. CASE i \in DOMAIN report
  <2>1. l = report[i]
    BY <1>2, <1>3, <1>5
  <2>2. work[w].status # "disposed"
    BY WorkerFacts DEF ControlInv
  <2>3. /\ l.attempt \in AttemptIds
        /\ attempts[l.attempt].status \notin {"reserved", "committed", "abstained"}
        /\ attempts[l.attempt].parent = work[w].original
        /\ Durable(l.attempt, l.status)
    BY <1>1, <1>3, <1>5, <2>1, <2>2, WorkerFacts DEF LinesInv
  <2>4. Durable(l.attempt, l.status)'
    BY <2>3, DurableIsStable
  <2>5. QED BY <2>3, <2>4 DEF RowsAreKept
<1>6. QED BY <1>2, <1>4, <1>5

\* A step ends before it was admitted.
LEMMA EndUnowned ==
    ASSUME RuntimeInv, NEW w \in Workers, work[w].at \in Resting, NEW status \in Verdicts,
           Goto(w, Done(w, status)), UNCHANGED <<vars, registry, crashes, abandoned>>
    PROVE  RuntimeInv'
<1>1. PICK record \in WorkRow : record = Done(w, status)
  BY WorkerFacts, DoneFields
<1>2. /\ record.at = "done" /\ record.original = work[w].original
      /\ record.attempt = work[w].attempt /\ record.answer = "none"
      /\ record.report = work[w].report
  BY <1>1, WorkerFacts, DoneFields
<1>3. work[w].attempt = NoAttempt /\ work[w].status = "none" /\ work[w].at \notin Owning
  BY WorkerFacts DEF ControlInv, Resting, Owning
<1>4. work'[w] = record
  BY <1>1 DEF Goto, RuntimeInv
<1>5. RowsAreKept
  BY StoreAtRest
<1>6. ControlInv(w)'
  BY <1>2, <1>3, <1>4 DEF ControlInv, Resting, Owning
<1>7. AdmissibleInv(w)' /\ BoundInv(w)' /\ ReportInv(w)'
  BY <1>2, <1>3, <1>4 DEF AdmissibleInv, BoundInv, ReportInv, Owning
<1>8. LinesInv(w)'
  BY <1>2, <1>3, <1>4, <1>5, WorkerFacts, LinesAreStable
<1>9. WorkerInv(w)'
  BY <1>6, <1>7, <1>8 DEF WorkerInv
<1>10. registry' \in [Workers -> RegistryRow]
  BY DEF RuntimeInv
<1>11. record.at \notin Owning
  BY <1>2 DEF Owning
<1>12. QED BY <1>1, <1>3, <1>9, <1>10, <1>11, LocalMove

\* A route passes over an executor without an admission.
LEMMA PassOver ==
    ASSUME RuntimeInv, NEW w \in Workers, work[w].at \in Resting, NEW status \in Verdicts,
           Routed(w), work[w].next \in DOMAIN Route,
           Goto(w, Fallback(w, status)), UNCHANGED <<vars, registry, crashes, abandoned>>
    PROVE  RuntimeInv'
<1>1. PICK record \in WorkRow : record = Fallback(w, status)
  BY FallbackFields
<1>2. PICK line \in LineRow : line = Line(w, status)
  BY LineFields
<1>3. /\ record.at = "select" /\ record.original = work[w].original
      /\ record.attempt = NoAttempt /\ record.answer = "none"
      /\ record.status = work[w].status
      /\ record.report = Append(work[w].report, line)
  BY <1>1, <1>2, FallbackFields
<1>4. /\ work[w].attempt = NoAttempt /\ work[w].status = "none"
      /\ work[w].at \notin Owning /\ work[w].at # "done"
  BY WorkerFacts DEF ControlInv, Resting, Owning
<1>5. work'[w] = record
  BY <1>1 DEF Goto, RuntimeInv
<1>6. RowsAreKept
  BY StoreAtRest
<1>7. ControlInv(w)'
  BY <1>3, <1>4, <1>5 DEF ControlInv, Resting, Owning, Routed
<1>8. AdmissibleInv(w)' /\ BoundInv(w)' /\ ReportInv(w)'
  BY <1>3, <1>4, <1>5 DEF AdmissibleInv, BoundInv, ReportInv, Owning
<1>9. line.attempt = NoAttempt
  BY <1>2, <1>4, LineFields
<1>10. LinesInv(w)'
  BY <1>3, <1>4, <1>5, <1>6, <1>9, LinesGrow
<1>11. WorkerInv(w)'
  BY <1>7, <1>8, <1>10 DEF WorkerInv
<1>12. registry' \in [Workers -> RegistryRow]
  BY DEF RuntimeInv
<1>13. record.at \notin Owning
  BY <1>3 DEF Owning
<1>14. QED BY <1>1, <1>4, <1>11, <1>12, <1>13, LocalMove

\* A step goes on.
LEMMA Advance ==
    ASSUME RuntimeInv, NEW w \in Workers, UNCHANGED <<vars, crashes, abandoned>>,
           registry' \in [Workers -> RegistryRow],
           \A v \in Workers \ {w} : registry'[v] = registry[v],
           NEW record \in WorkRow, Goto(w, record),
           work[w].at # "done", record.at \notin {"bind", "done"},
           record.original = work[w].original, record.attempt = work[w].attempt,
           record.status = work[w].status, record.report = work[w].report,
           record.context = work[w].context \/ work[w].at \in Resting,
           work[w].at \in Owning <=> record.at \in Owning,
           record.at \in {"select", "check", "owned"} => Routed(w),
           record.at \notin {"judge", "settle"} => record.answer = "none",
           Routed(w) /\ record.at \in {"check", "admit"} \cup Owning =>
              /\ record.next \in DOMAIN Route
              /\ Route[record.next] \in registry'[w].enabled \ Refused
              /\ Route[record.next] \in registry'[w].sessions,
           Routed(w) /\ record.at \in {"respond", "judge", "settle"} =>
              attempts[record.attempt].parent = work[w].original
    PROVE  RuntimeInv'
<1>1. work'[w] = record
  BY DEF Goto, RuntimeInv
<1>2. RowsAreKept /\ AttemptIds' = AttemptIds /\ UNCHANGED attempts
  BY StoreAtRest DEF vars
<1>3. work[w].at \in Resting \cup Owning /\ record.at \in Resting \cup Owning
  BY WorkerFacts DEF WorkRow, Places
<1>4. /\ work[w].at \in Resting => work[w].attempt = NoAttempt
      /\ work[w].attempt # NoAttempt => work[w].attempt \in AttemptIds
      /\ work[w].at \in Owning => /\ work[w].attempt \in AttemptIds
                                  /\ attempts[work[w].attempt].status \in {"reserved", "superseded"}
      /\ work[w].status = "none"
  BY WorkerFacts DEF ControlInv
<1>5. ControlInv(w)'
  <2>1. record.at \in Resting => record.attempt = NoAttempt
    BY <1>3, <1>4 DEF Resting, Owning
  <2>2. QED BY <1>1, <1>2, <1>4, <2>1 DEF ControlInv, Routed
<1>6. AdmissibleInv(w)'
  BY <1>1 DEF AdmissibleInv, Routed, Current
<1>7. BoundInv(w)'
  <2>1. CASE work[w].at \in Resting
    BY <1>1, <1>4, <2>1 DEF BoundInv
  <2>2. CASE record.context = work[w].context
    BY <1>1, <1>2, <1>4, <2>2, WorkerFacts, BoundIsStable
  <2>3. QED BY <2>1, <2>2
<1>8. LinesInv(w)'
  BY <1>1, <1>2, <1>4, WorkerFacts, LinesAreStable
<1>9. ReportInv(w)'
  BY <1>1, <1>2 DEF ReportInv, Routed
<1>10. WorkerInv(w)'
  BY <1>5, <1>6, <1>7, <1>8, <1>9 DEF WorkerInv
<1>11. UNCHANGED vars /\ abandoned \subseteq abandoned'
  OBVIOUS
<1>12. QED BY <1>10, <1>11, LocalMove

\* A step starts, returns or is lost with its process.
LEMMA BeginAnew ==
    ASSUME RuntimeInv, NEW w \in Workers, UNCHANGED vars, abandoned \subseteq abandoned',
           registry' \in [Workers -> RegistryRow],
           \A v \in Workers \ {w} : registry'[v] = registry[v],
           work[w].at \in Owning => work[w].attempt \in abandoned',
           NEW record \in WorkRow, Goto(w, record),
           record.at \in {"idle", "bind", "select", "admit"},
           record.at = "select" => Routed(w), record.at \in {"bind", "admit"} => ~Routed(w),
           record.attempt = NoAttempt, record.answer = "none", record.status = "none",
           record.report = <<>>
    PROVE  RuntimeInv'
<1>1. work'[w] = record
  BY DEF Goto, RuntimeInv
<1>2. record.at \notin Owning /\ record.at \notin {"check", "owned", "done", "judge", "settle"}
  BY DEF Owning
<1>3. ControlInv(w)'
  BY <1>1, <1>2 DEF ControlInv, Routed
<1>4. AdmissibleInv(w)' /\ BoundInv(w)' /\ ReportInv(w)'
  BY <1>1, <1>2 DEF AdmissibleInv, BoundInv, ReportInv, Owning, Routed
<1>5. LinesInv(w)'
  BY <1>1 DEF LinesInv
<1>6. QED BY <1>2, <1>3, <1>4, <1>5, LocalMove DEF WorkerInv

-----------------------------------------------------------------------------
(* Workers make only transactions of the store.                            *)

\* The attempt of a step that owns one is a row of the store.
LEMMA OwnedAttempt ==
    ASSUME RuntimeInv, NEW w \in Workers, work[w].at \in Owning
    PROVE  /\ work[w].attempt \in AttemptIds
           /\ work[w].attempt # NoAttempt
           /\ attempts[work[w].attempt].status \in {"reserved", "superseded"}
           /\ work[w].status = "none"
<1>1. work[w].attempt \in AttemptIds
  BY WorkerFacts DEF ControlInv
<1>2. QED BY <1>1, WorkerFacts DEF ControlInv, AttemptIds, NoAttempt, Owning

LEMMA WorkerStoreStep ==
    ASSUME RuntimeInv, NEW w \in Workers, NEW now \in Instants, StepNext(w, now)
    PROVE  [Next]_vars
<1>1. \A a \in AttemptIds : FailIfReserved(a) => [Next]_vars
  BY DEF FailIfReserved, Next
<1>2. CASE \E maintenance \in MaintenanceModes : AdmitAttempt(w, now, maintenance)
  BY <1>2 DEF AdmitAttempt, Next
<1>3. CASE CheckAdmitted(w)
  <2>1. work[w].at \in Owning
    BY <1>3 DEF CheckAdmitted, At, Owning
  <2>2. QED BY <1>1, <1>3, <2>1, OwnedAttempt DEF CheckAdmitted
<1>4. ASSUME NEW status \in {"cancelled", "timeout"}, Interrupt(w, status)
      PROVE  [Next]_vars
  <2>1. work[w].at \in Owning
    BY <1>4 DEF Interrupt, At, Owning
  <2>2. QED BY <1>1, <1>4, <2>1, OwnedAttempt DEF Interrupt
<1>5. CASE FailAnswer(w, now)
  <2>1. work[w].at \in Owning
    BY <1>5 DEF FailAnswer, At, Owning
  <2>2. PICK a \in AttemptIds : a = work[w].attempt
    BY <2>1, OwnedAttempt
  <2>3. \/ RecordFailure(a) \/ DisposeOverflow(a, now) \/ FailIfReserved(a) \/ UNCHANGED vars
    BY <1>5, <2>2 DEF FailAnswer
  <2>4. QED BY <1>1, <2>3 DEF Next
<1>6. CASE DisposeAnswer(w, now)
  <2>1. work[w].at \in Owning
    BY <1>6 DEF DisposeAnswer, At, Owning
  <2>2. QED BY <1>6, <2>1, OwnedAttempt DEF DisposeAnswer, Next
<1>7. ASSUME NEW request \in WakeRequests \cup {NoTime}, CommitAnswer(w, now, request)
      PROVE  [Next]_vars
  <2>1. work[w].at \in Owning
    BY <1>7 DEF CommitAnswer, At, Owning
  <2>2. QED BY <1>7, <2>1, OwnedAttempt DEF CommitAnswer, Next
<1>8. CASE AbstainAnswer(w)
  <2>1. work[w].at \in Owning
    BY <1>8 DEF AbstainAnswer, At, Owning
  <2>2. QED BY <1>8, <2>1, OwnedAttempt DEF AbstainAnswer, Next
<1>9. CASE SettleRejected(w)
  <2>1. work[w].at \in Owning
    BY <1>9 DEF SettleRejected, At, Owning
  <2>2. QED BY <1>1, <1>9, <2>1, OwnedAttempt DEF SettleRejected
<1>10. CASE \/ Bind(w, now) \/ Exhaust(w) \/ Skip(w) \/ OpenSession(w) \/ CheckHead(w)
            \/ AdmitConflict(w, now) \/ AdmitWaiting(w, now) \/ AdmitOverflow(w, now)
            \/ DisposeRaises(w, now)
  BY <1>10 DEF Bind, Exhaust, Skip, OpenSession, CheckHead, AdmitConflict, AdmitWaiting,
               AdmitOverflow, DisposeRaises
<1>11. CASE \/ \E status \in {"cancelled", "timeout"} : Stop(w, status)
            \/ \E answer \in Answers : Respond(w, answer)
            \/ \E reason \in {"conflict", "error", "overflow"} : Reject(w, reason)
  BY <1>11 DEF Stop, Respond, Reject
<1>12. QED BY <1>2, <1>3, <1>4, <1>5, <1>6, <1>7, <1>8, <1>9, <1>10, <1>11 DEF StepNext

\* A step of the workers is a transaction of the store, or none.
LEMMA RuntimeStoreStep ==
    ASSUME RuntimeInv, [RuntimeNext]_runtimeVars
    PROVE  [Next]_vars
<1>1. CASE UNCHANGED runtimeVars
  BY <1>1 DEF runtimeVars
<1>2. CASE SubmitMessage
  BY <1>2 DEF SubmitMessage, Next
<1>3. ASSUME NEW w \in Workers, NEW now \in Instants, WorkerNext(w, now)
      PROVE  [Next]_vars
  BY <1>3, WorkerStoreStep DEF WorkerNext, Begin, Return
<1>4. ASSUME NEW w \in Workers, NEW e \in Managed, Enable(w, e) \/ Evict(w, e)
      PROVE  [Next]_vars
  BY <1>4 DEF Enable, Evict
<1>5. ASSUME NEW w \in Workers, Crash(w)
      PROVE  [Next]_vars
  BY <1>5 DEF Crash
<1>6. QED BY <1>1, <1>2, <1>3, <1>4, <1>5 DEF RuntimeNext

-----------------------------------------------------------------------------
(* The steps that settle an attempt.                                       *)

\* What an attempt may be reported as when it failed, or was superseded first.
LEMMA FailureIsDurable ==
    ASSUME NEW a, NEW status \in Verdicts \ {"committed", "disposed", "abstained"},
           attempts'[a].status \in {"failed", "superseded"}
    PROVE  Durable(a, status)'
BY DEF Durable

\* fail(), whatever the failure's scope, when it leaves the occasion pending.
Fails(a) ==
    \/ FailIfReserved(a)
    \/ RecordFailure(a)
    \/ \E now \in Instants : DisposeOverflow(a, now)

\* fail() settles the attempt, unless it was superseded.
LEMMA FailEffect ==
    ASSUME RuntimeInv, NEW a \in AttemptIds,
           attempts[a].status \in {"reserved", "superseded"},
           Fails(a)
    PROVE  /\ StoreInv'
           /\ RowsAreKept
           /\ SettlesOnly(a)
           /\ AttemptIds' = AttemptIds
           /\ attempts'[a].status \in {"failed", "superseded"}
<1>1. StoreInv /\ TypeOK
  BY DEF RuntimeInv, StoreInv, KernelInv
<1>2. CASE attempts[a].status # "reserved" /\ UNCHANGED vars
  BY <1>2, StoreAtRest DEF SettlesOnly
<1>3. CASE FailTransient(a) \/ RecordFailure(a) \/ \E now \in Instants : DisposeOverflow(a, now)
  <2>1. Lapse(a, "failed")
    BY <1>1, <1>3, OperationKinds
  <2>2. Next
    BY <1>3 DEF Next
  <2>3. QED BY <1>1, <2>1, <2>2, LapseEffect, NextStoreInv
<1>4. QED BY <1>2, <1>3 DEF Fails, FailIfReserved

\* A step or a route ends with the attempt it owns settled as it reports, or the
\* route falls back to its next executor.
LEMMA Finish ==
    ASSUME RuntimeInv, StoreInv', NEW w \in Workers, work[w].at \in {"judge", "settle"},
           NEW a, a = work[w].attempt,
           RowsAreKept, SettlesOnly(a), AttemptIds' = AttemptIds,
           UNCHANGED <<registry, crashes, abandoned>>,
           NEW status \in Verdicts, Finished(w, status),
           attempts'[a].status # "reserved", Durable(a, status)',
           Routed(w) => status # "raised"
    PROVE  RuntimeInv'
<1>1. /\ a \in AttemptIds /\ a # NoAttempt /\ work[w].status = "none"
      /\ work[w].at \in Owning /\ work[w].at # "done"
  BY OwnedAttempt DEF Owning
<1>2. /\ work[w] \in WorkRow
      /\ Routed(w) => work[w].next \in DOMAIN Route
      /\ Routed(w) => attempts'[a].parent = work[w].original
  <2>1. Routed(w) => attempts[a].parent = work[w].original
    BY WorkerFacts DEF ReportInv
  <2>2. Routed(w) => work[w].next \in DOMAIN Route
    BY <1>1, WorkerFacts DEF ControlInv
  <2>3. QED BY <1>1, <2>1, <2>2, WorkerFacts DEF RowsAreKept
<1>3. registry' \in [Workers -> RegistryRow] /\ abandoned \subseteq abandoned'
  BY DEF RuntimeInv
<1>4. ASSUME NEW record \in WorkRow, Goto(w, record), record.at = "done",
             record.context = work[w].context, record.attempt = a, record.answer = "none",
             record.status = status, LinesInv(w)'
      PROVE  RuntimeInv'
  <2>1. work'[w] = record
    BY <1>4 DEF Goto, RuntimeInv
  <2>2. ControlInv(w)'
    BY <1>1, <1>4, <2>1 DEF ControlInv, Resting, Owning
  <2>3. AdmissibleInv(w)' /\ ReportInv(w)'
    BY <1>4, <2>1 DEF AdmissibleInv, ReportInv, Owning
  <2>4. BoundInv(w)'
    BY <1>1, <1>4, <2>1, WorkerFacts, BoundIsStable
  <2>5. WorkerInv(w)'
    BY <1>4, <2>2, <2>3, <2>4 DEF WorkerInv
  <2>6. record.at \notin Owning
    BY <1>4 DEF Owning
  <2>7. QED BY <1>1, <1>3, <1>4, <2>5, <2>6, WorkerMove
<1>5. CASE ~Routed(w)
  <2>1. PICK record \in WorkRow : record = Done(w, status)
    BY <1>2, DoneFields
  <2>2. Goto(w, record)
    BY <1>5, <2>1 DEF Finished
  <2>3. work'[w] = record
    BY <2>2 DEF Goto, RuntimeInv
  <2>4. /\ record.at = "done" /\ record.original = work[w].original
        /\ record.context = work[w].context /\ record.attempt = a /\ record.answer = "none"
        /\ record.status = status /\ record.report = work[w].report
    BY <1>2, <2>1, DoneFields
  <2>5. LinesInv(w)'
    BY <1>1, <1>3, <2>3, <2>4, WorkerFacts, LinesAreStable
  <2>6. QED BY <1>4, <2>2, <2>4, <2>5
<1>6. ASSUME Routed(w), NEW reason \in Verdicts,
             reason = IF status = "disposed" THEN "failed" ELSE status,
             Goto(w, [Done(w, status) EXCEPT !.report = Append(@, Line(w, reason))])
      PROVE  RuntimeInv'
  <2>1. PICK record \in WorkRow :
           record = [Done(w, status) EXCEPT !.report = Append(@, Line(w, reason))]
    BY <1>2, <1>6, FinalFields
  <2>2. PICK line \in LineRow : line = Line(w, reason)
    BY <1>2, <1>6, LineFields
  <2>3. work'[w] = record
    BY <1>6, <2>1 DEF Goto, RuntimeInv
  <2>4. /\ record.at = "done" /\ record.original = work[w].original
        /\ record.context = work[w].context /\ record.attempt = a /\ record.answer = "none"
        /\ record.status = status /\ record.report = Append(work[w].report, line)
    BY <1>2, <1>6, <2>1, <2>2, FinalFields
  <2>5. line.attempt = a /\ line.status = reason
    BY <1>2, <1>6, <2>2, LineFields
  <2>6. work'[w].status # "disposed" => Durable(line.attempt, line.status)'
    BY <1>6, <2>3, <2>4, <2>5
  <2>7. LinesInv(w)'
    BY <1>1, <1>2, <1>3, <1>6, <2>3, <2>4, <2>5, <2>6, LinesGrow
  <2>8. Goto(w, record)
    BY <1>6, <2>1
  <2>9. QED BY <1>4, <2>4, <2>7, <2>8
<1>7. ASSUME Routed(w), status \notin Ends, Goto(w, Fallback(w, status))
      PROVE  RuntimeInv'
  <2>1. PICK record \in WorkRow : record = Fallback(w, status)
    BY <1>2, <1>7, FallbackFields
  <2>2. PICK line \in LineRow : line = Line(w, status)
    BY <1>2, <1>7, LineFields
  <2>3. /\ record.at = "select" /\ record.original = work[w].original
        /\ record.attempt = NoAttempt /\ record.answer = "none"
        /\ record.status = "none"
        /\ record.report = Append(work[w].report, line)
    BY <1>1, <1>2, <1>7, <2>1, <2>2, FallbackFields
  <2>4. work'[w] = record
    BY <1>7, <2>1 DEF Goto, RuntimeInv
  <2>5. line.attempt = a /\ line.status = status
    BY <1>2, <1>7, <2>2, LineFields
  <2>6. attempts'[a].status \in {"failed", "superseded"}
    BY <1>7 DEF Durable, Ends
  <2>7. LinesInv(w)'
    BY <1>1, <1>2, <1>3, <1>7, <2>3, <2>4, <2>5, <2>6, LinesGrow
  <2>8. ControlInv(w)'
    BY <1>7, <2>3, <2>4 DEF ControlInv, Resting, Owning, Routed
  <2>9. AdmissibleInv(w)' /\ BoundInv(w)' /\ ReportInv(w)'
    BY <2>3, <2>4 DEF AdmissibleInv, BoundInv, ReportInv, Owning
  <2>10. WorkerInv(w)'
    BY <2>7, <2>8, <2>9 DEF WorkerInv
  <2>11. record.at \notin Owning
    BY <2>3 DEF Owning
  <2>12. QED BY <1>1, <1>3, <1>7, <2>1, <2>10, <2>11, WorkerMove
<1>8. QED
  <2>1. PICK reason \in Verdicts : reason = IF status = "disposed" THEN "failed" ELSE status
    BY DEF Verdicts
  <2>2. CASE Routed(w)
    BY <1>6, <1>7, <2>1, <2>2 DEF Finished
  <2>3. QED BY <1>5, <2>2

\* An admission binds the attempt to the evidence staged for it.
LEMMA AdmissionIsBound ==
    ASSUME StoreInv, NEW w \in Workers, NEW observed \in Instants,
           NEW maintenance \in MaintenanceModes, Admit(observed, maintenance),
           ~StaleContext(w, observed), NEW c, c = work[w].context, c # NoContext,
           NEW n, n = Len(attempts) + 1
    PROVE  /\ attempts'[n].parent = c.head
           /\ IF c.occasion = NoRow
              THEN occasions'[attempts'[n].occasion].key = WakeKey(c.head)
              ELSE attempts'[n].occasion = c.occasion
<1>1. KernelInv /\ TypeOK /\ ChainInv /\ InboxInv
  BY DEF StoreInv, KernelInv
<1>2. c = ContextAt(observed)
  BY DEF StaleContext
<1>3. /\ c.head = head
      /\ c.occasion = IF OfferedOccasions(observed) = {} THEN NoRow
                      ELSE Min(OfferedOccasions(observed))
  BY <1>2 DEF ContextAt
<1>4. /\ attempts'[n].parent = head
      /\ attempts'[n].occasion = NextOccasion(observed)
      /\ \/ NextOccasion(observed) \in OfferedOccasions(observed)
         \/ /\ InboxGrows(WakeKey(head), "scheduled", wake)
            /\ NextOccasion(observed) = Len(occasions) + 1
  BY <1>1, AdmitCases
<1>5. CASE OfferedOccasions(observed) = {}
  BY <1>3, <1>4, <1>5 DEF InboxGrows
<1>6. CASE OfferedOccasions(observed) # {}
  <2>1. NextOccasion(observed) = Min(OfferedOccasions(observed))
    BY <1>6 DEF NextOccasion
  <2>2. NextOccasion(observed) # NoRow
    BY ReadyProperties DEF Admit
  <2>3. QED BY <1>3, <1>4, <1>6, <2>1, <2>2
<1>7. QED BY <1>5, <1>6

\* Store::admit, by a step that has no attempt yet.
LEMMA AdmitAttemptInv ==
    ASSUME RuntimeInv, NEW w \in Workers, NEW now \in Instants,
           NEW maintenance \in MaintenanceModes, AdmitAttempt(w, now, maintenance)
    PROVE  RuntimeInv'
<1> DEFINE n == Len(attempts) + 1
           pc == IF Routed(w) THEN "owned" ELSE "respond"
<1>1. StoreInv /\ KernelInv /\ ChainInv /\ InboxInv
  BY DEF RuntimeInv, StoreInv
<1>2. /\ work[w].at = "admit" /\ ~StaleContext(w, now) /\ Admit(now, maintenance)
      /\ Goto(w, [Step(w, pc) EXCEPT !.attempt = n])
      /\ UNCHANGED <<registry, crashes, abandoned>>
  BY DEF AdmitAttempt, At
<1>3. StoreInv'
  BY <1>1, <1>2, NextStoreInv DEF Next
<1>4. RowsAreKept /\ \A i \in AttemptIds : attempts'[i].status = attempts[i].status
  BY <1>1, <1>2, UnsettledEffect
<1>5. /\ AttemptIds' = AttemptIds \cup {n} /\ n \notin AttemptIds
      /\ attempts'[n].status = "reserved"
  BY <1>1, <1>2, AdmitCases
<1>6. n \in Nat /\ n # NoAttempt
  BY <1>1, RowTypes DEF KernelInv, NoAttempt
<1>7. PICK r \in WorkRow : r = Step(w, pc)
  BY WorkerFacts, StepFields DEF Places, Owning
<1>8. /\ r.at = pc /\ r.original = work[w].original /\ r.context = work[w].context
      /\ r.next = work[w].next /\ r.answer = work[w].answer
      /\ r.status = work[w].status /\ r.report = work[w].report
  BY <1>7, WorkerFacts, StepFields DEF Places, Owning
<1> HIDE DEF n
<1>9. PICK record \in WorkRow : record = [r EXCEPT !.attempt = n]
  BY <1>6 DEF WorkRow
<1>10. /\ record.at = pc /\ record.original = work[w].original
       /\ record.context = work[w].context /\ record.next = work[w].next
       /\ record.attempt = n /\ record.answer = work[w].answer
       /\ record.status = work[w].status /\ record.report = work[w].report
  BY <1>8, <1>9 DEF WorkRow
<1>11. Goto(w, record)
  BY <1>2, <1>7, <1>9
<1>12. work'[w] = record
  BY <1>11 DEF Goto, RuntimeInv
<1>13. work[w].status = "none" /\ work[w].answer = "none" /\ work[w].at \notin Owning
  BY <1>2, WorkerFacts DEF ControlInv, Owning
<1>14. pc \in Owning /\ pc \in {"owned", "respond"} /\ (pc = "owned" <=> Routed(w))
  BY DEF Owning
<1> HIDE DEF pc
<1>15. ControlInv(w)'
  <2>1. Routed(w) => work[w].next \in DOMAIN Route
    BY <1>2, WorkerFacts DEF ControlInv
  <2>2. QED BY <1>5, <1>10, <1>12, <1>13, <1>14, <2>1 DEF ControlInv, Resting, Routed
<1>16. AdmissibleInv(w)'
  BY <1>2, <1>10, <1>12, WorkerFacts DEF AdmissibleInv, Current, Routed
<1>17. BoundInv(w)'
  <2>1. PICK c : c = work[w].context
    OBVIOUS
  <2>2. c # NoContext =>
           /\ attempts'[n].parent = c.head
           /\ IF c.occasion = NoRow
              THEN occasions'[attempts'[n].occasion].key = WakeKey(c.head)
              ELSE attempts'[n].occasion = c.occasion
    BY <1>1, <1>2, <2>1, AdmissionIsBound DEF n
  <2>3. QED BY <1>10, <1>12, <2>1, <2>2 DEF BoundInv
<1>18. LinesInv(w)'
  BY <1>2, <1>4, <1>10, <1>12, <1>13, WorkerFacts, LinesAreStable
<1>19. ReportInv(w)'
  BY <1>10, <1>12, <1>14 DEF ReportInv, Routed
<1>20. WorkerInv(w)'
  BY <1>15, <1>16, <1>17, <1>18, <1>19 DEF WorkerInv
<1>21. registry' \in [Workers -> RegistryRow]
  BY <1>2 DEF RuntimeInv
<1>22. QED
  BY <1>2, <1>3, <1>4, <1>5, <1>10, <1>11, <1>13, <1>14, <1>20, <1>21, WorkerMove

\* The route's second look at the head.
LEMMA CheckAdmittedInv ==
    ASSUME RuntimeInv, NEW w \in Workers, CheckAdmitted(w)
    PROVE  RuntimeInv'
<1>1. work[w].at = "owned" /\ work[w].at \in Owning /\ UNCHANGED <<registry, crashes, abandoned>>
  BY DEF CheckAdmitted, At, Owning
<1>2. PICK a \in AttemptIds : a = work[w].attempt
  BY <1>1, OwnedAttempt
<1>3. /\ work[w].status = "none" /\ a # NoAttempt
      /\ attempts[a].status \in {"reserved", "superseded"}
  BY <1>1, <1>2, OwnedAttempt
<1>4. registry' \in [Workers -> RegistryRow]
  BY <1>1 DEF RuntimeInv
<1>5. CASE attempts[a].parent = work[w].original
  <2>1. Goto(w, Step(w, "respond")) /\ UNCHANGED vars
    BY <1>2, <1>5 DEF CheckAdmitted
  <2>2. PICK record \in WorkRow : record = Step(w, "respond")
    BY WorkerFacts, StepFields DEF Places, Owning
  <2>3. /\ record.at = "respond" /\ record.original = work[w].original
        /\ record.context = work[w].context /\ record.next = work[w].next
        /\ record.attempt = work[w].attempt /\ record.answer = work[w].answer
        /\ record.status = work[w].status /\ record.report = work[w].report
    BY <2>2, WorkerFacts, StepFields DEF Places, Owning
  <2>4. /\ work[w].answer = "none"
        /\ Routed(w) => /\ work[w].next \in DOMAIN Route
                        /\ Route[work[w].next] \in registry[w].enabled \ Refused
                        /\ Route[work[w].next] \in registry[w].sessions
    BY <1>1, WorkerFacts DEF ControlInv, AdmissibleInv, Current
  <2>5. record.at \in Owning
    BY <2>3 DEF Owning
  <2>6. QED BY <1>1, <1>2, <1>4, <1>5, <2>1, <2>2, <2>3, <2>4, <2>5, Advance
<1>6. CASE attempts[a].parent # work[w].original
  <2>1. Goto(w, Done(w, "conflict")) /\ FailIfReserved(a)
    BY <1>2, <1>6 DEF CheckAdmitted
  <2>2. /\ StoreInv' /\ RowsAreKept /\ SettlesOnly(a) /\ AttemptIds' = AttemptIds
        /\ attempts'[a].status \in {"failed", "superseded"}
    BY <1>3, <2>1, FailEffect DEF Fails
  <2>3. PICK record \in WorkRow : record = Done(w, "conflict")
    BY WorkerFacts, DoneFields DEF Verdicts
  <2>4. /\ record.at = "done" /\ record.original = work[w].original
        /\ record.context = work[w].context /\ record.attempt = a /\ record.answer = "none"
        /\ record.status = "conflict" /\ record.report = work[w].report
    BY <1>2, <2>3, WorkerFacts, DoneFields DEF Verdicts
  <2>5. work'[w] = record
    BY <2>1, <2>3 DEF Goto, RuntimeInv
  <2>6. Durable(a, "conflict")'
    BY <2>2, FailureIsDurable DEF Verdicts
  <2>7. ControlInv(w)'
    BY <1>2, <2>2, <2>4, <2>5 DEF ControlInv, Resting, Owning
  <2>8. AdmissibleInv(w)' /\ ReportInv(w)'
    BY <2>4, <2>5, <2>6 DEF AdmissibleInv, ReportInv, Owning
  <2>9. BoundInv(w)'
    BY <1>2, <2>2, <2>4, <2>5, WorkerFacts, BoundIsStable
  <2>10. LinesInv(w)'
    BY <1>1, <1>3, <2>2, <2>4, <2>5, WorkerFacts, LinesAreStable
  <2>11. WorkerInv(w)'
    BY <2>7, <2>8, <2>9, <2>10 DEF WorkerInv
  <2>12. record.at \notin Owning
    BY <2>4 DEF Owning
  <2>13. QED BY <1>1, <1>2, <1>4, <2>1, <2>2, <2>3, <2>11, <2>12, WorkerMove
<1>7. QED BY <1>5, <1>6

\* A failed, late or cancelled answer whose occasion stays pending.
LEMMA FailedStepInv ==
    ASSUME RuntimeInv, NEW w \in Workers, work[w].at \in {"judge", "settle"},
           NEW a, a = work[w].attempt,
           Fails(a),
           UNCHANGED <<registry, crashes, abandoned>>,
           NEW status \in Verdicts \ {"committed", "disposed", "abstained"},
           Routed(w) => status # "raised", Finished(w, status)
    PROVE  RuntimeInv'
<1>1. a \in AttemptIds /\ attempts[a].status \in {"reserved", "superseded"}
  BY OwnedAttempt DEF Owning
<1>2. /\ StoreInv' /\ RowsAreKept /\ SettlesOnly(a) /\ AttemptIds' = AttemptIds
      /\ attempts'[a].status \in {"failed", "superseded"}
  BY <1>1, FailEffect
<1>3. Durable(a, status)'
  BY <1>2, FailureIsDurable
<1>4. status \in Verdicts /\ attempts'[a].status # "reserved"
  BY <1>2
<1>5. QED BY <1>2, <1>3, <1>4, Finish

\* A transition, the model's or the kernel's own.
LEMMA TransitionStepInv ==
    ASSUME RuntimeInv, StoreInv', NEW w \in Workers, work[w].at = "judge",
           NEW a \in AttemptIds, a = work[w].attempt, NEW now \in Instants,
           NEW request \in Nat \cup {NoTime}, NEW disposition \in SUBSET Nat,
           Transition(a, now, request, disposition),
           UNCHANGED <<registry, crashes, abandoned>>,
           NEW status, Finished(w, status),
           \/ status = "committed" /\ disposition = {}
           \/ status = "disposed" /\ disposition # {}
           \/ status = "raised" /\ disposition # {} /\ ~Routed(w)
    PROVE  RuntimeInv'
<1>1. StoreInv
  BY DEF RuntimeInv
<1>2. /\ RowsAreKept /\ SettlesOnly(a) /\ AttemptIds' = AttemptIds
      /\ attempts'[a].status = "committed"
      /\ Disposed(a)' <=> disposition # {}
  BY <1>1, TransitionRows
<1>3. Durable(a, status)'
  BY <1>2 DEF Durable
<1>4. status \in Verdicts /\ (Routed(w) => status # "raised")
  BY DEF Verdicts
<1>5. attempts'[a].status # "reserved"
  BY <1>2
<1>6. QED BY <1>2, <1>3, <1>4, <1>5, Finish

-----------------------------------------------------------------------------
(* Every step preserves the invariant.                                     *)

\* The record of a worker that has no step.
LEMMA IdleRow ==
    /\ Idle \in WorkRow
    /\ NoContext \in [head : Nat, occasion : Nat]
<1>1. NoContext \in [head : Nat, occasion : Nat]
  BY DEF NoContext, NoCommit, NoRow
<1>2. /\ "idle" \in Places /\ NoCommit \in Nat /\ 1 \in Nat \ {0} /\ NoAttempt \in Nat
      /\ "none" \in Replies /\ "none" \in Reasons /\ "none" \in Verdicts
      /\ <<>> \in Seq(LineRow)
  BY DEF Places, Resting, NoCommit, NoAttempt, Replies, Reasons, Verdicts
<1>3. QED BY <1>1, <1>2 DEF Idle, WorkRow

\* What a host sees in the store is a row, or none.
LEMMA ContextType ==
    ASSUME StoreInv, NEW observed \in Instants
    PROVE  /\ ContextAt(observed) \in [head : Nat, occasion : Nat]
           /\ ContextAt(observed).occasion \in Nat
           /\ head \in Nat
<1>1. TypeOK
  BY DEF StoreInv, KernelInv
<1>2. head \in Nat
  BY <1>1 DEF TypeOK, CommitIds
<1>3. ContextAt(observed).occasion \in Nat
  <2>1. CASE OfferedOccasions(observed) = {}
    BY <2>1 DEF ContextAt, NoRow
  <2>2. CASE OfferedOccasions(observed) # {}
    <3>1. OfferedOccasions(observed) \subseteq Nat
      BY DEF OfferedOccasions, OccasionIds
    <3>2. Min(OfferedOccasions(observed)) \in Nat
      BY <2>2, <3>1, MinIsMember
    <3>3. QED BY <2>2, <3>2 DEF ContextAt
  <2>3. QED BY <2>1, <2>2
<1>4. ContextAt(observed) = [head |-> head, occasion |-> ContextAt(observed).occasion]
  BY DEF ContextAt
<1>5. QED BY <1>2, <1>3, <1>4

\* A step starts with the context its caller gives it.
LEMMA StartInv ==
    ASSUME RuntimeInv, NEW w \in Workers, work[w].at = "idle",
           NEW context \in [head : Nat, occasion : Nat],
           Goto(w, Started(w, context)), UNCHANGED <<vars, registry, crashes, abandoned>>
    PROVE  /\ RuntimeInv'
           /\ work'[w].at = Entry(w) /\ Entry(w) \in {"bind", "select", "admit"}
           /\ work'[w].next = 1 /\ work'[w].context = context
<1>1. head \in Nat
  BY DEF RuntimeInv, StoreInv, KernelInv, TypeOK, CommitIds
<1>2. /\ Entry(w) \in {"bind", "select", "admit"}
      /\ Entry(w) = "select" <=> Routed(w)
  BY DEF Entry, Routed
<1>3. Entry(w) \in Places
  BY <1>2 DEF Places, Resting
<1>4. PICK pc \in Places, original \in Nat : pc = Entry(w) /\ original = head
  BY <1>1, <1>3
<1>5. PICK r \in WorkRow : r = Idle
  BY IdleRow
<1>6. /\ r.attempt = NoAttempt /\ r.answer = "none" /\ r.status = "none" /\ r.report = <<>>
      /\ r.next = 1
  BY <1>5 DEF Idle
<1>7. PICK record \in WorkRow :
         record = [r EXCEPT !.at = pc, !.original = original, !.context = context]
  BY DEF WorkRow
<1>8. /\ record.at = pc /\ record.attempt = r.attempt /\ record.answer = r.answer
      /\ record.status = r.status /\ record.report = r.report /\ record.next = r.next
      /\ record.context = context
  BY <1>7 DEF WorkRow
<1>9. Goto(w, record)
  BY <1>4, <1>5, <1>7 DEF Started
<1>10. work[w].at \notin Owning /\ registry' \in [Workers -> RegistryRow]
  BY DEF Owning, RuntimeInv
<1>11. /\ record.at \in {"idle", "bind", "select", "admit"}
       /\ record.at = "select" => Routed(w)
       /\ record.at \in {"bind", "admit"} => ~Routed(w)
  BY <1>2, <1>4, <1>8
<1>12. RuntimeInv'
  BY <1>6, <1>8, <1>9, <1>10, <1>11, BeginAnew
<1>13. work'[w] = record
  BY <1>9 DEF Goto, RuntimeInv
<1>14. QED BY <1>2, <1>4, <1>6, <1>8, <1>12, <1>13

LEMMA BeginInv ==
    ASSUME RuntimeInv, NEW w \in Workers, NEW bound \in Contexts, NEW now \in Instants,
           Begin(w, bound, now)
    PROVE  RuntimeInv'
<1>1. ContextAt(now) \in [head : Nat, occasion : Nat]
  BY ContextType DEF RuntimeInv
<1>2. PICK context \in [head : Nat, occasion : Nat] : Goto(w, Started(w, context))
  BY <1>1, IdleRow DEF Begin
<1>3. work[w].at = "idle" /\ UNCHANGED <<vars, registry, crashes, abandoned>>
  BY DEF Begin, At
<1>4. QED BY <1>2, <1>3, StartInv

LEMMA IdleInv ==
    ASSUME RuntimeInv, NEW w \in Workers, Return(w) \/ Crash(w)
    PROVE  RuntimeInv'
<1>1. /\ Idle.at = "idle" /\ Idle.attempt = NoAttempt /\ Idle.answer = "none"
      /\ Idle.status = "none" /\ Idle.report = <<>>
  BY DEF Idle
<1>2. Goto(w, Idle) /\ UNCHANGED vars
  BY DEF Return, Crash
<1>3. /\ registry' \in [Workers -> RegistryRow]
      /\ \A v \in Workers \ {w} : registry'[v] = registry[v]
      /\ abandoned \subseteq abandoned'
      /\ work[w].at \in Owning => work[w].attempt \in abandoned'
  <2>1. CASE Return(w)
    BY <2>1 DEF Return, RuntimeInv, At, Owning
  <2>2. CASE Crash(w)
    <3>1. [enabled |-> Executors, sessions |-> {}] \in RegistryRow
      BY DEF RegistryRow
    <3>2. QED BY <2>2, <3>1 DEF Crash, RuntimeInv, Owning
  <2>3. QED BY <2>1, <2>2
<1>4. QED BY <1>1, <1>2, <1>3, IdleRow, BeginAnew

\* The registry of a worker without a step changes.
LEMMA IdleRegistry ==
    ASSUME RuntimeInv, NEW w \in Workers, work[w].at = "idle",
           UNCHANGED <<vars, work, abandoned>>,
           registry' \in [Workers -> RegistryRow],
           \A v \in Workers \ {w} : registry'[v] = registry[v]
    PROVE  RuntimeInv'
<1>1. PICK record \in WorkRow : record = work[w]
  BY WorkerFacts
<1>2. Goto(w, record)
  BY <1>1 DEF Goto, RuntimeInv
<1>3. work'[w] = work[w] /\ record.at \notin Owning
  BY <1>1 DEF Owning
<1>4. RowsAreKept
  BY StoreAtRest
<1>5. ControlInv(w)'
  BY <1>3, WorkerFacts DEF ControlInv, Resting, Owning, Routed
<1>6. AdmissibleInv(w)' /\ ReportInv(w)'
  BY <1>3 DEF AdmissibleInv, ReportInv, Owning
<1>7. BoundInv(w)'
  BY <1>3, WorkerFacts DEF ControlInv, Resting, BoundInv
<1>8. LinesInv(w)'
  BY <1>3, <1>4, WorkerFacts, LinesAreStable
<1>9. WorkerInv(w)'
  BY <1>5, <1>6, <1>7, <1>8 DEF WorkerInv
<1>10. UNCHANGED vars /\ abandoned \subseteq abandoned' /\ work[w].at \notin Owning
  BY DEF Owning
<1>11. QED BY <1>1, <1>2, <1>3, <1>9, <1>10, LocalMove

LEMMA RegistryInv ==
    ASSUME RuntimeInv, NEW w \in Workers, NEW e \in Managed, Enable(w, e) \/ Evict(w, e)
    PROVE  RuntimeInv'
<1>1. work[w].at = "idle" /\ UNCHANGED <<vars, work, crashes, abandoned>>
  BY DEF Enable, Evict, At
<1>2. /\ registry' \in [Workers -> RegistryRow]
      /\ \A v \in Workers \ {w} : registry'[v] = registry[v]
  <2>1. e \in Executors
    BY RuntimeAssumption
  <2>2. PICK g \in RegistryRow : g = registry[w]
    BY WorkerFacts
  <2>3. PICK h \in RegistryRow : registry' = [registry EXCEPT ![w] = h]
    <3>1. \A s \in SUBSET Executors :
             /\ [g EXCEPT !.enabled = s] \in RegistryRow
             /\ [g EXCEPT !.sessions = s] \in RegistryRow
      BY DEF RegistryRow
    <3>2. g.enabled \in SUBSET Executors /\ g.sessions \in SUBSET Executors
      BY DEF RegistryRow
    <3>3. CASE Enable(w, e)
      <4>1. PICK s \in SUBSET Executors : registry' = [registry EXCEPT ![w].enabled = s]
        BY <2>1, <2>2, <3>2, <3>3 DEF Enable
      <4>2. QED BY <2>2, <3>1, <4>1
    <3>4. CASE Evict(w, e)
      <4>1. registry' = [registry EXCEPT ![w].sessions = g.sessions \ {e}]
        BY <2>2, <3>4 DEF Evict, RuntimeInv
      <4>2. QED BY <2>2, <3>1, <3>2, <4>1
    <3>5. QED BY <3>3, <3>4
  <2>4. QED BY <2>3 DEF RuntimeInv
<1>3. QED BY <1>1, <1>2, IdleRegistry

LEMMA BindInv ==
    ASSUME RuntimeInv, NEW w \in Workers, NEW now \in Instants, Bind(w, now)
    PROVE  RuntimeInv'
<1>1. /\ work[w].at = "bind" /\ work[w].at \in Resting
      /\ UNCHANGED <<vars, registry, crashes, abandoned>>
  BY DEF Bind, At, Resting
<1>2. ASSUME NEW status \in {"raised", "waiting"}, Goto(w, Done(w, status))
      PROVE  RuntimeInv'
  BY <1>1, <1>2, EndUnowned DEF Verdicts
<1>3. PICK seen \in [head : Nat, occasion : Nat] :
         seen = [head |-> work[w].original, occasion |-> ContextAt(now).occasion]
  BY WorkerFacts, ContextType DEF WorkRow, RuntimeInv
<1>4. ASSUME Goto(w, [Step(w, "admit") EXCEPT !.context = seen])
      PROVE  RuntimeInv'
  <2>1. PICK r \in WorkRow : r = Step(w, "admit")
    BY WorkerFacts, StepFields DEF Places, Resting
  <2>2. /\ r.at = "admit" /\ r.original = work[w].original /\ r.next = work[w].next
        /\ r.attempt = work[w].attempt /\ r.answer = work[w].answer
        /\ r.status = work[w].status /\ r.report = work[w].report
    BY <2>1, WorkerFacts, StepFields DEF Places, Resting
  <2>3. PICK record \in WorkRow : record = [r EXCEPT !.context = seen]
    BY DEF WorkRow
  <2>4. /\ record.at = "admit" /\ record.original = work[w].original
        /\ record.attempt = work[w].attempt /\ record.answer = work[w].answer
        /\ record.status = work[w].status /\ record.report = work[w].report
    BY <2>2, <2>3 DEF WorkRow
  <2>5. ~Routed(w) /\ work[w].answer = "none"
    BY <1>1, WorkerFacts DEF ControlInv
  <2>6. record.at \notin Owning /\ work[w].at \notin Owning
    BY <1>1, <2>4 DEF Owning
  <2>7. registry' \in [Workers -> RegistryRow] /\ Goto(w, record)
    BY <1>1, <1>4, <2>1, <2>3 DEF RuntimeInv
  <2>8. QED BY <1>1, <2>4, <2>5, <2>6, <2>7, Advance
<1>5. QED BY <1>2, <1>3, <1>4 DEF Bind

\* An executor whose turn it is.
LEMMA TurnInRange ==
    ASSUME RuntimeInv, NEW w \in Workers, work[w].next <= Len(Route)
    PROVE  work[w].next \in DOMAIN Route
<1>1. work[w].next \in Nat \ {0}
  BY WorkerFacts DEF WorkRow
<1>2. Len(Route) \in Nat /\ DOMAIN Route = 1 .. Len(Route)
  BY RuntimeAssumption
<1>3. QED BY <1>1, <1>2

LEMMA OpenSessionInv ==
    ASSUME RuntimeInv, NEW w \in Workers, OpenSession(w)
    PROVE  RuntimeInv'
<1>1. /\ work[w].at = "select" /\ work[w].next <= Len(Route) /\ ~Ineligible(w)
      /\ registry' = [registry EXCEPT ![w].sessions = @ \cup {Current(w)}]
      /\ Goto(w, Step(w, "check")) /\ UNCHANGED <<vars, crashes, abandoned>>
  BY DEF OpenSession, At
<1>2. work[w].next \in DOMAIN Route
  BY <1>1, TurnInRange
<1>3. Current(w) = Route[work[w].next] /\ Current(w) \in Executors
  BY <1>2, RuntimeAssumption DEF Current
<1>4. PICK g \in RegistryRow : g = registry[w]
  BY WorkerFacts
<1>5. PICK h \in RegistryRow : h = [g EXCEPT !.sessions = g.sessions \cup {Current(w)}]
  BY <1>3 DEF RegistryRow
<1>6. h.enabled = g.enabled /\ Current(w) \in h.sessions
  BY <1>5 DEF RegistryRow
<1>7. registry' = [registry EXCEPT ![w] = h]
  BY <1>1, <1>4, <1>5 DEF RuntimeInv
<1>8. /\ registry' \in [Workers -> RegistryRow] /\ registry'[w] = h
      /\ \A v \in Workers \ {w} : registry'[v] = registry[v]
  BY <1>7 DEF RuntimeInv
<1>9. Current(w) \in registry[w].enabled \ Refused
  BY <1>1, <1>3 DEF Ineligible
<1>10. PICK record \in WorkRow : record = Step(w, "check")
  BY WorkerFacts, StepFields DEF Places, Resting
<1>11. /\ record.at = "check" /\ record.original = work[w].original
       /\ record.next = work[w].next /\ record.context = work[w].context
       /\ record.attempt = work[w].attempt /\ record.answer = work[w].answer
       /\ record.status = work[w].status /\ record.report = work[w].report
  BY <1>10, WorkerFacts, StepFields DEF Places, Resting
<1>12. Routed(w) /\ work[w].answer = "none"
  BY <1>1, WorkerFacts DEF ControlInv
<1>13. record.at \notin Owning /\ work[w].at \notin Owning
  BY <1>1, <1>11 DEF Owning
<1>14. /\ record.next \in DOMAIN Route
       /\ Route[record.next] \in registry'[w].enabled \ Refused
       /\ Route[record.next] \in registry'[w].sessions
  BY <1>2, <1>3, <1>4, <1>6, <1>8, <1>9, <1>11
<1>15. record.answer = "none" /\ record.at \notin {"bind", "done", "respond", "judge", "settle"}
  BY <1>11, <1>12
<1>16. Goto(w, record) /\ work[w].at # "done" /\ UNCHANGED <<vars, crashes, abandoned>>
  BY <1>1, <1>10
<1>17. QED
  BY <1>8, <1>11, <1>12, <1>13, <1>14, <1>15, <1>16, Advance

\* A step goes on with the same executor, and perhaps an answer or an error.
LEMMA SameTurn ==
    ASSUME RuntimeInv, NEW w \in Workers, NEW pc \in Places \ {"bind", "done"},
           UNCHANGED <<vars, registry, crashes, abandoned>>,
           work[w].at \in {"check"} \cup Owning,
           work[w].at \in Owning <=> pc \in Owning,
           pc \in {"select", "check", "owned"} => Routed(w),
           Routed(w) /\ pc \in {"respond", "judge", "settle"} =>
              work[w].at \in {"respond", "judge", "settle"},
           NEW answer \in Replies, NEW reason \in Reasons,
           pc \notin {"judge", "settle"} => answer = "none",
           Goto(w, [Step(w, pc) EXCEPT !.answer = answer, !.reason = reason])
    PROVE  RuntimeInv'
<1>1. PICK r \in WorkRow : r = Step(w, pc)
  BY WorkerFacts, StepFields
<1>2. /\ r.at = pc /\ r.original = work[w].original /\ r.next = work[w].next
      /\ r.context = work[w].context /\ r.attempt = work[w].attempt
      /\ r.status = work[w].status /\ r.report = work[w].report
  BY <1>1, WorkerFacts, StepFields
<1>3. PICK record \in WorkRow : record = [r EXCEPT !.answer = answer, !.reason = reason]
  BY DEF WorkRow
<1>4. /\ record.at = r.at /\ record.original = r.original /\ record.next = r.next
      /\ record.context = r.context /\ record.attempt = r.attempt
      /\ record.status = r.status /\ record.report = r.report /\ record.answer = answer
  BY <1>3 DEF WorkRow
<1>5. work[w].at # "done"
  BY DEF Owning
<1>6. Routed(w) => /\ work[w].next \in DOMAIN Route
                   /\ Route[work[w].next] \in registry[w].enabled \ Refused
                   /\ Route[work[w].next] \in registry[w].sessions
  BY WorkerFacts DEF ControlInv, AdmissibleInv, Current
<1>7. Routed(w) /\ pc \in {"respond", "judge", "settle"} =>
         attempts[work[w].attempt].parent = work[w].original
  BY WorkerFacts DEF ReportInv
<1>8. registry' \in [Workers -> RegistryRow] /\ Goto(w, record)
  BY <1>1, <1>3 DEF RuntimeInv
<1>9. QED BY <1>2, <1>4, <1>5, <1>6, <1>7, <1>8, Advance

LEMMA GoOnInv ==
    ASSUME RuntimeInv, NEW w \in Workers,
           \/ CheckHead(w)
           \/ \E answer \in Answers : Respond(w, answer)
           \/ \E reason \in {"conflict", "error", "overflow"} : Reject(w, reason)
    PROVE  RuntimeInv'
<1>1. PICK answer \in Replies, reason \in Reasons :
         answer = work[w].answer /\ reason = work[w].reason
  BY WorkerFacts DEF WorkRow
<1>2. CASE CheckHead(w)
  <2>1. /\ work[w].at = "check" /\ UNCHANGED <<vars, registry, crashes, abandoned>>
        /\ Goto(w, Step(w, "admit")) \/ Goto(w, Done(w, "conflict"))
    BY <1>2 DEF CheckHead, At
  <2>2. CASE Goto(w, Done(w, "conflict"))
    BY <2>1, <2>2, EndUnowned DEF Resting, Verdicts
  <2>3. CASE Goto(w, Step(w, "admit"))
    <3>1. PICK r \in WorkRow : r = Step(w, "admit")
      BY WorkerFacts, StepFields DEF Places, Resting
    <3>2. r.answer = answer /\ r.reason = reason
      BY <1>1, <3>1, WorkerFacts, StepFields DEF Places, Resting
    <3>3. r = [r EXCEPT !.answer = answer, !.reason = reason]
      BY <3>2 DEF WorkRow
    <3>4. answer = "none"
      BY <1>1, <2>1, WorkerFacts DEF ControlInv
    <3>5. "admit" \in Places \ {"bind", "done"} /\ "admit" \notin Owning /\ "check" \notin Owning
      BY DEF Places, Resting, Owning
    <3>6. Goto(w, [Step(w, "admit") EXCEPT !.answer = answer, !.reason = reason])
      BY <2>3, <3>1, <3>3
    <3>7. QED BY <2>1, <3>4, <3>5, <3>6, SameTurn
  <2>4. QED BY <2>1, <2>2, <2>3
<1>3. ASSUME NEW reply \in Answers, Respond(w, reply)
      PROVE  RuntimeInv'
  <2>1. /\ work[w].at = "respond" /\ UNCHANGED <<vars, registry, crashes, abandoned>>
        /\ Goto(w, [Step(w, "judge") EXCEPT !.answer = reply])
    BY <1>3 DEF Respond, At
  <2>2. reply \in Replies
    BY RuntimeAssumption DEF Replies
  <2>3. PICK r \in WorkRow : r = Step(w, "judge")
    BY WorkerFacts, StepFields DEF Places, Owning
  <2>4. r.reason = reason
    BY <1>1, <2>3, WorkerFacts, StepFields DEF Places, Owning
  <2>5. [r EXCEPT !.answer = reply] = [r EXCEPT !.answer = reply, !.reason = reason]
    BY <2>4 DEF WorkRow
  <2>6. /\ "judge" \in Places \ {"bind", "done"} /\ "judge" \in Owning /\ "respond" \in Owning
        /\ "judge" \notin {"select", "check", "owned"}
    BY DEF Places, Owning
  <2>7. Goto(w, [Step(w, "judge") EXCEPT !.answer = reply, !.reason = reason])
    BY <2>1, <2>3, <2>5
  <2>8. QED BY <2>1, <2>2, <2>6, <2>7, SameTurn
<1>4. ASSUME NEW why \in {"conflict", "error", "overflow"}, Reject(w, why)
      PROVE  RuntimeInv'
  <2>1. /\ work[w].at = "judge" /\ UNCHANGED <<vars, registry, crashes, abandoned>>
        /\ Goto(w, [Step(w, "settle") EXCEPT !.reason = why])
    BY <1>4 DEF Reject, At
  <2>2. why \in Reasons
    BY DEF Reasons
  <2>3. PICK r \in WorkRow : r = Step(w, "settle")
    BY WorkerFacts, StepFields DEF Places, Owning
  <2>4. r.answer = answer
    BY <1>1, <2>3, WorkerFacts, StepFields DEF Places, Owning
  <2>5. [r EXCEPT !.reason = why] = [r EXCEPT !.answer = answer, !.reason = why]
    BY <2>4 DEF WorkRow
  <2>6. /\ "settle" \in Places \ {"bind", "done"} /\ "settle" \in Owning /\ "judge" \in Owning
        /\ "settle" \notin {"select", "check", "owned"}
    BY DEF Places, Owning
  <2>7. Goto(w, [Step(w, "settle") EXCEPT !.answer = answer, !.reason = why])
    BY <2>1, <2>3, <2>5
  <2>8. QED BY <2>1, <2>2, <2>6, <2>7, SameTurn
<1>5. QED BY <1>2, <1>3, <1>4

\* The steps that end, or pass over an executor, without an admission.
LEMMA UnadmittedInv ==
    ASSUME RuntimeInv, NEW w \in Workers, NEW now \in Instants,
           \/ \E status \in {"cancelled", "timeout"} : Stop(w, status)
           \/ Exhaust(w) \/ Skip(w)
           \/ AdmitConflict(w, now) \/ AdmitWaiting(w, now) \/ AdmitOverflow(w, now)
    PROVE  RuntimeInv'
<1>1. ASSUME NEW status \in {"cancelled", "timeout"}, Stop(w, status)
      PROVE  RuntimeInv'
  <2>1. work[w].at \in Resting /\ Goto(w, Done(w, status))
    BY <1>1 DEF Stop, At, Resting
  <2>2. UNCHANGED <<vars, registry, crashes, abandoned>> /\ status \in Verdicts
    BY <1>1 DEF Stop, Verdicts
  <2>3. QED BY <2>1, <2>2, EndUnowned
<1>2. CASE Exhaust(w)
  BY <1>2, EndUnowned DEF Exhaust, At, Resting, Verdicts
<1>3. CASE Skip(w)
  <2>1. work[w].at = "select" /\ work[w].next \in DOMAIN Route
    BY <1>3, TurnInRange DEF Skip, At
  <2>2. Routed(w) /\ work[w].at \in Resting
    BY <2>1, WorkerFacts DEF ControlInv, Resting
  <2>3. "skipped" \in Verdicts
    BY DEF Verdicts
  <2>4. QED BY <1>3, <2>1, <2>2, <2>3, PassOver DEF Skip
<1>4. CASE AdmitConflict(w, now)
  <2>1. PICK status \in {"conflict", "raised"} : Goto(w, Done(w, status))
    BY <1>4 DEF AdmitConflict
  <2>2. work[w].at \in Resting /\ status \in Verdicts
    BY <1>4 DEF AdmitConflict, At, Resting, Verdicts
  <2>3. UNCHANGED <<vars, registry, crashes, abandoned>>
    BY <1>4 DEF AdmitConflict
  <2>4. QED BY <2>1, <2>2, <2>3, EndUnowned
<1>5. CASE AdmitWaiting(w, now)
  BY <1>5, EndUnowned DEF AdmitWaiting, At, Resting, Verdicts
<1>6. CASE AdmitOverflow(w, now)
  <2>1. /\ work[w].at = "admit" /\ work[w].at \in Resting
        /\ UNCHANGED <<vars, registry, crashes, abandoned>>
        /\ "raised" \in Verdicts /\ "context_overflow" \in Verdicts
    BY <1>6 DEF AdmitOverflow, At, Resting, Verdicts
  <2>2. CASE Routed(w)
    <3>1. Goto(w, Fallback(w, "context_overflow"))
      BY <1>6, <2>2 DEF AdmitOverflow
    <3>2. work[w].next \in DOMAIN Route
      BY <2>1, <2>2, WorkerFacts DEF ControlInv
    <3>3. QED BY <2>1, <2>2, <3>1, <3>2, PassOver
  <2>3. CASE ~Routed(w)
    BY <1>6, <2>1, <2>3, EndUnowned DEF AdmitOverflow
  <2>4. QED BY <2>2, <2>3
<1>7. QED BY <1>1, <1>2, <1>3, <1>4, <1>5, <1>6

\* A step ends with an exception, its attempt settled or left behind.
LEMMA RaiseInv ==
    ASSUME RuntimeInv, StoreInv', NEW w \in Workers, work[w].at \in {"judge", "settle"},
           NEW a, a = work[w].attempt,
           RowsAreKept, SettlesOnly(a), AttemptIds' = AttemptIds,
           UNCHANGED <<registry, crashes>>, abandoned \subseteq abandoned',
           Goto(w, Done(w, "raised")),
           attempts'[a].status # "reserved" \/ a \in abandoned', Durable(a, "raised")'
    PROVE  RuntimeInv'
<1>1. /\ a \in AttemptIds /\ a # NoAttempt /\ work[w].status = "none"
      /\ work[w].at \in Owning /\ work[w].at # "done"
  BY OwnedAttempt DEF Owning
<1>2. PICK record \in WorkRow : record = Done(w, "raised")
  BY WorkerFacts, DoneFields DEF Verdicts
<1>3. /\ record.at = "done" /\ record.original = work[w].original
      /\ record.context = work[w].context /\ record.attempt = a /\ record.answer = "none"
      /\ record.status = "raised" /\ record.report = work[w].report
  BY <1>2, WorkerFacts, DoneFields DEF Verdicts
<1>4. work'[w] = record
  BY <1>2 DEF Goto, RuntimeInv
<1>5. ControlInv(w)'
  BY <1>1, <1>3, <1>4 DEF ControlInv, Resting, Owning
<1>6. AdmissibleInv(w)' /\ ReportInv(w)'
  BY <1>3, <1>4 DEF AdmissibleInv, ReportInv, Owning
<1>7. BoundInv(w)'
  BY <1>1, <1>3, <1>4, WorkerFacts, BoundIsStable
<1>8. LinesInv(w)'
  BY <1>1, <1>3, <1>4, WorkerFacts, LinesAreStable
<1>9. WorkerInv(w)'
  BY <1>5, <1>6, <1>7, <1>8 DEF WorkerInv
<1>10. record.at \notin Owning /\ registry' \in [Workers -> RegistryRow] /\ Goto(w, record)
  BY <1>2, <1>3 DEF Owning, RuntimeInv
<1>11. QED BY <1>1, <1>9, <1>10, WorkerMove

\* The steps that settle the attempt of the step.
LEMMA SettlingInv ==
    ASSUME RuntimeInv, StoreInv', NEW w \in Workers, NEW now \in Instants,
           \/ \E status \in {"cancelled", "timeout"} : Interrupt(w, status)
           \/ FailAnswer(w, now)
           \/ DisposeAnswer(w, now)
           \/ \E request \in WakeRequests \cup {NoTime} : CommitAnswer(w, now, request)
           \/ AbstainAnswer(w)
           \/ SettleRejected(w)
    PROVE  RuntimeInv'
<1>1. /\ work[w].at \in {"judge", "settle"}
      /\ SettleRejected(w) \/ work[w].at = "judge"
      /\ UNCHANGED <<registry, crashes, abandoned>>
  BY DEF Interrupt, FailAnswer, DisposeAnswer, CommitAnswer, AbstainAnswer, SettleRejected, At
<1>2. PICK a \in AttemptIds : a = work[w].attempt
  BY <1>1, OwnedAttempt DEF Owning
<1>3. /\ TypeOK /\ StoreInv
      /\ Routed(w) => Mode[w] # "step"
  BY DEF RuntimeInv, StoreInv, KernelInv, Routed
<1>4. ASSUME NEW status \in {"cancelled", "timeout"}, Interrupt(w, status)
      PROVE  RuntimeInv'
  <2>1. Fails(a) /\ Finished(w, status)
    BY <1>2, <1>4 DEF Interrupt, Fails
  <2>2. status \in Verdicts \ {"committed", "disposed", "abstained"} /\ status # "raised"
    BY DEF Verdicts
  <2>3. QED BY <1>1, <1>2, <2>1, <2>2, FailedStepInv
<1>5. CASE FailAnswer(w, now)
  <2>1. Fails(a)
    BY <1>2, <1>5 DEF FailAnswer, Fails, FailIfReserved
  <2>2. Finished(w, FailedStatus(w))
    BY <1>5 DEF FailAnswer
  <2>3. /\ FailedStatus(w) \in Verdicts \ {"committed", "disposed", "abstained"}
        /\ Routed(w) => FailedStatus(w) # "raised"
    BY <1>3 DEF FailedStatus, Verdicts
  <2>4. QED BY <1>1, <1>2, <2>1, <2>2, <2>3, FailedStepInv
<1>6. CASE DisposeAnswer(w, now)
  <2>1. PICK status : /\ status = IF Mode[w] = "step" THEN "raised" ELSE "disposed"
                      /\ Finished(w, status)
    BY <1>6 DEF DisposeAnswer
  <2>2. PICK request \in Nat \cup {NoTime}, disposition \in SUBSET Nat :
           /\ Transition(a, now, request, disposition)
           /\ disposition = CountedFailures(a)
    BY <1>2, <1>3, <1>6, OperationKinds DEF DisposeAnswer
  <2>3. disposition # {}
    BY <2>2 DEF CountedFailures
  <2>4. \/ status = "disposed" /\ disposition # {}
        \/ status = "raised" /\ disposition # {} /\ ~Routed(w)
    BY <1>3, <2>1, <2>3
  <2>5. work[w].at = "judge"
    BY <1>6 DEF DisposeAnswer, At
  <2>6. QED BY <1>1, <1>2, <2>1, <2>2, <2>4, <2>5, TransitionStepInv
<1>7. ASSUME NEW request \in WakeRequests \cup {NoTime}, CommitAnswer(w, now, request)
      PROVE  RuntimeInv'
  <2>1. Commit(a, now, request) /\ Finished(w, "committed") /\ work[w].at = "judge"
    BY <1>2, <1>7 DEF CommitAnswer, At
  <2>2. request \in Nat \cup {NoTime} /\ Transition(a, now, request, {})
    BY <1>3, <2>1, OperationKinds
  <2>3. QED BY <1>1, <1>2, <2>1, <2>2, TransitionStepInv
<1>8. CASE AbstainAnswer(w)
  <2>1. Abstain(a) /\ Finished(w, "abstained")
    BY <1>2, <1>8 DEF AbstainAnswer
  <2>2. Lapse(a, "abstained")
    BY <1>3, <2>1, OperationKinds
  <2>3. /\ RowsAreKept /\ SettlesOnly(a) /\ AttemptIds' = AttemptIds
        /\ attempts'[a].status = "abstained"
    BY <1>3, <2>2, LapseEffect
  <2>4. Durable(a, "abstained")' /\ attempts'[a].status # "reserved"
    BY <2>3 DEF Durable
  <2>5. "abstained" \in Verdicts
    BY DEF Verdicts
  <2>6. QED BY <1>1, <1>2, <2>1, <2>3, <2>4, <2>5, Finish
<1>9. CASE SettleRejected(w)
  <2>1. Fails(a)
    BY <1>2, <1>9 DEF SettleRejected, Fails
  <2>2. CASE \E status \in {"conflict", "failed"} : Finished(w, status)
    <3>1. PICK status \in {"conflict", "failed"} : Finished(w, status)
      BY <2>2
    <3>2. status \in Verdicts \ {"committed", "disposed", "abstained"} /\ status # "raised"
      BY DEF Verdicts
    <3>3. QED BY <1>1, <1>2, <2>1, <3>1, <3>2, FailedStepInv
  <2>3. CASE Goto(w, Done(w, "raised"))
    <3>1. /\ RowsAreKept /\ SettlesOnly(a) /\ AttemptIds' = AttemptIds
          /\ attempts'[a].status \in {"failed", "superseded"}
      BY <1>1, <1>2, <2>1, OwnedAttempt, FailEffect DEF Owning
    <3>2. Durable(a, "raised")'
      BY <3>1, FailureIsDurable DEF Verdicts
    <3>3. QED BY <1>1, <1>2, <2>3, <3>1, <3>2, RaiseInv
  <2>4. QED BY <1>9, <2>2, <2>3 DEF SettleRejected
<1>10. QED BY <1>4, <1>5, <1>6, <1>7, <1>8, <1>9

\* A settlement whose instant is not representable.
LEMMA DisposeRaisesInv ==
    ASSUME RuntimeInv, NEW w \in Workers, NEW now \in Instants, DisposeRaises(w, now)
    PROVE  RuntimeInv'
<1>1. /\ work[w].at = "judge" /\ Goto(w, Done(w, "raised"))
      /\ UNCHANGED <<vars, registry, crashes>>
  BY DEF DisposeRaises, At
<1>2. PICK a \in AttemptIds : a = work[w].attempt
  BY <1>1, OwnedAttempt DEF Owning
<1>3. abandoned' = abandoned \cup {a}
  BY <1>2 DEF DisposeRaises
<1>4. attempts[a].status = "reserved"
  BY <1>2 DEF DisposeRaises
<1>5. /\ StoreInv' /\ RowsAreKept /\ AttemptIds' = AttemptIds /\ SettlesOnly(a)
  BY <1>1, StoreAtRest DEF SettlesOnly
<1>6. Durable(a, "raised")'
  BY <1>3 DEF Durable
<1>7. QED BY <1>1, <1>2, <1>3, <1>5, <1>6, RaiseInv

LEMMA SubmitMessageInv ==
    ASSUME RuntimeInv, SubmitMessage
    PROVE  RuntimeInv'
<1>1. StoreInv /\ UNCHANGED localVars
      /\ \E key \in Keys, payload \in Payloads : Submit(key, payload)
  BY DEF RuntimeInv, SubmitMessage
<1>2. /\ StoreInv' /\ RowsAreKept
      /\ \A i \in AttemptIds : attempts'[i].status = attempts[i].status
  BY <1>1, NextStoreInv, UnsettledEffect DEF Next
<1>3. /\ UNCHANGED <<work, registry, crashes, abandoned>> /\ AttemptIds' = AttemptIds
  BY <1>1 DEF localVars, Submit, AttemptIds
<1>4. ASSUME NEW w \in Workers PROVE WorkerInv(w)'
  <2>1. work[w].at \in Owning =>
           attempts'[work[w].attempt].status \in {"reserved", "superseded"}
    BY <1>2, OwnedAttempt
  <2>2. WorkerInv(w)
    BY DEF RuntimeInv
  <2>3. QED BY <1>2, <1>3, <2>1, <2>2, Bystander
<1>5. OwnersAreDistinct'
  BY <1>3 DEF RuntimeInv, OwnersAreDistinct
<1>6. OrphansAreAbandoned'
  BY <1>2, <1>3 DEF RuntimeInv, OrphansAreAbandoned
<1>7. QED BY <1>2, <1>3, <1>4, <1>5, <1>6 DEF RuntimeInv

LEMMA InitRuntimeInv == RuntimeInit => RuntimeInv
<1> SUFFICES ASSUME RuntimeInit PROVE RuntimeInv
  OBVIOUS
<1>1. StoreInv /\ attempts = <<>>
  BY InitStoreInv DEF RuntimeInit, Init, Create
<1>2. /\ work = [w \in Workers |-> Idle]
      /\ registry = [w \in Workers |-> [enabled |-> Executors, sessions |-> {}]]
  BY DEF RuntimeInit
<1>3. work \in [Workers -> WorkRow] /\ \A w \in Workers : work[w] = Idle
  BY <1>2, IdleRow
<1>4. registry \in [Workers -> RegistryRow]
  BY <1>2 DEF RegistryRow
<1>5. /\ Idle.at = "idle" /\ Idle.attempt = NoAttempt /\ Idle.answer = "none"
      /\ Idle.status = "none" /\ Idle.report = <<>>
  BY DEF Idle
<1>6. ASSUME NEW w \in Workers PROVE WorkerInv(w)
  <2>1. ControlInv(w)
    BY <1>3, <1>5 DEF ControlInv, Resting, Owning
  <2>2. AdmissibleInv(w) /\ BoundInv(w) /\ ReportInv(w)
    BY <1>3, <1>5 DEF AdmissibleInv, BoundInv, ReportInv, Owning
  <2>3. LinesInv(w)
    BY <1>3, <1>5 DEF LinesInv
  <2>4. QED BY <2>1, <2>2, <2>3 DEF WorkerInv
<1>7. OwnersAreDistinct
  BY <1>3, <1>5 DEF OwnersAreDistinct, Owning
<1>8. OrphansAreAbandoned
  BY <1>1 DEF OrphansAreAbandoned, AttemptIds
<1>9. QED BY <1>1, <1>3, <1>4, <1>6, <1>7, <1>8 DEF RuntimeInv

\* Nothing moves but the count of crashes.
LEMMA RuntimeAtRest ==
    ASSUME RuntimeInv, UNCHANGED <<vars, work, registry, abandoned>>
    PROVE  RuntimeInv'
<1>1. StoreInv' /\ RowsAreKept /\ AttemptIds' = AttemptIds /\ UNCHANGED attempts
  BY StoreAtRest DEF vars
<1>2. ASSUME NEW w \in Workers PROVE WorkerInv(w)'
  <2>1. work[w].at \in Owning =>
           attempts'[work[w].attempt].status \in {"reserved", "superseded"}
    BY <1>1, OwnedAttempt
  <2>2. WorkerInv(w)
    BY DEF RuntimeInv
  <2>3. QED BY <1>1, <2>1, <2>2, Bystander
<1>3. OwnersAreDistinct' /\ OrphansAreAbandoned'
  BY <1>1 DEF RuntimeInv, OwnersAreDistinct, OrphansAreAbandoned
<1>4. QED BY <1>1, <1>2, <1>3 DEF RuntimeInv

\* Every step of the workers preserves the invariant.
LEMMA NextRuntimeInv == RuntimeInv /\ [RuntimeNext]_runtimeVars => RuntimeInv'
<1> SUFFICES ASSUME RuntimeInv, [RuntimeNext]_runtimeVars PROVE RuntimeInv'
  OBVIOUS
<1>1. StoreInv'
  BY RuntimeStoreStep, NextStoreInv DEF RuntimeInv
<1>2. CASE UNCHANGED runtimeVars
  BY <1>2, RuntimeAtRest DEF runtimeVars, localVars
<1>3. CASE SubmitMessage
  BY <1>3, SubmitMessageInv
<1>4. ASSUME NEW w \in Workers, NEW now \in Instants, StepNext(w, now)
      PROVE  RuntimeInv'
  <2>1. CASE Bind(w, now)
    BY <2>1, BindInv
  <2>2. CASE \/ \E status \in {"cancelled", "timeout"} : Stop(w, status)
             \/ Exhaust(w) \/ Skip(w)
             \/ AdmitConflict(w, now) \/ AdmitWaiting(w, now) \/ AdmitOverflow(w, now)
    BY <2>2, UnadmittedInv
  <2>3. CASE OpenSession(w)
    BY <2>3, OpenSessionInv
  <2>4. CASE \/ CheckHead(w)
             \/ \E answer \in Answers : Respond(w, answer)
             \/ \E reason \in {"conflict", "error", "overflow"} : Reject(w, reason)
    BY <2>4, GoOnInv
  <2>5. CASE \E maintenance \in MaintenanceModes : AdmitAttempt(w, now, maintenance)
    BY <2>5, AdmitAttemptInv
  <2>6. CASE CheckAdmitted(w)
    BY <2>6, CheckAdmittedInv
  <2>7. CASE DisposeRaises(w, now)
    BY <2>7, DisposeRaisesInv
  <2>8. CASE \/ \E status \in {"cancelled", "timeout"} : Interrupt(w, status)
             \/ FailAnswer(w, now)
             \/ DisposeAnswer(w, now)
             \/ \E request \in WakeRequests \cup {NoTime} : CommitAnswer(w, now, request)
             \/ AbstainAnswer(w)
             \/ SettleRejected(w)
    BY <1>1, <2>8, SettlingInv
  <2>9. QED BY <1>4, <2>1, <2>2, <2>3, <2>4, <2>5, <2>6, <2>7, <2>8 DEF StepNext
<1>5. ASSUME NEW w \in Workers, NEW now \in Instants, WorkerNext(w, now)
      PROVE  RuntimeInv'
  BY <1>4, <1>5, BeginInv, IdleInv DEF WorkerNext
<1>6. ASSUME NEW w \in Workers, NEW e \in Managed, Enable(w, e) \/ Evict(w, e)
      PROVE  RuntimeInv'
  BY <1>6, RegistryInv
<1>7. ASSUME NEW w \in Workers, Crash(w) PROVE RuntimeInv'
  BY <1>7, IdleInv
<1>8. QED BY <1>2, <1>3, <1>5, <1>6, <1>7 DEF RuntimeNext

\* The workers' inductive invariant holds in every state of every behaviour.
LEMMA RuntimeInvHolds == RuntimeSpec => []RuntimeInv
BY InitRuntimeInv, NextRuntimeInv, PTL DEF RuntimeSpec

-----------------------------------------------------------------------------
(* Theorems.                                                               *)

\* Workers, routes, cancellations and crashes make only transactions of the
\* store: whatever is proved of the store holds of the subject they drive.
THEOREM WorkersImplementTheStore == RuntimeSpec => Spec
<1>1. RuntimeInit => Init
  BY DEF RuntimeInit
<1>2. RuntimeInv /\ [RuntimeNext]_runtimeVars => [Next]_vars
  BY RuntimeStoreStep
<1>3. QED BY <1>1, <1>2, RuntimeInvHolds, PTL DEF RuntimeSpec, Spec

\* No error path of a step leaks a reservation: whoever holds one settles it,
\* crashes, or could not settle it.
THEOREM NoReservationLeaks == RuntimeSpec => []OrphansAreAbandoned
<1>1. RuntimeInv => OrphansAreAbandoned
  BY DEF RuntimeInv
<1>2. QED BY <1>1, RuntimeInvHolds, PTL

\* Evidence reaches only the occasion and the head it was staged for.
THEOREM EvidenceStaysBound == RuntimeSpec => []EvidenceIsBound
<1>1. RuntimeInv => EvidenceIsBound
  BY DEF RuntimeInv, WorkerInv, BoundInv, EvidenceIsBound
<1>2. QED BY <1>1, RuntimeInvHolds, PTL

\* A route makes at most one transition, at the head it started from.
THEOREM RoutesStayAtOneHead == RuntimeSpec => []RouteStaysAtOneHead
<1>1. RuntimeInv => RouteStaysAtOneHead
  BY DEF RuntimeInv, WorkerInv, ReportInv, LinesInv, RouteStaysAtOneHead, At
<1>2. QED BY <1>1, RuntimeInvHolds, PTL

\* What a step reports of its attempt is what the store keeps of it.
THEOREM StepsReportTheStore == RuntimeSpec => []ReportsAreDurable
<1>1. RuntimeInv => ReportsAreDurable
  BY DEF RuntimeInv, WorkerInv, ReportInv, LinesInv, ReportsAreDurable, At
<1>2. QED BY <1>1, RuntimeInvHolds, PTL

-----------------------------------------------------------------------------
(* A reservation is settled by its owner.                                  *)

\* What one transaction does to reservations: it settles that of attempt a, and a
\* commit supersedes those at the head it leaves.
SettlesOwn(a) ==
    \A i \in AttemptIds :
        \/ attempts'[i].status = attempts[i].status
        \/ i = a /\ attempts'[i].status \in {"failed", "abstained", "committed"}
        \/ attempts'[i].status = "superseded" /\ attempts[i].parent = head /\ head' # head

LEMMA LapseSettlesOwn ==
    ASSUME NEW a \in AttemptIds, NEW status \in {"failed", "abstained"}, Lapse(a, status)
    PROVE  SettlesOwn(a)
BY DEF Lapse, SettlesOwn

LEMMA TransitionSettlesOwn ==
    ASSUME StoreInv, NEW a \in AttemptIds, NEW now \in Instants,
           NEW request \in Nat \cup {NoTime}, NEW disposition \in SUBSET Nat,
           Transition(a, now, request, disposition)
    PROVE  SettlesOwn(a)
<1>1. KernelInv /\ CommitLocked(a, now, request, disposition) /\ head \in CommitIds
  BY DEF StoreInv, KernelInv, TypeOK, Transition
<1>2. /\ head' = Len(commits) + 1 /\ Len(commits) + 1 \notin CommitIds
      /\ attempts'[a].status = "committed"
      /\ \A i \in AttemptIds \ {a} :
            attempts'[i].status =
               IF attempts[i].parent = head /\ attempts[i].status = "reserved"
               THEN "superseded" ELSE attempts[i].status
  BY <1>1, TransitionEffect
<1>3. head' # head
  BY <1>1, <1>2
<1>4. QED BY <1>2, <1>3 DEF SettlesOwn

\* A step of a worker settles the attempt it holds, if any.
LEMMA StepSettlesOwn ==
    ASSUME RuntimeInv, NEW w \in Workers, NEW now \in Instants, StepNext(w, now)
    PROVE  \/ \A i \in AttemptIds : attempts'[i].status = attempts[i].status
           \/ /\ work[w].at \in Owning /\ work[w].attempt \in AttemptIds
              /\ SettlesOwn(work[w].attempt)
<1>1. StoreInv /\ TypeOK
  BY DEF RuntimeInv, StoreInv, KernelInv
<1>2. ASSUME UNCHANGED vars \/ \E maintenance \in MaintenanceModes : Admit(now, maintenance)
      PROVE  \A i \in AttemptIds : attempts'[i].status = attempts[i].status
  BY <1>1, <1>2, UnsettledEffect
<1>3. CASE \/ Bind(w, now) \/ Exhaust(w) \/ Skip(w) \/ OpenSession(w) \/ CheckHead(w)
           \/ AdmitConflict(w, now) \/ AdmitWaiting(w, now) \/ AdmitOverflow(w, now)
           \/ DisposeRaises(w, now)
           \/ \E status \in {"cancelled", "timeout"} : Stop(w, status)
           \/ \E answer \in Answers : Respond(w, answer)
           \/ \E reason \in {"conflict", "error", "overflow"} : Reject(w, reason)
  <2>1. UNCHANGED vars
    BY <1>3 DEF Bind, Exhaust, Skip, OpenSession, CheckHead, AdmitConflict, AdmitWaiting,
                AdmitOverflow, DisposeRaises, Stop, Respond, Reject
  <2>2. QED BY <1>2, <2>1
<1>4. CASE \E maintenance \in MaintenanceModes : AdmitAttempt(w, now, maintenance)
  <2>1. \E maintenance \in MaintenanceModes : Admit(now, maintenance)
    BY <1>4 DEF AdmitAttempt
  <2>2. QED BY <1>2, <2>1
<1>5. CASE \/ CheckAdmitted(w) \/ SettleRejected(w)
           \/ \E status \in {"cancelled", "timeout"} : Interrupt(w, status)
           \/ FailAnswer(w, now) \/ DisposeAnswer(w, now)
           \/ \E request \in WakeRequests \cup {NoTime} : CommitAnswer(w, now, request)
           \/ AbstainAnswer(w)
  <2>1. work[w].at \in {"owned", "judge", "settle"}
    BY <1>5 DEF CheckAdmitted, SettleRejected, Interrupt, FailAnswer, DisposeAnswer,
                CommitAnswer, AbstainAnswer, At
  <2>2. work[w].at \in Owning /\ work[w].attempt \in AttemptIds
    BY <2>1, OwnedAttempt DEF Owning
  <2>3. PICK a \in AttemptIds : a = work[w].attempt
    BY <2>2
  <2>4. \/ UNCHANGED vars \/ Abstain(a) \/ FailTransient(a) \/ RecordFailure(a)
        \/ DisposeOverflow(a, now) \/ Dispose(a, now)
        \/ \E request \in WakeRequests \cup {NoTime} : Commit(a, now, request)
    <3>1. CASE \/ CheckAdmitted(w) \/ SettleRejected(w)
               \/ \E status \in {"cancelled", "timeout"} : Interrupt(w, status)
      BY <2>3, <3>1 DEF CheckAdmitted, SettleRejected, Interrupt, FailIfReserved
    <3>2. CASE FailAnswer(w, now)
      BY <2>3, <3>2 DEF FailAnswer, FailIfReserved
    <3>3. CASE DisposeAnswer(w, now) \/ AbstainAnswer(w)
      BY <2>3, <3>3 DEF DisposeAnswer, AbstainAnswer
    <3>4. CASE \E request \in WakeRequests \cup {NoTime} : CommitAnswer(w, now, request)
      BY <2>3, <3>4 DEF CommitAnswer
    <3>5. QED BY <1>5, <3>1, <3>2, <3>3, <3>4
  <2>5. CASE UNCHANGED vars
    BY <1>2, <2>5
  <2>6. CASE Abstain(a) \/ FailTransient(a) \/ RecordFailure(a) \/ DisposeOverflow(a, now)
    <3>1. \E status \in {"failed", "abstained"} : Lapse(a, status)
      BY <1>1, <2>6, OperationKinds
    <3>2. SettlesOwn(a)
      BY <3>1, LapseSettlesOwn
    <3>3. QED BY <2>2, <2>3, <3>2
  <2>7. CASE Dispose(a, now) \/ \E request \in WakeRequests \cup {NoTime} : Commit(a, now, request)
    <3>1. \E request \in Nat \cup {NoTime}, disposition \in SUBSET Nat :
             Transition(a, now, request, disposition)
      BY <1>1, <2>7, OperationKinds
    <3>2. SettlesOwn(a)
      BY <1>1, <3>1, TransitionSettlesOwn
    <3>3. QED BY <2>2, <2>3, <3>2
  <2>8. QED BY <2>4, <2>5, <2>6, <2>7
<1>6. QED BY <1>3, <1>4, <1>5 DEF StepNext

\* Only the worker whose step holds an attempt settles it (mark_failed, abstain,
\* commit_locked): a reservation of another worker, or an orphan, ends otherwise
\* only when a commit moves the head it was made at.
THEOREM OwnersSettleTheirReservations == RuntimeSpec => ReservationsAreSettledByTheirOwner
<1> DEFINE P == \A a \in AttemptIds :
          (attempts[a].status = "reserved" /\ attempts'[a].status # "reserved") =>
              \/ \E w \in Workers :
                    work[w].attempt = a /\ work[w].at # "done" /\ work'[w] # work[w]
              \/ /\ attempts'[a].status = "superseded"
                 /\ attempts[a].parent = head /\ head' # head
<1>1. RuntimeInv /\ RuntimeInv' /\ [RuntimeNext]_runtimeVars => [P]_runtimeVars
  <2> SUFFICES ASSUME RuntimeInv, RuntimeInv', RuntimeNext PROVE P
    OBVIOUS
  <2>1. ASSUME UNCHANGED vars \/ \E key \in Keys, payload \in Payloads : Submit(key, payload)
        PROVE  P
    <3>1. \A i \in AttemptIds : attempts'[i].status = attempts[i].status
      BY <2>1, UnsettledEffect DEF RuntimeInv
    <3>2. QED BY <3>1
  <2>2. CASE SubmitMessage
    BY <2>1, <2>2 DEF SubmitMessage
  <2>3. ASSUME NEW w \in Workers, NEW now \in Instants, StepNext(w, now)
        PROVE  P
    <3>1. CASE \A i \in AttemptIds : attempts'[i].status = attempts[i].status
      BY <3>1
    <3>2. CASE /\ work[w].at \in Owning /\ work[w].attempt \in AttemptIds
               /\ SettlesOwn(work[w].attempt)
      <4>1. ASSUME work'[w] = work[w]
            PROVE  attempts'[work[w].attempt].status \in {"reserved", "superseded"}
        BY <3>2, <4>1 DEF RuntimeInv, WorkerInv, ControlInv
      <4>2. work[w].at # "done"
        BY <3>2 DEF Owning
      <4>3. QED BY <3>2, <4>1, <4>2 DEF SettlesOwn
    <3>3. QED BY <2>3, <3>1, <3>2, StepSettlesOwn
  <2>4. ASSUME NEW w \in Workers, NEW now \in Instants, WorkerNext(w, now)
        PROVE  P
    BY <2>1, <2>3, <2>4 DEF WorkerNext, Begin, Return
  <2>5. ASSUME NEW w \in Workers, \/ \E e \in Managed : Enable(w, e) \/ Evict(w, e)
                                  \/ Crash(w)
        PROVE  P
    BY <2>1, <2>5 DEF Enable, Evict, Crash
  <2>6. QED BY <2>2, <2>4, <2>5 DEF RuntimeNext
<1>2. QED BY <1>1, RuntimeInvHolds, PTL DEF RuntimeSpec, ReservationsAreSettledByTheirOwner

-----------------------------------------------------------------------------
(* An outage is not held against the occasion.                             *)

\* A step moves one worker.
LEMMA OneWorkerMoves ==
    ASSUME RuntimeInv, NEW v \in Workers, NEW now \in Instants, StepNext(v, now),
           NEW w \in Workers, w # v
    PROVE  work'[w] = work[w]
<1>1. SUFFICES \E record : Goto(v, record)
  BY DEF Goto, RuntimeInv
<1>2. CASE \/ Bind(v, now) \/ Exhaust(v) \/ Skip(v) \/ OpenSession(v) \/ CheckHead(v)
           \/ AdmitConflict(v, now) \/ AdmitWaiting(v, now) \/ AdmitOverflow(v, now)
           \/ CheckAdmitted(v) \/ DisposeRaises(v, now)
  BY <1>2 DEF Bind, Exhaust, Skip, OpenSession, CheckHead, AdmitConflict, AdmitWaiting,
              AdmitOverflow, CheckAdmitted, DisposeRaises
<1>3. \A status : Finished(v, status) => \E record : Goto(v, record)
  BY DEF Finished
<1>4. CASE \/ \E status \in {"cancelled", "timeout"} : Stop(v, status) \/ Interrupt(v, status)
           \/ \E maintenance \in MaintenanceModes : AdmitAttempt(v, now, maintenance)
           \/ \E answer \in Answers : Respond(v, answer)
           \/ \E reason \in {"conflict", "error", "overflow"} : Reject(v, reason)
  BY <1>3, <1>4 DEF Stop, Interrupt, AdmitAttempt, Respond, Reject
<1>5. CASE \/ FailAnswer(v, now) \/ DisposeAnswer(v, now)
           \/ \E request \in WakeRequests \cup {NoTime} : CommitAnswer(v, now, request)
           \/ AbstainAnswer(v)
  BY <1>3, <1>5 DEF FailAnswer, DisposeAnswer, CommitAnswer, AbstainAnswer
<1>6. CASE SettleRejected(v)
  BY <1>3, <1>6 DEF SettleRejected
<1>7. QED BY <1>2, <1>4, <1>5, <1>6 DEF StepNext

\* An outage is neither an abstention nor a failure that blames the occasion.
LEMMA OutageScope ==
    ASSUME NEW w \in Workers, work[w].answer \in Outage
    PROVE  /\ work[w].answer # "none"
           /\ ~OccasionScope(w)
           /\ work[w].answer \notin Abstentions
           /\ Diagnosed(w) => ~Proposed(w)
<1>1. PICK answer : answer = work[w].answer
  OBVIOUS
<1>2. CASE answer = "mute"
  BY <1>1, <1>2 DEF OccasionScope, Failures, Keyless, Stopped, Late, Unreachable, BadEnvelope,
                    BadContent, Fault, Abstentions, Proposed, Failed
<1>3. CASE answer \in Keyless \cup Stopped \cup Late \cup Unreachable \cup Fault
  <2>1. FailureKind(answer) \in {"credentials", "timeout", "transport", "backend"}
    BY <1>3 DEF FailureKind, Keyless, Stopped, Late, Unreachable, BadEnvelope, BadContent, Fault
  <2>2. failure_scope(FailureKind(answer)) = "transient"
    BY <2>1 DEF failure_scope
  <2>3. answer \notin Abstentions \cup {"none", "ungranted"}
    BY <1>3 DEF Keyless, Stopped, Late, Unreachable, Fault, Abstentions
  <2>4. answer \notin {"proposal", "mute"}
    BY <1>3 DEF Keyless, Stopped, Late, Unreachable, Fault
  <2>5. QED BY <1>1, <2>2, <2>3, <2>4 DEF OccasionScope, Proposed
<1>4. QED BY <1>1, <1>2, <1>3 DEF Outage

\* What a step does with an outage that left a diagnostic.
LEMMA OutageStep ==
    ASSUME RuntimeInv, RuntimeNext, NEW w \in Workers,
           work[w].answer \in Outage, Diagnosed(w), work'[w] # work[w]
    PROVE  UNCHANGED <<occasions, failures>>
<1>1. work[w].at \in {"judge", "settle"}
  BY OutageScope, WorkerFacts DEF ControlInv
<1>2. ~SubmitMessage
  BY DEF SubmitMessage, localVars
<1>3. ASSUME NEW a, FailIfReserved(a)
      PROVE  UNCHANGED <<occasions, failures>>
  BY <1>3 DEF FailIfReserved, FailTransient, vars
<1>4. ASSUME NEW now \in Instants, StepNext(w, now)
      PROVE  UNCHANGED <<occasions, failures>>
  <2>1. CASE \/ Bind(w, now) \/ Exhaust(w) \/ Skip(w) \/ OpenSession(w) \/ CheckHead(w)
             \/ AdmitConflict(w, now) \/ AdmitWaiting(w, now) \/ AdmitOverflow(w, now)
             \/ DisposeRaises(w, now)
    BY <2>1 DEF Bind, Exhaust, Skip, OpenSession, CheckHead, AdmitConflict, AdmitWaiting,
                AdmitOverflow, DisposeRaises, vars
  <2>2. CASE \/ \E status \in {"cancelled", "timeout"} : Stop(w, status)
             \/ \E answer \in Answers : Respond(w, answer)
             \/ \E reason \in {"conflict", "error", "overflow"} : Reject(w, reason)
    BY <2>2 DEF Stop, Respond, Reject, vars
  <2>3. CASE \E maintenance \in MaintenanceModes : AdmitAttempt(w, now, maintenance)
    BY <1>1, <2>3 DEF AdmitAttempt, At
  <2>4. CASE \/ CheckAdmitted(w) \/ SettleRejected(w)
             \/ \E status \in {"cancelled", "timeout"} : Interrupt(w, status)
    BY <1>1, <1>3, <2>4 DEF CheckAdmitted, SettleRejected, Interrupt, At
  <2>5. CASE FailAnswer(w, now)
    BY <1>3, <2>5, OutageScope DEF FailAnswer
  <2>6. CASE DisposeAnswer(w, now) \/ AbstainAnswer(w)
    BY <2>6, OutageScope DEF DisposeAnswer, AbstainAnswer
  <2>7. CASE \E request \in WakeRequests \cup {NoTime} : CommitAnswer(w, now, request)
    BY <2>7, OutageScope DEF CommitAnswer
  <2>8. QED BY <1>4, <2>1, <2>2, <2>3, <2>4, <2>5, <2>6, <2>7 DEF StepNext
<1>5. ASSUME NEW v \in Workers, NEW now \in Instants, WorkerNext(v, now)
      PROVE  UNCHANGED <<occasions, failures>>
  <2>1. CASE Return(v) \/ \E bound \in Contexts : Begin(v, bound, now)
    BY <2>1 DEF Return, Begin, vars
  <2>2. CASE StepNext(v, now)
    BY <1>4, <2>2, OneWorkerMoves
  <2>3. QED BY <1>5, <2>1, <2>2 DEF WorkerNext
<1>6. ASSUME NEW v \in Workers, NEW e \in Managed, Enable(v, e) \/ Evict(v, e)
      PROVE  UNCHANGED <<occasions, failures>>
  BY <1>6 DEF Enable, Evict, vars
<1>7. ASSUME NEW v \in Workers, Crash(v)
      PROVE  UNCHANGED <<occasions, failures>>
  BY <1>7 DEF Crash, vars
<1>8. QED BY <1>2, <1>5, <1>6, <1>7 DEF RuntimeNext

\* A failure without a 2xx reply that left a diagnostic neither settles its
\* occasion nor counts against it.  (Runtime::step keeps the message of the
\* exception as the diagnostic; without one it commits a null transition.)
THEOREM DiagnosedOutagesBlameNobody == RuntimeSpec => DiagnosedOutagesPreserveOccasion
<1>1. RuntimeInv /\ [RuntimeNext]_runtimeVars =>
         [\A w \in Workers : work[w].answer \in Outage /\ Diagnosed(w) => PreservesOccasion(w)]_runtimeVars
  BY OutageStep DEF PreservesOccasion
<1>2. QED BY <1>1, RuntimeInvHolds, PTL DEF RuntimeSpec, DiagnosedOutagesPreserveOccasion
=============================================================================
