------------------------------- MODULE Verify -------------------------------
(***************************************************************************)
(* Store::verify (verify_impl in src/kernel.cpp): the full replay a        *)
(* process runs before it trusts a file.  Each definition is one group of  *)
(* require()s; the content hashes are the rows' positions.                 *)
(***************************************************************************)
EXTENDS Kernel

\* SELECT ... FROM commits ORDER BY tick: contiguous ticks from genesis, each
\* commit's parent the one before, and the subject row at the end of the chain.
VerifyChain ==
    /\ {commits[c].tick : c \in CommitIds} = 0 .. Len(commits) - 1
    /\ \A c \in CommitIds :
          IF commits[c].tick = 0
          THEN commits[c].parent = NoCommit /\ commits[c].wake_at = NoTime
          ELSE /\ commits[c].parent \in CommitIds
               /\ commits[commits[c].parent].tick = commits[c].tick - 1
    /\ tick = Len(commits) - 1
    /\ commits[head].tick = tick
    /\ wake = commits[head].wake_at

\* Each transition settled one occasion, known to the chain before it, through
\* an attempt admitted at its parent, and no earlier than either.
VerifyProvenance ==
    \A c \in CommitIds \ {Genesis} :
        LET o == commits[c].occasion
            a == commits[c].attempt
        IN  /\ commits[occasions[o].parent].tick < commits[c].tick
            /\ occasions[o].consumed = c
            /\ attempts[a].parent = commits[c].parent
            /\ attempts[a].tick = commits[c].tick - 1
            /\ attempts[a].occasion = o
            /\ attempts[a].status = "committed"
            /\ commits[c].committed_at >= attempts[a].admitted_at
            /\ commits[c].committed_at >= commits[commits[c].parent].committed_at

\* A disposition lists exactly the configured number of counted failures of
\* its occasion, the settling attempt among them.
VerifyDispositions ==
    \A c \in CommitIds :
        commits[c].disposition # {} =>
            /\ MaxOccasionFailures > 0
            /\ Cardinality(commits[c].disposition) = MaxOccasionFailures
            /\ commits[c].attempt \in commits[c].disposition
            /\ \A f \in commits[c].disposition :
                  /\ f \in failures
                  /\ attempts[f].occasion = commits[c].occasion
                  /\ attempts[f].status =
                        IF f = commits[c].attempt THEN "committed" ELSE "failed"

\* Every wake decision replays from its saved watermark over BudgetHistory.
VerifyWakePlans ==
    \A c \in CommitIds \ {Genesis} :
        LET saved == commits[c].plan
        IN  /\ saved = WakePlan(commits[c].committed_at, saved.requested_after,
                          ReplayBudget(AdmittedAt(saved.budget.through),
                                       commits[c].committed_at))
            /\ commits[c].wake_at = saved.granted_at

\* Every admission replays its budget over the admissions before it, was
\* eligible, knew the coordinate of its head, and ran a wake no earlier than
\* its due_at.
VerifyAdmissions ==
    /\ Nondecreasing(AdmittedAt(Len(attempts)))
    /\ \A a \in AttemptIds :
          /\ attempts[a].budget = ReplayBudget(AdmittedAt(a - 1), attempts[a].admitted_at)
          /\ attempts[a].budget.eligible_at <= attempts[a].admitted_at
          /\ attempts[a].tick = commits[attempts[a].parent].tick
          /\ occasions[attempts[a].occasion].kind = "scheduled" =>
                attempts[a].observed_at >= occasions[attempts[a].occasion].payload

\* A receipt exists exactly for an abstained attempt, which never commits; a
\* counted failure failed, or is the committed attempt of a disposition.
VerifySettlements ==
    /\ \A a \in AttemptIds :
          /\ a \in abstentions <=> attempts[a].status = "abstained"
          /\ a \in abstentions => \A c \in CommitIds : commits[c].attempt # a
    /\ \A f \in failures :
          \/ attempts[f].status = "failed"
          \/ /\ attempts[f].status = "committed"
             /\ \E c \in CommitIds : commits[c].attempt = f /\ commits[c].disposition # {}

\* accounting_wall is the later of the last commit and the last admission.
VerifyAccounting ==
    accounting_wall =
        IF attempts = <<>> THEN commits[head].committed_at
        ELSE Later(commits[head].committed_at, attempts[Len(attempts)].admitted_at)

\* Store::verify_head: the check of the tip alone that hosts run between steps.
VerifyHead ==
    /\ commits[head].tick = tick
    /\ commits[head].wake_at = wake
    /\ tick > 0 =>
          /\ commits[head].parent \in CommitIds
          /\ commits[commits[head].parent].tick = tick - 1
          /\ attempts[commits[head].attempt].status = "committed"
          /\ attempts[commits[head].attempt].parent = commits[head].parent

-----------------------------------------------------------------------------
\* No sequence of store operations, by any number of workers under any clock,
\* writes a file the store's own verifier would refuse to open.  In particular
\* wake plans and admission budgets, which were decided by SQL over the live
\* table, replay to the same records by binary search over the admission
\* history although later attempts have been added since, and dispositions,
\* abstentions and the failure index agree with the attempts they settle.
HistoryVerifies ==
    /\ VerifyChain /\ VerifyProvenance /\ VerifyAccounting /\ VerifyHead
    /\ VerifyWakePlans /\ VerifyAdmissions
    /\ VerifyDispositions /\ VerifySettlements
=============================================================================
