-------------------------- MODULE KernelRefinement --------------------------
(***************************************************************************)
(* The store implements the ledger: the chain of commits, read from        *)
(* genesis, is the ledger's history, and every operation on the store is a *)
(* step of the ledger or leaves it alone.                                  *)
(***************************************************************************)
EXTENDS Kernel

\* What the commit with insertion number c settled.
HistoryEntry(c) == IF Message(commits[c].occasion) THEN commits[c].occasion ELSE 0

AcceptedMessages == {o \in OccasionIds : Message(o)}

CommittedHistory == [i \in 1 .. Len(commits) - 1 |-> HistoryEntry(i + 1)]

L == INSTANCE Ledger WITH
        accepted <- AcceptedMessages,
        history <- CommittedHistory,
        armed <- wake # NoTime

\* Admissions, failures, abstentions and superseded attempts are invisible;
\* submit accepts a message; commit and disposition settle the oldest unsettled
\* message or fire the wake that the current head armed.
ImplementsLedger == L!LedgerSpec
=============================================================================
