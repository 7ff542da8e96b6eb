------------------------------- MODULE Ledger -------------------------------
(***************************************************************************)
(* What a subject's store promises, without attempts, clocks or failures:  *)
(* messages are accepted in an order and settled in that order, each once; *)
(* a transition may arm one wake, and a wake advances only the very        *)
(* transition that armed it.                                               *)
(***************************************************************************)
EXTENDS Naturals, Sequences

VARIABLES
    accepted,  \* the messages accepted so far; a later message is a larger number
    history,   \* what each transition after genesis settled: a message, or Wake
    armed      \* whether the last transition armed a wake

ledgerVars == <<accepted, history, armed>>

Wake == 0

SettledMessages == {history[i] : i \in DOMAIN history} \ {Wake}

\* A subject is born with one message: that it was created.
LedgerInit ==
    /\ accepted = {1}
    /\ history = <<>>
    /\ armed = FALSE

Accept ==
    /\ \E m \in accepted' : /\ accepted' = accepted \cup {m}
                            /\ \A n \in accepted : n < m
    /\ UNCHANGED <<history, armed>>

\* Settle the oldest unsettled message; a wake that was pending is void or
\* armed anew.
Deliver(m) ==
    /\ m \notin SettledMessages
    /\ \A n \in accepted : n < m => n \in SettledMessages
    /\ history' = Append(history, m)
    /\ armed' \in BOOLEAN
    /\ UNCHANGED accepted

Fire ==
    /\ armed
    /\ history' = Append(history, Wake)
    /\ armed' \in BOOLEAN
    /\ UNCHANGED accepted

LedgerNext == Accept \/ Fire \/ \E m \in accepted : Deliver(m)

LedgerSpec == LedgerInit /\ [][LedgerNext]_ledgerVars
=============================================================================
