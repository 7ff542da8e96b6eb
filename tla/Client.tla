------------------------------- MODULE Client -------------------------------
(***************************************************************************)
(* The interactive client (tools/tui/main.cpp), its requests               *)
(* (tools/tui/protocol.cpp) and the accept loop of the host they reach     *)
(* (tools/tui/host.cpp).  Which host a request reaches is Endpoint, the    *)
(* promise that Ownership implements.                                      *)
(*                                                                         *)
(* The UI thread and the network thread share two queues.  Each request    *)
(* has its own connection and a deadline of its own: a request that timed  *)
(* out stays in the listener's queue and is still executed.  A host        *)
(* executes requests in the order of their connections.  The subject is    *)
(* its inbox, its head and the number of messages it has settled; the      *)
(* worker's pass is one step here and is modelled in full by Host.  An     *)
(* image message takes the same path as a text, and a request that only    *)
(* reads (memory, inspect, since, why-awake) occupies the threads as the   *)
(* periodic snapshot does.  Watch mode only disables Enter, and F5 leaves  *)
(* it at any time: a user who watches is one who enters nothing.  What is  *)
(* drawn on the screen is left out, except the snapshot that evidence is   *)
(* bound to.                                                               *)
(***************************************************************************)
EXTENDS Endpoint, Naturals, Sequences, FiniteSets

CONSTANTS
    ClientSocket,   \* --socket
    Drafts,         \* texts the user writes
    Empty,          \* the input without a text
    Nothing,        \* no call, no snapshot, no staged evidence
    ListenBacklog,  \* connections that wait for accept: 16
    InputBound,     \* bounds for model checking: drafts and controls entered,
    CommitBound,    \* transitions of a subject,
    JobBound,       \* jobs and
    ResultBound     \* results in the queues

\* What a view shows of a subject, and a request.
ViewRow == [db : Databases, head : Nat, occasion : Nat]
JobRow ==
    [op : {"send", "pause", "resume", "evidence", "snapshot"}, text : Drafts \cup {Empty},
     key : Nat, about : ViewRow \cup {Nothing}, n : Nat]

ASSUME ClientAssumption ==
    /\ ClientSocket \in Sockets
    /\ Nobody \notin Databases
    /\ Empty \notin Drafts
    /\ Nothing \notin JobRow
    /\ ListenBacklog \in Nat \ {0}

VARIABLES
    input,       \* the text in the entry
    retry,       \* [text, key]: retry_text and retry_key
    pending,     \* a send is in flight
    connected, snapshot,  \* of the view
    jobs, results,  \* the queues between the threads
    call,        \* the job the network thread waits for, or Nothing
    calls,       \* connections of the listener, oldest first: [job, open]
    control,     \* of the host behind ClientSocket: [paused, staged]
    inbox,       \* database -> rows [key, text] in order of arrival
    subject,     \* database -> [head, settled]
    typed,       \* history: the drafts written
    saved,       \* history: the drafts acknowledged, [text, key]
    issued,      \* history: number of host controls entered
    bound,       \* history: [n, about] of the controls entered
    held         \* history: the last control was a pause and was acknowledged

uiVars == <<input, retry, pending, connected, snapshot>>
queueVars == <<jobs, results, call>>
hostVars == <<calls, control, inbox, subject>>
historyVars == <<typed, saved, issued, bound, held>>
clientVars == <<server, uiVars, queueVars, hostVars, historyVars>>

NoKey == 0
NoRetry == [text |-> Empty, key |-> NoKey]

Job(op, text, key, about, n) ==
    [op |-> op, text |-> text, key |-> key, about |-> about, n |-> n]

Sending(job) == job.op = "send"

\* Store::schedule: the head and the pending external occasion, 0 for none.
\* Ids are content hashes, so those of two databases differ.
schedule(d) ==
    [db |-> d, head |-> subject[d].head,
     occasion |-> IF subject[d].settled < Len(inbox[d]) THEN subject[d].settled + 1 ELSE 0]

\* Control of a process that has just started.
StartedPaused == [paused |-> TRUE, staged |-> Nothing]

ClientInit ==
    /\ EndpointInit
    /\ input = Empty /\ retry = NoRetry /\ pending = FALSE
    /\ connected = FALSE /\ snapshot = Nothing
    /\ jobs = <<>> /\ results = <<>> /\ call = Nothing
    /\ calls = <<>>
    /\ control = StartedPaused
    /\ inbox = [d \in Databases |-> <<>>]
    /\ subject = [d \in Databases |-> [head |-> 0, settled |-> 0]]
    /\ typed = <<>> /\ saved = <<>>
    /\ issued = 0 /\ bound = {} /\ held = FALSE

-----------------------------------------------------------------------------
(* The UI thread.                                                          *)

\* Mutant: the entry is editable while a send is in flight.
WriteAnytime(x) ==
    /\ x # input
    /\ Len(typed) + issued < InputBound
    /\ input' = x
    /\ typed' = Append(typed, x)
    /\ UNCHANGED <<retry, pending, connected, snapshot, queueVars, saved, issued, bound, held>>

\* Events reach the entry unless a send is in flight.
Write(x) ==
    /\ ~pending
    /\ x # input
    /\ Len(typed) + issued < InputBound
    /\ input' = x
    /\ typed' = Append(typed, x)
    /\ UNCHANGED <<retry, pending, connected, snapshot, queueVars, saved, issued, bound, held>>

\* Ctrl+C.
Clear ==
    /\ ~pending
    /\ input # Empty
    /\ input' = Empty
    /\ UNCHANGED <<retry, pending, connected, snapshot, queueVars, historyVars>>

enqueue(job) ==
    /\ Len(jobs) < JobBound
    /\ jobs' = Append(jobs, job)
    /\ UNCHANGED <<results, call>>

\* ui::nonce: a key that was never used.
nonce == Len(typed)

\* Mutant: a key for every Enter.
RetryFresh == [text |-> input, key |-> retry.key + 1]

\* A text that was not saved keeps its key.
Retry == IF input # retry.text THEN [text |-> input, key |-> nonce] ELSE retry

\* command(): a message or an image.
Send ==
    /\ ~pending
    /\ input # Empty
    /\ retry' = Retry
    /\ pending' = TRUE
    /\ enqueue(Job("send", input, retry'.key, Nothing, 0))
    /\ UNCHANGED <<input, connected, snapshot, historyVars>>

\* command(): pause, resume and evidence, typed over whatever the entry held.
\* Evidence names what the view shows.
Issue(op) ==
    /\ ~pending
    /\ Len(typed) + issued < InputBound
    /\ op = "evidence" => connected /\ snapshot.occasion # 0
    /\ LET about == IF op = "evidence" THEN snapshot ELSE Nothing
       IN  /\ enqueue(Job(op, Empty, NoKey, about, issued + 1))
           /\ bound' = bound \cup {[n |-> issued + 1, about |-> about]}
    /\ input' = Empty
    /\ issued' = issued + 1
    /\ held' = FALSE
    /\ UNCHANGED <<retry, pending, connected, snapshot, typed, saved>>

Results == {results[i] : i \in DOMAIN results}

\* Event::Custom: the whole batch of results, in order.
Drain ==
    LET polls == {i \in DOMAIN results : results[i].job.op = "snapshot"}
        good  == {i \in polls : results[i].ok}
        last(S) == CHOOSE i \in S : \A j \in S : j <= i
        done  == \E r \in Results : Sending(r.job) /\ r.ok
        pause == \E r \in Results : r.job.op = "pause" /\ r.ok /\ r.job.n = issued
    IN  /\ results # <<>>
        /\ results' = <<>>
        /\ connected' = IF polls = {} THEN connected ELSE results[last(polls)].ok
        /\ snapshot' = IF good = {} THEN snapshot ELSE results[last(good)].data
        /\ pending' = (pending /\ \A r \in Results : ~Sending(r.job))
        /\ input' = IF done THEN Empty ELSE input
        /\ retry' = IF done THEN NoRetry ELSE retry
        /\ saved' = IF done THEN Append(saved, retry) ELSE saved
        /\ held' = (held \/ pause)
        /\ UNCHANGED <<jobs, call, typed, issued, bound>>

UI ==
    /\ \/ \E x \in Drafts : Write(x)
       \/ Clear
       \/ Send
       \/ \E op \in {"pause", "resume", "evidence"} : Issue(op)
       \/ Drain
    /\ UNCHANGED <<server, hostVars>>

-----------------------------------------------------------------------------
(* The network thread: ui::request.                                        *)

\* The job of the next round: the oldest one, or a snapshot.
NextJob == IF jobs = <<>> THEN Job("snapshot", Empty, NoKey, Nothing, 0) ELSE Head(jobs)
Dequeued == IF jobs = <<>> THEN jobs ELSE Tail(jobs)

Result(job, ok, data) == [job |-> job, ok |-> ok, data |-> data]

\* connect() finds a listener with room in its queue.
Reachable == server[ClientSocket] # Nobody /\ Len(calls) < ListenBacklog

\* connect() and the request frame.
Connect ==
    /\ call = Nothing
    /\ Len(results) < ResultBound
    /\ Reachable
    /\ jobs' = Dequeued
    /\ call' = NextJob
    /\ calls' = Append(calls, [job |-> NextJob, open |-> TRUE])
    /\ UNCHANGED <<results, control, inbox, subject>>

\* Mutant: a job is dropped when there is no host.
UnavailableSilent ==
    /\ call = Nothing
    /\ Len(results) < ResultBound
    /\ ~Reachable
    /\ jobs' = Dequeued
    /\ UNCHANGED <<results, call, hostVars>>

\* No socket, nobody behind it, or no room within the deadline.
Unavailable ==
    /\ call = Nothing
    /\ Len(results) < ResultBound
    /\ ~Reachable
    /\ jobs' = Dequeued
    /\ results' = Append(results, Result(NextJob, FALSE, Nothing))
    /\ UNCHANGED <<call, hostVars>>

\* The listener's queue once the client has closed its connection.
Abandoned == [i \in DOMAIN calls |-> [calls[i] EXCEPT !.open = FALSE]]

\* Mutant: a request that timed out is tried again.
TimeOutRetries ==
    /\ call # Nothing
    /\ results' = Append(results, Result(call, FALSE, Nothing))
    /\ call' = Nothing
    /\ jobs' = Append(jobs, call)
    /\ calls' = Abandoned
    /\ UNCHANGED <<control, inbox, subject>>

\* SO_RCVTIMEO passes, or the host is gone: the result is an error, and a
\* request that was delivered stays in the queue.
TimeOut ==
    /\ call # Nothing
    /\ results' = Append(results, Result(call, FALSE, Nothing))
    /\ call' = Nothing
    /\ calls' = Abandoned
    /\ UNCHANGED <<jobs, control, inbox, subject>>

Network ==
    /\ Connect \/ Unavailable \/ TimeOut
    /\ UNCHANGED <<server, uiVars, historyVars>>

-----------------------------------------------------------------------------
(* The accept loop and the worker of the host behind ClientSocket.         *)

\* The reply is written to the oldest connection, and reaches the client if it
\* is still open.  A reply that is lost leaves what a request leaves that timed
\* out just before it was executed.
Reply(ok, data) ==
    /\ calls' = Tail(calls)
    /\ IF Head(calls).open
       THEN results' = Append(results, Result(call, ok, data)) /\ call' = Nothing
       ELSE UNCHANGED <<results, call>>
    /\ UNCHANGED jobs

Db == server[ClientSocket]
Request == Head(calls).job

Accepts(ops) == Db # Nobody /\ calls # <<>> /\ Request.op \in ops

\* Store::submit: a key that is known names the row it has, and a different
\* text under it is refused.
Submit ==
    LET same == {i \in DOMAIN inbox[Db] : inbox[Db][i].key = Request.key}
        row  == [key |-> Request.key, text |-> Request.text]
    IN  /\ Accepts({"send"})
        /\ inbox' = IF same = {} THEN [inbox EXCEPT ![Db] = Append(@, row)] ELSE inbox
        /\ Reply(\A i \in same : inbox[Db][i] = row, Nothing)
        /\ UNCHANGED <<control, subject>>

PauseOrResume ==
    /\ Accepts({"pause", "resume"})
    /\ control' = [control EXCEPT !.paused = (Request.op = "pause")]
    /\ Reply(TRUE, Nothing)
    /\ UNCHANGED <<inbox, subject>>

\* Mutant: evidence is accepted for whatever is pending.
BindsAnything(about) == about # Nothing

\* The head and the occasion that evidence names are the current ones.
Binds(about) == about = schedule(Db)

\* Evidence is staged while the host is paused with a message pending.
Evidence ==
    LET ok == control.paused /\ schedule(Db).occasion # 0 /\ Binds(Request.about)
    IN  /\ Accepts({"evidence"})
        /\ control' = IF ok
                      THEN [paused |-> FALSE, staged |-> [n |-> Request.n, about |-> schedule(Db)]]
                      ELSE control
        /\ Reply(ok, Nothing)
        /\ UNCHANGED <<inbox, subject>>

\* snapshot.
Look ==
    /\ Accepts({"snapshot"})
    /\ Reply(TRUE, schedule(Db))
    /\ UNCHANGED <<control, inbox, subject>>

\* A request that fails before it changes anything: its frame did not arrive
\* within the host's deadline, or the audit or the database refused a write.
Decline ==
    /\ Db # Nobody /\ calls # <<>>
    /\ Reply(FALSE, Nothing)
    /\ UNCHANGED <<control, inbox, subject>>

\* A transition of subject d: a pending message or a wake.
Advance(d) ==
    /\ subject[d].head < CommitBound
    /\ \E settles \in {x \in {0, 1} : x = 1 => schedule(d).occasion # 0} :
          subject' = [subject EXCEPT ![d] = [head |-> @.head + 1, settled |-> @.settled + settles]]

\* The worker: a pass that is not paused commits, or fails and pauses.  Staged
\* evidence is spent either way.
Work ==
    /\ Db # Nobody
    /\ ~control.paused
    /\ \/ Advance(Db) /\ control' = [control EXCEPT !.staged = Nothing]
       \/ control' = StartedPaused /\ UNCHANGED subject
    /\ UNCHANGED <<calls, inbox, queueVars>>

HostSide ==
    /\ Submit \/ PauseOrResume \/ Evidence \/ Look \/ Decline \/ Work
    /\ UNCHANGED <<server, uiVars, historyVars>>

\* The processes: a listener ends with the connections in its queue, and a
\* host begins paused.
Processes ==
    /\ EndpointNext
    /\ IF server'[ClientSocket] = server[ClientSocket]
       THEN UNCHANGED <<calls, control>>
       ELSE calls' = <<>> /\ control' = StartedPaused
    /\ UNCHANGED <<uiVars, queueVars, inbox, subject, historyVars>>

ClientNext == UI \/ Network \/ HostSide \/ Processes

ClientSpec == ClientInit /\ [][ClientNext]_clientVars

-----------------------------------------------------------------------------
Rows(d, x) == {i \in DOMAIN inbox[d] : inbox[d][i].text = x}

\* A draft reaches each inbox at most once, however often it is sent again
\* and however late a request that timed out is executed; and every
\* acknowledged draft has a row of its own, which no other draft shares.
RowsMatchDrafts ==
    /\ \A x \in Drafts, d \in Databases :
          Cardinality(Rows(d, x)) <= Cardinality({i \in DOMAIN typed : typed[i] = x})
    /\ \A i \in DOMAIN saved :
          /\ \E d \in Databases : \E row \in DOMAIN inbox[d] : inbox[d][row] = saved[i]
          /\ \A j \in DOMAIN saved : saved[i].key = saved[j].key => i = j

\* "A failed send preserves input": while a send is in flight the entry keeps
\* its text, until that very text is in an inbox.
DraftsAreKept ==
    [][pending /\ input' # input
        => \E d \in Databases : Rows(d, input) # {}]_clientVars

\* A pause that was acknowledged, and after which no other control was entered,
\* holds: no request that timed out or was retried, and no restart, resumes.
PauseHolds == held => control.paused

\* Evidence that a host has staged is about the head and the message that were
\* displayed when it was entered.
EvidenceReachesItsRequest ==
    control.staged # Nothing =>
        /\ control.staged \in bound
        /\ control.staged.about.db = Db

\* The entry is locked exactly while one send is on its way through the queues:
\* no failure of a connection leaves it locked.
SendIsOwed ==
    Cardinality({i \in DOMAIN jobs : Sending(jobs[i])})
      + Cardinality({i \in DOMAIN results : Sending(results[i].job)})
      + Cardinality({c \in {call} : c # Nothing /\ Sending(c)})
    = IF pending THEN 1 ELSE 0
=============================================================================
