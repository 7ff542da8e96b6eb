------------------------------- MODULE Memory -------------------------------
(***************************************************************************)
(* Typed memory of one subject (src/memory.cpp): notes deposited by        *)
(* commits, their versions, sources and compaction, the projection that    *)
(* an admission shows, the capacity check of a commit, verification and    *)
(* the rebuild of a lost index.                                            *)
(*                                                                         *)
(* An entry's position is its id.  A text is its length.  The type "note"  *)
(* stands for fact, episode and prospective too, which memory.cpp treats   *)
(* alike; ranking and candidate limits only choose among what fits next to *)
(* the required entries, so a view holds any fitting choice.  Each         *)
(* admission brings the policy of its own executor.                        *)
(***************************************************************************)
EXTENDS Naturals, Sequences, FiniteSetsExt

CONSTANTS
    Workloads,        \* deployments: what proposals use, and the executors' policies
    Besides,          \* what a projection holds beside the entries
    EntryBound,       \* bound on deposits, for model checking
    AttemptBound      \* bound on admissions, for model checking

ASSUME MemoryAssumption ==
    /\ \A w \in Workloads :
          /\ w.types \subseteq {"note", "task", "summary", "procedure"}
          /\ w.sizes \subseteq Nat \ {0}
          /\ \A policy \in w.policies :
                /\ policy.strategy \in {"balanced", "lexical", "task_maintenance", "none"}
                /\ {policy.items, policy.bytes} \subseteq Nat
          /\ w.notes \in Nat /\ w.cites \in BOOLEAN /\ w.legacy \subseteq BOOLEAN
          /\ w.widths \subseteq Nat
    /\ Besides \subseteq [items : Nat, bytes : Nat, room : Nat]
    /\ {EntryBound, AttemptBound} \subseteq Nat

VARIABLES
    entries,   \* memory_entries with its links, in insertion order
    commits,   \* committed proposals and the attempts they came from
    attempts,  \* admissions with their policies and recorded views
    workload   \* the deployment, which never changes

memoryVars == <<entries, commits, attempts, workload>>

Keys == workload.keys               \* note keys
Types == workload.types             \* the note types proposals use
Sizes == workload.sizes             \* text lengths
NotesPerCommit == workload.notes    \* output_limits::notes

\* MemoryPolicy per executor: strategy ("none": no policy), max_items, and
\* max_bytes less the fixed part of its view (in the capacity check that part
\* names the default strategy and candidate limit: a few bytes more or less).
Policies == workload.policies

tick == Len(commits)
Ids(db) == 1 .. Len(db)
Bytes(db, ids) == MapThenSumSet(LAMBDA i : db[i].size, ids)

-----------------------------------------------------------------------------
(* Deposits: validate_memory_notes and memory_apply.                       *)

Settled == {"closed", "retracted"}

\* The rules on one note that need no index.
WellFormed(n) ==
    /\ n.status \in {"open", "closed"} => n.type = "task"
    /\ n.covers \subseteq n.sources
    /\ n.covers # {} => n.type = "summary" /\ n.status = "active"
    /\ n.type = "summary" => n.sources # {}
    /\ n.type = "procedure" /\ n.status # "retracted" => n.sources # {}

\* Mutant: a summary may condense another summary.
SourceAllowedRecursive(db, n, s, writing, at) ==
    /\ s \in Ids(db) /\ db[s].tick < at
    /\ n.type = "procedure" => db[s].status # "retracted" /\ db[s].type # "summary"
    /\ n.type = "summary" => db[s].current /\ db[s].status # "retracted" /\ db[s].key \notin writing
    /\ s \in n.covers => db[s].status # "open"

\* What a note of commit `at' may cite: earlier deposits; a procedure, evidence
\* that was not retracted; a summary, current originals that this commit does
\* not overwrite, and among them it may condense all but open tasks.
SourceAllowed(db, n, s, writing, at) ==
    /\ s \in Ids(db) /\ db[s].tick < at
    /\ n.type = "procedure" => db[s].status # "retracted" /\ db[s].type # "summary"
    /\ n.type = "summary" =>
          /\ db[s].current /\ db[s].status # "retracted"
          /\ db[s].type # "summary"
          /\ db[s].key \notin writing
    /\ s \in n.covers => db[s].status # "open"

\* An open task is overwritten only by a task: reworded, closed or retracted.
Resolves(db, n) ==
    \A i \in Ids(db) :
        db[i].key = n.key /\ db[i].current /\ db[i].status = "open" =>
            n.type = "task" /\ n.status \in {"open"} \cup Settled

Depositable(db, n, writing, at) ==
    /\ WellFormed(n)
    /\ \A s \in n.sources : SourceAllowed(db, n, s, writing, at)
    /\ n.covers # {} => n.size < Bytes(db, n.covers)
    /\ Resolves(db, n)

\* The new version supersedes the current one of its key.
Deposited(db, n, at) ==
    Append([i \in Ids(db) |-> IF db[i].key = n.key THEN [db[i] EXCEPT !.current = FALSE] ELSE db[i]],
           [key |-> n.key, type |-> n.type, status |-> n.status, size |-> n.size,
            sources |-> n.sources, covers |-> n.covers, tick |-> at, current |-> TRUE])

\* memory_apply: {the index after the notes}, or {} if one of them is refused.
memory_apply(db, notes, at) ==
    LET writing == {notes[i].key : i \in 1 .. Len(notes)}
        after[i \in 0 .. Len(notes)] ==
            IF i = 0 THEN {db}
            ELSE {Deposited(d, notes[i], at) :
                    d \in {e \in after[i - 1] : Depositable(e, notes[i], writing, at)}}
    IN  IF Cardinality(writing) = Len(notes) THEN after[Len(notes)] ELSE {}

-----------------------------------------------------------------------------
(* Retrieval: memory_candidates and project_memory.                        *)

Live(e) == e.current /\ e.status # "retracted"
Fresh(db, i) == \A s \in db[i].sources : db[s].current

\* current_filter: a summary whose source was replaced is left out.
Current(db) == {i \in Ids(db) : Live(db[i]) /\ (db[i].type = "summary" => Fresh(db, i))}

\* Not uncovered_filter: condensed by a live and fresh summary.
Covered(db) == {i \in Ids(db) : \E c \in Ids(db) : i \in db[c].covers /\ Live(db[c]) /\ Fresh(db, c)}

RecentLane(db) == Current(db) \ Covered(db)

OpenTasks(db) == {i \in Current(db) : db[i].type = "task" /\ db[i].status = "open"}

Protects(strategy) == strategy = "balanced"   \* hybrid and semantic too

\* Mutant: the query for open tasks stops at max_items.
RequiredLimited(db, policy, named) ==
    CASE Protects(policy.strategy) ->
            IF Cardinality(OpenTasks(db)) <= policy.items THEN OpenTasks(db)
            ELSE CHOOSE s \in SUBSET OpenTasks(db) : Cardinality(s) = policy.items
      [] policy.strategy = "task_maintenance" -> named
      [] OTHER -> {}

Required(db, policy, named) ==
    CASE Protects(policy.strategy) -> OpenTasks(db)
      [] policy.strategy = "task_maintenance" -> named
      [] OTHER -> {}

\* What the lexical, semantic, procedure and recent lanes choose from.
Optional(db, strategy, history) ==
    IF strategy \in {"task_maintenance", "none"} THEN {}
    ELSE IF history THEN Ids(db) ELSE Current(db)

\* The view states the number of deposits: its fixed part grows with the digits.
Envelope(db) == Cardinality({n \in Ids(db) : n \in workload.widths})

\* The budget of a policy holds the entries `ids' beside legacy keys, which are
\* items too, and the bytes that these, the query and the counts take.
Fits(db, ids, policy, beside) ==
    /\ beside.items + Cardinality(ids) <= policy.items
    /\ beside.bytes + Envelope(db) + Bytes(db, ids) <= policy.bytes

\* valid() in project_memory: the budget and, at an admission, the executor's own
\* check of the context, which leaves `room' bytes for the view.
ValidView(db, ids, policy, beside) ==
    /\ Fits(db, ids, policy, beside)
    /\ beside.bytes + Envelope(db) + Bytes(db, ids) <= beside.room

\* Task maintenance, and nothing else, names tasks.
policy_ok(strategy, named) == (strategy = "task_maintenance") <=> (named # {})

\* Mutant: an entry is labelled by the index of today.
wire_at_now(db, i, at) ==
    [id |-> i, current |-> db[i].current, stale |-> db[i].type = "summary" /\ ~Fresh(db, i)]

\* How an entry is shown and recorded at a tick: whether it, and a summary's
\* sources, were the latest versions of their keys.
wire_at(db, i, at) ==
    LET versions(j) == {v \in Ids(db) : db[v].key = db[j].key /\ db[v].tick <= at}
        latest(j) == j \in versions(j) /\ \A v \in versions(j) : v <= j
    IN  [id |-> i, current |-> latest(i),
         stale |-> db[i].type = "summary" /\ \E s \in db[i].sources : ~latest(s)]

-----------------------------------------------------------------------------
(* The guards of a commit.                                                 *)

\* Mutant: maintenance may settle any task.
SettlesShownAny(db, n, view) == n.status \in Settled /\ n.sources = {}

\* A shown open task, with unchanged terms.
SettlesShown(db, n, view) ==
    /\ n.status \in Settled /\ n.sources = {} /\ n.covers = {}
    /\ \E i \in {item.id : item \in view} :
          db[i].key = n.key /\ db[i].size = n.size /\ db[i].status = "open"

memory_transition(db, proposal, a) ==
    a.policy.strategy = "task_maintenance" =>
        /\ ~proposal.legacy
        /\ \A i \in 1 .. Len(proposal.notes) :
              proposal.notes[i].type = "task" => SettlesShown(db, proposal.notes[i], a.view)

\* Mutant: only the number of open tasks is checked.
memory_capacity_items(db, a) ==
    Protects(a.policy.strategy) => Cardinality(OpenTasks(db)) <= a.policy.items

\* The open tasks must fit the admission's own budget: projected without a query
\* and without the executor's check.
memory_capacity(db, a) ==
    Protects(a.policy.strategy) =>
        Fits(db, Required(db, a.policy, {}), a.policy, [items |-> 0, bytes |-> 0])

\* The index after a commit, if nothing of it is refused.
Transition(db, proposal, a, at) ==
    {after \in memory_apply(db, proposal.notes, at) :
        memory_transition(db, proposal, a) /\ memory_capacity(after, a)}

\* The commits replayed into an empty index; {} if one of them is refused.
Replay ==
    LET after[n \in 0 .. tick] ==
            IF n = 0 THEN {<<>>}
            ELSE UNION {Transition(db, commits[n], attempts[commits[n].attempt], n) :
                            db \in after[n - 1]}
    IN  after[tick]

\* memory_verify on the admissions: recorded views match the history.
ContextsMatch(db) ==
    \A a \in 1 .. Len(attempts) : \A item \in attempts[a].view :
        /\ item.id \in Ids(db)
        /\ db[item.id].tick <= attempts[a].tick
        /\ item = wire_at(db, item.id, attempts[a].tick)

Intact == Replay = {entries}

-----------------------------------------------------------------------------
(* Operations.                                                             *)

MemoryInit ==
    /\ entries = <<>> /\ commits = <<>> /\ attempts = <<>>
    /\ workload \in Workloads

\* Store::admit: the view is projected at the head and recorded.  Required entries
\* that are not valid alone refuse the admission.
AdmitView(policy, named, history, beside, chosen) ==
    LET shown == Required(entries, policy, named) \cup chosen
    IN  /\ Len(attempts) < AttemptBound
        /\ named \subseteq OpenTasks(entries)
        /\ policy_ok(policy.strategy, named)
        /\ chosen \subseteq Optional(entries, policy.strategy, history)
        /\ policy.strategy # "none" => ValidView(entries, shown, policy, beside)
        /\ attempts' = Append(attempts, [tick |-> tick, policy |-> policy,
                                         view |-> {wire_at(entries, i, tick) : i \in shown}])
        /\ UNCHANGED <<entries, commits, workload>>

\* Store::commit of an attempt that was admitted at the head; `legacy': the
\* proposal changes the legacy memory or asks for a wake.
CommitNotes(a, notes, legacy) ==
    LET proposal == [attempt |-> a, notes |-> notes, legacy |-> legacy]
    IN  /\ attempts[a].tick = tick
        /\ Len(entries) + Len(notes) <= EntryBound
        /\ \E after \in Transition(entries, proposal, attempts[a], tick + 1) : entries' = after
        /\ commits' = Append(commits, proposal)
        /\ UNCHANGED <<attempts, workload>>

\* The derived rows are lost while no process runs.
LoseIndex ==
    /\ entries' = <<>>
    /\ UNCHANGED <<commits, attempts, workload>>

\* Store::rebuild_memory: the chain is verified, then the rows are replaced.
RebuildIndex ==
    /\ \E db \in Replay : ContextsMatch(db) /\ entries' = db
    /\ UNCHANGED <<commits, attempts, workload>>

Statuses == {"active", "open", "closed", "retracted"}

\* Proposed notes, which cite earlier entries or not: ill-formed ones are refused
\* by validate_memory_notes, so only the well-formed are enumerated.
Notes ==
    UNION {UNION {{n \in [key : Keys, type : Types, status : Statuses, size : Sizes,
                          sources : {sources}, covers : {covers}] : WellFormed(n)} :
                      covers \in SUBSET sources} :
               sources \in SUBSET {i \in Ids(entries) : workload.cites}}

\* A runtime verifies the subject before its first admission, and the index is
\* lost only while none runs: admissions and commits find it intact.
Steps ==
    \/ \E policy \in Policies, named \in SUBSET OpenTasks(entries), history \in BOOLEAN,
          beside \in Besides, chosen \in SUBSET Ids(entries) :
             AdmitView(policy, named, history, beside, chosen)
    \/ \E a \in {a \in 1 .. Len(attempts) : attempts[a].tick = tick}, legacy \in workload.legacy,
          length \in {n \in 0 .. NotesPerCommit : Len(entries) + n <= EntryBound} :
             \E notes \in [1 .. length -> Notes] : CommitNotes(a, notes, legacy)

MemoryNext == (Intact /\ Steps) \/ LoseIndex \/ RebuildIndex

MemorySpec == MemoryInit /\ [][MemoryNext]_memoryVars

-----------------------------------------------------------------------------
(* Properties.                                                             *)

\* The history verifies whatever was deposited: every commit is accepted again
\* in replay, and every recorded view keeps matching it, although later commits
\* supersede, retract or condense the entries it shows.  At the head the current
\* column, which the filters read, and the labels of views, computed from ticks,
\* never disagree.
MemoryVerifies ==
    /\ \E db \in Replay : ContextsMatch(db)
    /\ \A i \in Ids(entries) :
          /\ wire_at(entries, i, tick).current = entries[i].current
          /\ i \in Current(entries) => ~wire_at(entries, i, tick).stale

\* Compaction hides no evidence: a current entry that the recent lane leaves out
\* is condensed by a summary that the recent lane offers.
EvidenceIsReachable ==
    \A i \in Current(entries) :
        i \in RecentLane(entries) \/ \E c \in RecentLane(entries) : i \in entries[c].covers

\* Every view of a protecting strategy shows all tasks that were open at its
\* head, whatever was selected besides.
TasksAreShown ==
    \A db \in Replay : \A a \in 1 .. Len(attempts) : Protects(attempts[a].policy.strategy) =>
        \A i \in Ids(db) :
            /\ db[i].type = "task" /\ db[i].status = "open"
            /\ db[i].tick <= attempts[a].tick
            /\ wire_at(db, i, attempts[a].tick).current
            => \E item \in attempts[a].view : item.id = i

TasksEndShown ==
    \A i \in OpenTasks(entries) : tick' > tick =>
        LET a == attempts[commits'[tick'].attempt]
        IN  i \notin OpenTasks(entries)' =>
               /\ a.policy.strategy \in {"balanced", "task_maintenance"} => \E item \in a.view : item.id = i
               /\ \E j \in Ids(entries)' :
                     entries'[j].key = entries[i].key /\ entries'[j].type = "task"
                       /\ entries'[j].tick = tick'

\* A commit of a protecting or a maintenance admission ends an open task only
\* by a task note on its key, and only if the admission showed the task.
SettledTasksWereShown == [][TasksEndShown]_memoryVars

\* The open tasks keep within the items and bytes of the protecting policy whose
\* commit was last checked against them, whatever maintenance commits under other
\* budgets follow.  (Room for them is all that is kept: the query, the digits of
\* the counts, an executor's smaller policy or its own check of the context can
\* still refuse the next admission.)
OpenTasksFit ==
    \A n \in 1 .. tick :
        LET policy(m) == attempts[commits[m].attempt].policy
        IN  /\ Protects(policy(n).strategy)
            /\ \A m \in n + 1 .. tick : policy(m).strategy = "task_maintenance"
            => /\ Cardinality(OpenTasks(entries)) <= policy(n).items
               /\ Bytes(entries, OpenTasks(entries)) <= policy(n).bytes
=============================================================================
