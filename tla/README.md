# A verification project for cogg

cogg keeps *subjects*: long-lived agents whose only durable progress is a chain
of committed transitions in one SQLite file. This directory models the part of
the program that decides what may enter that chain, when, and by whom, checks it
with TLC on small instances, and proves the central results with TLAPS for every
configuration.

Paths below are relative to the repository.

## 1. The system

| Part | State | Operations | Where |
| --- | --- | --- | --- |
| Store | per subject: tick, head, wake, accounting clock; inbox (occasions), admissions (attempts), commits, failure index, abstention receipts | `create`, `submit`, `admit`, `commit`, `abstain`, `fail`, `schedule`, `verify` | `src/kernel.cpp` |
| Limiter | none: computed from the admission instants | `budget`, `wake_plan` | `src/kernel.cpp` |
| Runtime | the step under way | `Runtime::step`, `step_result`, `execute_attempt` | `src/kernel.cpp` |
| Routing | executors, sessions; the route under way | `Registry::add/enable/evict/session`, `RoutedRuntime::step` | `src/routing.cpp` |
| Memory | notes, links, full-text index | `memory_apply`, `memory_transition`, `memory_capacity`, projection, rebuild | `src/memory.cpp` |
| Self state | profile, tasks, one-shot grants, cache per head | `SelfRuntime::step`, guards, replay | `src/self_state.cpp` |
| Checkpoints, llama cache | checkpoint file, cached context | `write_checkpoint`, `restore`, `committed` | `src/checkpoint.cpp`, `src/llama_backend.cpp` |
| Perception | image receipts | `image_context`, `ImageActor` | `src/perception.cpp` |
| Host | paused, running, staged evidence; its locks, socket and database | startup, worker thread, IPC operations, shutdown | `tools/tui/host.cpp` |
| TUI client | entry, retry key, send in flight, view; two queues | commands, network thread, requests with deadlines | `tools/tui/main.cpp`, `tools/tui/protocol.cpp` |
| HTTP backend | none that outlives a call | one call, its failures and whom they blame | `src/http_backend.cpp` |
| Outcome parsing, CLI | none that outlives a call | parsing, one call of the store each | `src/outcome.cpp`, `tools/main.cpp` |

**How the parts interact.** Any number of processes open the same file. A worker
asks `schedule`/`admit` for the next occasion, which reserves an *attempt* at the
current head and spends quota; runs inference outside every transaction; then
settles the attempt by `commit`, `abstain` or `fail`, each one SQLite write
transaction. A commit consumes the occasion, moves the head, replaces the wake
and supersedes every other reservation at the old head. An attempt whose process
dies stays reserved. Repeated invalid outputs make the kernel itself settle the
occasion (a *disposition*). A host process serves one subject of one database
behind one Unix socket; clients send it one request per connection, and a request
whose client has given up waiting is executed all the same.

**What is hard.** Decisions made before inference are used after it, when other
workers may have advanced the subject. The wall clock may jump and roll back
between processes. Admission decisions, made by SQL over a live table, must
replay bit for bit from a table that has grown since. Error paths of a step are
transactions of their own. A message no backend can digest must not block the
inbox, and an outage must not make the kernel drop a healthy message. A request
that timed out may have happened, may still happen, or may not happen at all, and
the host behind a socket may have been replaced in between.
`PROJECT.json` lists each such hazard at its line.

**What makes each part correct.** Limiter: never more than the quota, exact
publication of the next eligible instant, live decision equal to its replay.
Store: one linear history, messages settled once and in order, wakes current and
due, no lost wake, nothing rewritten, every reachable file accepted by `verify`.
Runtime: reports agree with the store, no reservation leaked or settled by another,
diagnosed outages preserve the occasion, progress. Routing: at most one transition
per route, at one head. Host processes: one owner of a database and of a
socket path, whatever was killed before. Client: a draft is stored once and not
lost, and a control means what it meant when it was entered.

## 2. Modules

| Module | Models | Extends |
| --- | --- | --- |
| `Budget` | `budget` (SQL form `LiveBudget`, replay form `ReplayBudget`) and `wake_plan` | |
| `Kernel` | one subject of the store; one action per transaction | `Budget` |
| `Verify` | `verify_impl` and `verify_head`, one operator per group of checks | `Kernel` |
| `Ledger` | the abstract specification: accepted messages, history, an armed wake | |
| `KernelRefinement` | the refinement mapping from `Kernel` to `Ledger` | `Kernel` |
| `Http` | one call of `HttpBackend`: what can go wrong and the `FailureKind` it becomes | |
| `Runtime` | workers: `Runtime`, `RoutedRuntime`, `SelfRuntime`, `Registry`, `execute_attempt`, crashes | `Kernel`, `Http` |
| `Progress` | polling workers under fairness and a clock | `Runtime` |
| `Host` | the TUI host: worker thread, operator, staged evidence, images | `Runtime` |
| `Endpoint` | the abstract specification of the host processes: who answers on a socket path | |
| `Ownership` | start and end of host processes: locks, socket path, database file; mapped to `Endpoint` | |
| `Client` | the TUI client, its requests, and the accept loop they reach | `Endpoint` |
| `SelfState` | the self-state policy: grants, replay, cache per head, guard in the store | |
| `Memory` | typed notes, projection, capacity, verification and rebuild of the index | |
| `Checkpoint` | the checkpoint file protocol and the llama cache it feeds | |
| `KernelProofs`, `RuntimeProofs`, `HostProofs`, `ClientProofs`, `SelfStateProofs`, `MemoryProofs`, `CheckpointProofs`, `OwnershipProofs` | theorems | |
| `MCKernel`, `MCRuntime`, `MCProgress`, `MCHost`, `MCSelfState`, `MCMemory`, `MCCheckpoint`, `MCOwnership`, `MCClient` | instances for TLC | |

`Kernel`, `Runtime`, `Progress` and `Host` are one composition: a host's worker
runs a runtime's step, whose transactions are the store's. `SelfState`, `Memory`
and `Checkpoint` are beside it: each takes from the store only the chain of
commits (an attempt commits at the head it was admitted at), so the store is
reduced to that chain there, and each adds state the others never read.
`Client` and `Ownership` meet in `Endpoint`: `Ownership` implements it, and
`Client` takes its steps as the processes behind its socket. The worker of that
host is one step in `Client` and is modelled in full by `Host`.

### State and actions against the code

*Rows.* `occasions`, `attempts` and `commits` are the tables in `seq` (insertion)
order; a row's position stands for the content hash the code uses as its id.
`tick`, `head`, `wake`, `accounting_wall` are the columns of `subjects`.
`failures` is `occasion_failures`, `abstentions` the attempts with a receipt.
JSON bodies are reduced to the fields that `verify` or a later decision reads.

*Transactions.* Each operation of `Store` runs in one write transaction, so it is
one action; a call that throws is rolled back and is a stuttering step. The store
knows nothing of its callers, so `Kernel` lets anyone settle any reserved attempt
with any observed clock: this contains every schedule of workers, crashes, late
answers, retries and clock jumps.

*Workers.* In `Runtime` each worker has a program counter (`work[w].at`):
`idle`, `select` and `check` (the route's loop), `admit`, `owned` (the second
comparison of the head), `respond` (inference), `judge`, `settle` (the handler of
a failed commit) and `done`. Between two of them any worker may run. The
cancellation callback and the deadlines may turn true at any check. A backend
answers with a proposal, an abstention, one of the failures of `Http` (which has
them in the order the code can meet them, from a missing credential to content
that is no outcome), or (`mute`) an exception without a message. Only an
`invalid_output` counts against the occasion (`failure_scope`). A worker of mode `self` follows
`SelfRuntime::step`: it reads the schedule first, binds its grant and packets to
that head and occasion, and its proposal may be `ungranted`, which the guard
turns into an invalid output.

*Host.* `Control` (paused, running, staged evidence) and the worker thread's
position in its loop, around a worker of `Runtime`: poll, take the turn under the
mutex, prepare an image (binding, receipt, vision call, second look at the
schedule, merge), step, report. Its route has one executor. The operator pauses,
resumes and stages evidence at any moment; another process works on the same
subject; the host is stopped, or killed, during a step or between two. What an attempt received is kept so that bindings can be compared.

*Ownership.* A process is at the system call it makes next: the two `flock`s, the
check of the schema, the opening of the store (`file` is what the path holds:
nothing, a database without its subject, an older schema, a whole subject), the
check of the socket path, `unlink`, `bind`, `listen`, and on the way out the
destructors in the order C++ runs them. `path` is whose listener the socket file
names, or `Stale`; the kernel frees locks and orphans the path when a process
ends. A failed `require` unwinds at every step, and `Kill` runs no destructor.

*Client.* The UI thread (`Write`, `Clear`, `Send`, `Issue`, `Drain`), the network
thread (`Connect`, `Unavailable`, `TimeOut`) and the host's accept loop (`Submit`,
`PauseOrResume`, `Evidence`, `Look`, `Decline`, each with its reply) communicate
by two queues and the listener's backlog, whose entries survive their client's
patience but not their host. `inbox` and `subject` are what the databases keep
when the host behind the socket restarts or gives way to a host of another
database. The history variables record what was typed, what was acknowledged and
what each control was about. A key is the number of drafts written before: `nonce`
gives 128 random bits, so a new key is a key never used.

*Self state.* `history` is the chain of commits with the self packet of each
admission; `replay` folds the policy over it and gives `{}` for its errors.
Each `SelfRuntime` loads (from its cache if the head matches), admits under a
grant, answers, commits or loses the race. Other writers commit without a packet
and, if `Guarded`, through the guard of `install_self_guard`. Profiles and terms
are model values; the byte limits of views are reduced to their 16-commitment
limit (`MaxOpen`).

*Memory.* `entries` is `memory_entries` with its links, `commits` the notes of
each commit, `attempts` the admissions with the policy of their executor and their recorded
views. An admission projects and records a view beside what else takes room
(`Besides`: legacy keys and the query; the executor's own check); a commit runs `memory_transition`, `memory_apply`
and `memory_capacity` and is refused as a whole if one of them refuses; the
derived rows may be lost while no process runs and are rebuilt by replay. A text
is its length. Ranking (BM25, synonyms, scorers, interleaving, candidate limits)
only decides which optional entries fill what required ones leave free: a view
holds any choice that fits.

*Checkpoint.* Per process: the native memory, the token vector that describes it,
the cached head, and the save under way, one action per system call (`open`,
`write`, `fsync`, `rename`, directory `fsync`). The directory distinguishes what
is visible from what survives a power failure. Corruption, crashes and a database
restored from a backup happen at any point.

*Left out of `Kernel`.* Payload sizes, text validation and content hashes;
`prior_unsettled` and the packet shown to the model, which decide nothing;
`inference_elapsed_ms`, which only moves a commit's instant to one another `now`
gives as well; the transition guard and memory rules, whose refusal is
`Runtime`'s `Reject`; other subjects, which share nothing but sequence numbers.

## 3. Runs

| Run | Question | Distinct states |
| --- | --- | --- |
| `kernel` | Do the limiter, wakes, reservations, inbox and history hold under any schedule and clock; is the store a ledger? | 292 000 |
| `routes` | Do a route and a racing `Runtime::step` report the truth; is a route one transition at one head; do outages spare the message? | 1 273 000 |
| `workers` | Who may leave a reservation behind, and who may settle it; where does evidence go? (a route and a self-state runtime) | 1 442 000 |
| `progress` | Does the inbox advance in spite of rejected messages, spent quota and a crash? | 87 000 |
| `checkpoint` | Are only whole checkpoints of accepted transitions published, whatever fails, and is a cache ever wrong? | 176 000 |
| `operator` | Does every fruitless attempt have an operator's decision; is a report neither lost nor used twice? | 332 000 |
| `images` | Does an observation reach only the head and occasion it was made for; is a pause final? | 966 000 |
| `self_state` | Is the cache the replay; do the two guards agree; does the history always replay, at the limit of open commitments too? | 271 000 |
| `memory` | Do recorded views keep verifying; does compaction hide evidence; are overloaded views refused rather than cut; does maintenance settle only what it showed; do open tasks keep within the budget they were checked against? | 1 093 000 |
| `ownership` | Can two processes own one database or one socket path, or a failing one take the path of a serving one? | 47 000 |
| `client` | Is a draft stored once and never lost; do pause and evidence mean what they meant when they were entered? | 3 732 000 |
| `images_guarded` | (violation) section 4 | |

**Properties.** `RateLimit`: two admissions are `min_wake_ms` apart and
`max_attempts + 1` consecutive ones span a period, whatever became of them.
`EligibilityIsExact`: the published `eligible_at` is ready and nothing before it
is. `WakeIsCurrentAndDue`: a wake that ran belonged to the head it advanced and
its deadline had been observed. `ReservationsAreLive`: a commit leaves no
reservation of an older head. `InboxOrder`, `ImplementsLedger`:
one linear history that settles each message once, in order of acceptance.
`HistoryVerifies`: every reachable file passes `verify`: chain, provenance,
dispositions, wake plans, replayed admission decisions, settlements, accounting.
`DispositionKeepsWake`: the wake survives a disposition, moved only as far as the
limits demand. `ReportsAreDurable`, `RouteStaysAtOneHead`,
`OrphansAreAbandoned`, `EvidenceIsBound`: as named, for
workers. `ReservationsAreSettledByTheirOwner`: only the worker whose step holds an
attempt fails, abstains, disposes or commits it; a commit of another one supersedes
it and nothing else takes it away. `DiagnosedOutagesPreserveOccasion`: a step that
settles an attempt after anything but a 2xx reply neither consumes its occasion nor
counts against it, if the failure left a diagnostic. An exception with an empty
message under a plain `Runtime::step` leaves none and does consume its occasion, so
"a failure preserves the occasion" is not true of the code as it stands (section 4).
`SubjectAdvances`: liveness.

`PromptIsCanonical`: the context the model is evaluated on is the canonical
prompt of the subject, and the token vector describes the native memory.
`PublishedIsComplete`, `PublishedIsAccepted`, `TemporariesAreOwned`: a checkpoint
path names a whole file of a committed head, and no failed save leaves its
temporary behind. `PauseIsFinal`: after an acknowledged pause with no turn under
way, no turn begins before a resume (a turn that was under way when the pause was
acknowledged may still be admitted). `EvidenceIsKept`, `OneAttemptPerReport`:
staged evidence is neither lost nor used twice. `NoInvisibleRetries`: after a
fruitless attempt the host waits for the operator. `PacketsAreBound`: an attempt
with an image packet is at the head and occasion the packet was made for.

`OwnersAreExclusive` (docs/TUI.md:182 "Socket and canonical database paths have
exclusive host locks"): one process per open database, the path of a serving host
leads to it, it serves a whole subject, and no host migrates a database.
`ImplementsEndpoint`: what clients meet behind the paths is `Endpoint`.
`RowsMatchDrafts`, `DraftsAreKept` (docs/TUI.md:149 "A failed send preserves input
and its idempotency key"): a draft has at most one row per database, an
acknowledged draft has one of its own, and the entry is only emptied of what is
stored. `PauseHolds`: an acknowledged pause is undone by no earlier, retried or
late request and by no restart. `EvidenceReachesItsRequest`: staged evidence is
about the head, message and database on the screen when it was entered.
`SendIsOwed`: the entry is locked exactly while one send is under way.

`HistoryReplays`, `CacheIsReplay`, `GuardsAgree`: the self-state policy, enforced in
three places (the runtime's guard, the store's guard, replay), is one policy. `MemoryVerifies`:
replay accepts every commit again, every recorded view keeps matching, and the
`current` column agrees with the labels computed from ticks.
`EvidenceIsReachable`: an entry missing from the recent lane is condensed by a
summary in that lane. `TasksAreShown`, `SettledTasksWereShown`: open tasks are
shown and are settled only when shown. `OpenTasksFit`: they keep within the items
and bytes of the protecting policy whose commit was last checked against them, as
long as only maintenance follows. It does not say that the next admission is
granted: the query, legacy keys, the digits of the deposit count, another
executor's smaller policy and its own check of the context all take room, and the
model refuses admissions for each of them.

Each property has a mutant of the model, a plausible slip in the code, that TLC
shows to violate it.

**Bounds.** `MaxMillis` is the largest instant, and it is reached: overflow and
its refusal are part of every run of the store but `progress`. `kernel` has a
quota of 2 per 3 ms and 4 attempts, so the window fills, empties and refuses; two outputs settle an
occasion and a third attempt can exceed the count; two message contents make a
key collide; plain and task maintenance admissions alternate. `routes` and `workers`
have three attempts, for the two executors of a route and a racing winner.
`routes` has a second message and an answer of every kind; `workers`
trades them for wakes, contexts, a crash, one session for two executors, and a
third executor between them that the route never admits (`step_result` is the other process of `images`). `AttemptBound`,
`CrashBound`, `WakeTicks`, `OperatorBound`, `LedgerBound`, `FaultBound`,
`CommitBound`, `EntryBound`, `InputBound`, `JobBound`, `ResultBound` and `MaxMillis`
are the only artificial limits. In
`progress`, `AttemptBound` exceeds the number of attempts any behaviour makes, so
it never stops one: per occasion at most the failure limit, plus one per crash.

`checkpoint` has two processes, two committed transitions and one fault, so that a
slow writer, a rollback and a crash between any two system calls meet (more
subjects, builds and longer outputs: section 5). `operator` has the host alone, so
that three decisions of the operator fit; `images` adds another process.
`self_state` has two commitments, room for one in a view, two runtimes, and a
writer without a guard that changes the profile; `HistoryReplays` speaks of the
behaviours in which it has not. `memory` has four workloads, one of which a
behaviour keeps: a notebook with
three text lengths, so that a summary of a summary would still be shorter than
what it condenses, and three admissions, so that views of different ages exist;
a task list with room for one short task, tasks that are too long, and
imports of two; two executors with room for one task and for two, and a third
deposit that lengthens the view; and one task with proposals that touch the legacy
memory. Each
admission finds nothing beside the entries, a legacy key or query, or an executor
whose own check leaves little room. `ownership` has three processes for two sockets and two
databases: two that compete and one that is killed between. `client` has two
databases behind one socket, three entries of the user, so that a send, its retry
and a control (or two controls and a send) meet, and queues of two, so that a late
request stands before a newer one. Symmetry is used
where constants are interchangeable model values, never with liveness.

**Fairness.** `Progress` assumes weak fairness of each worker's next step, which
the polling loops give (`tools/main.cpp` calls `step` again after every result,
an operator or supervisor restarts it after an exception), and of time passing
while the schedule waits for it. It assumes backends answer: outages, cancelled
steps and capacity overflows leave a message pending by design and are excluded
there, not in the safety runs. The clock moves only while the schedule waits; a
faster clock only makes waiting shorter.

## 4. Findings

* For a subject with a self profile the host passes only the packets of a
  prepared image to `SelfRuntime::step` (`tools/tui/host.cpp:276`), not the head
  and occasion they are bound to; if another process commits in between, the
  observation becomes an input of another occasion. `docs/PERCEPTION.md:44`: the
  receipt "is bound to the current subject head, exact external occasion". Run
  `images_guarded`; run `images` shows that the routed path keeps the binding.

Further observations, which the models reproduce (the place in brackets) and no
run here keeps:

* `execute_attempt` recognises a failed backend by a non-empty diagnostic
  (`src/kernel.cpp:1046`). `Runtime::step` keeps the exception's own message as
  the diagnostic, so an exception with an empty `what()` is taken for success and
  a null proposal is committed, which consumes the occasion.
  `include/cogg/kernel.hpp:43-44`: "Unknown backend failures can be infrastructure
  faults and must preserve the occasion"; `docs/KERNEL.md:67-68` calls them
  transient. Run `routes` reaches such commits (a worker of mode `step`, answer
  `mute`), and its property `DiagnosedOutagesPreserveOccasion` is the claim with
  the condition (`Diagnosed`) without which TLC finds it violated. No backend in
  the repository throws an empty message, and the callers that redact diagnostics
  are unaffected.
* A pause during the preparation of an image discards the evidence that was
  staged (`tools/tui/host.cpp:266`), where `docs/TUI.md:103` names only a restart
  (`EvidenceIsKept`, with images).
* When a prepared attempt ends as waiting, its packet is staged and merged with
  itself by the next preparation, which fails (`tools/tui/host.cpp:262`), where
  `docs/PERCEPTION.md:47` says: "Retry at the same binding reuses it" (action
  `Merge` at an unchanged binding, with a host and another process).
* A reply that overflows the provider's context is an `invalid_output`
  (`src/http_backend.cpp:399`) and counts against the message, where
  `docs/KERNEL.md:64` says that "an outage or a full memory must not discard a
  healthy message" (`Http`, answer `overflowed`).
* While a send is in flight every key but the function keys is swallowed
  (`tools/tui/main.cpp:267`), where `docs/TUI.md:176` says "waiting on a host
  request does not block text input" (`Client`, guard of `Write`; without it
  `DraftsAreKept` fails, as its mutant shows).
* A host killed after it opened a new database and before it created the subject
  leaves a file that neither `--create` nor a plain start accepts
  (`tools/tui/host.cpp:84`, `:198`; `Ownership`, file `blank`).

## 5. Proofs

The theorems hold for all values of the constants that satisfy the named
assumptions of the modules: any number of workers, processes, subjects, keys,
texts, and no bound on a history. They are these assumptions only:
`LimitsAssumption` is what `limits_json` accepts; `RuntimeAssumption` says that a
route names an executor once (`Route::validate`); `HostAssumption` that the host
drives a route of one executor, as `tools/tui/host.cpp` builds it;
`ClientAssumption` that the backlog is not zero and that the marks for "no
database", "no text" and "nothing shown" are not values themselves;
`CheckpointAssumption` that an output limit is positive and within the context;
the others give the constants their types. A proof never uses an artificial
bound other than that it is a number.

Few of these properties are inductive as they stand. The text says what the
inductive invariant adds and why.

**Store** (`KernelProofs`)

* `ReplayAgreesWithLive`: on a nondecreasing history, binary search
  and SQL give the same decision. The window is a suffix of the history
  (`RecentIsSuffix`), so the `MaxAttempts`-th freshest row is the
  `MaxAttempts`-th from the end (`QuotaSourceIsFromEnd`).
* `KernelTypeCorrect` (`TypeOK`), `AdmissionsAreRateLimited` (`RateLimit`). An
  admission compares its instant with decisions derived from the table. `KernelInv`
  adds that admission instants never decrease and that the accounting clock has
  reached the last of them, which makes the limiter's window a suffix; a `ready`
  schedule then yields the spacing and the quota (`ReadySpacing`,
  `AdmissionIsSpaced`), and every other action leaves the admission instants as
  they are (`OnlyStatusChanges`).
* `EligibilityIsPublished` (`EligibilityIsExact`): the three instants a schedule can
  name are the thresholds of the comparisons that make it ready.
* `ReservationsStayLive`, `InboxIsOrdered`, `WakesAreCurrentAndDue`, from
  `StoreInv`: the commits are one chain whose end is the head, each settling the
  occasion of an attempt admitted at its parent (`ChainInv`); a key names one row, and
  a wake's row belongs to the commit that armed it (`InboxInv`); an attempt on a
  message was admitted when every older message was settled, one on a wake by a
  clock that had reached it (`AttemptsInv`). None is inductive without the others:
  what a commit may assume of its attempt was fixed when that was admitted, and
  what an admission may assume of a wake when the wake's row was written.
* `StoreImplementsLedger` (`ImplementsLedger`) and `DispositionsKeepTheWake`
  (`DispositionKeepsWake`), action by action from `StoreInv`.
* `EveryHistoryVerifies` (`HistoryVerifies`): every check of `verify` holds of
  every table that the transactions write. `RecordsInv` says it per row: a commit
  follows its parent and its plan replays, a disposition lists failures that
  replay, an admission's decision is the replayed one (by `ReplayAgreesWithLive`).

**Runtime** (`RuntimeProofs`)

* `WorkersImplementTheStore`: `RuntimeSpec => Spec`, so every theorem about the
  store holds of any number of workers in any mode.
* `NoReservationLeaks` (`OrphansAreAbandoned`), `OwnersSettleTheirReservations`
  (`ReservationsAreSettledByTheirOwner`),
  `EvidenceStaysBound`, `RoutesStayAtOneHead`, `StepsReportTheStore`
  (`ReportsAreDurable`), `DiagnosedOutagesBlameNobody`
  (`DiagnosedOutagesPreserveOccasion`), from
  `RuntimeInv`: at each program counter, what the worker holds (`ControlInv`), what
  it found in the registry (`AdmissibleInv`), to what its context is bound
  (`BoundInv`), which attempts its route has made (`LinesInv`) and what it will
  report (`ReportInv`). A worker that owns a reservation is the only one to
  own it, which is why the steps of the others leave its part alone.

**Host** (`HostProofs`), from `HostInv`, which relates `Control`, the loop's
position and the worker's:

* `HostsImplementTheStore`: `HostSpec => Spec`, through stops, kills and restarts,
  so the theorems about the store hold of a hosted subject.
* `PausesAreFinal` (`PauseIsFinal`), `NothingIsRetriedInvisibly`
  (`NoInvisibleRetries`), `ReportsServeOneAttempt` (`OneAttemptPerReport`).
* `EvidenceStays`: `Images = {}` implies `EvidenceIsKept`. The hypothesis is
  needed: with images a pause discards evidence (section 4).
* `RoutedPacketsAreBound`: a host that drives a route satisfies `PacketsAreBound`.
  In a self step it fails, which is the finding of run `images_guarded`.

**Ownership** (`OwnershipProofs`)

* `OwnershipIsExclusive` (`OwnersAreExclusive`) and
  `OwnershipImplementsEndpoint` (`ImplementsEndpoint`). That the path of a serving
  host stays its own depends on what every other process may still do with
  that path. `OwnershipInv` says per process
  (`Owner`) that from each `flock` to its release it is the holder, that a path
  names its listener exactly while that is bound to it, and what the file of a
  checked, opened and verified database holds. A step of one process keeps `Owner`
  of the others (`StepKeepsOthers`), because all it touches is guarded by a lock it
  holds. For the refinement, each step changes the served database of at most the
  acting process's socket, and from `Nobody` or to it.

**Client** (`ClientProofs`), from `ClientInv`:

* `TheSendIsOwed`, `AcknowledgedPausesHold`, `EvidenceIsForItsRequest`,
  `DraftsAreSavedOnce` (`RowsMatchDrafts`) and the action property `DraftsStay`
  (`DraftsAreKept`). The only open connection is the one the
  network thread waits for (`CallInv`), and every send under way is the one the
  retry is kept for (`SendInv`); controls reach the host in the order they were
  entered (`OrderInv`), so once the last one was executed and was a pause, none is
  left in a queue or a backlog to undo it (`SettledInv`); a key is the number of one
  text (`DraftInv`, `FreshInv`), and what was acknowledged is stored (`SavedInv`).

**Checkpoints** (`CheckpointProofs`), any number of writers, subjects and builds:

* `PromptsAreCanonical` (`PromptIsCanonical`) and
  `PublicationIsAtomic` (`PublishedIsComplete`). `CacheInv` adds, per process,
  that the token vector describes the native memory and that the file under way
  is truthful (its recorded tokens are those of its state), whole from the
  `fsync` on and synced from the `rename` on; and, per path, that whatever it
  names now or may name after a power failure is truthful, whole, synced and of
  its subject. A restored cache is then as good as a resident one.
* `OnlyAcceptedIsPublished` (`PublishedIsAccepted`), from `AcceptInv`: what a
  worker offers is a computation on its head within the token limit, and a file is created only
  from an offer that the ledger took, whose commit stays in `history` through a
  rollback.
* `TemporariesHaveOwners` (`TemporariesAreOwned`), from `TemporaryInv`: a writer has
  a file from its creation to the rename and at no other time, and the directory
  counts those files and the leaked ones.

**Self state** (`SelfStateProofs`), from `SelfInv`:

* `HistoriesReplay` (`HistoryReplays`), `CachesAreReplays` (`CacheIsReplay`),
  `BothGuardsAgree` (`GuardsAgree`). A cached state is what replaying the history up to
  its head gives (`CacheInv`); a step works on such a state, under a grant checked
  against it (`StepInv`). A lost race leaves the cached head in the history, where
  replay does not change any more (`ReplayIsStable`).

**Memory** (`MemoryProofs`), from `MemoryInv`:

* `MemoriesVerify` (`MemoryVerifies`), `EvidenceStaysReachable`
  (`EvidenceIsReachable`), `OpenTasksAreShown` (`TasksAreShown`), `CheckedTasksFit`
  (`OpenTasksFit`) and the action property `EndedTasksWereShown`
  (`SettledTasksWereShown`). Replay yields one index, of which the stored one is a
  copy, or it is lost. In that index a version is current exactly if it is the latest
  of its key, and a summary's sources are earlier originals (`IndexInv`); each
  recorded view is true of it (`ViewInv`). A commit only appends rows and turns
  `current` off (`Grown`), so a label computed for an earlier tick
  stays what it was (`WireIsStable`). For the budget, sums over sets of entries do
  not depend on the order of the fold and grow with the set (`BytesWithAny`,
  `BytesGrow`).

**How recursion is treated.** `replay` of `SelfState` and the folds of `Memory` are
recursive functions, and the induction theorems of the library take a predicate
as a parameter, which the provers cannot instantiate. What is proved about them goes
by a smallest counterexample instead: `NatLessThanWellFounded` and `WFMin`, of the library, give the
least length at which a claim fails, and the claim is refuted there
(`LeastElement`, `ReplayExists`, `ReplayIsUnique`, `ReplayContinues`). That the
recursive definition has a solution at all is the first of these claims.

Only model-checked: `SubjectAdvances`, since liveness under fairness needs ENABLED,
which this prover does not treat. Three theorems hold under a hypothesis that the
code makes necessary: `EvidenceStays`, `RoutedPacketsAreBound` and
`DiagnosedOutagesBlameNobody`, above. Of the three
hazards without a property (`PROJECT.json`) two are behaviours the models reproduce;
the third, the session limit, is a guard that nothing can overtake.

## 6. Plan

Done: limiter, store, verification, ledger, runtime, routing, progress,
checkpoints and cache, host and perception, self state, memory, HTTP failures,
ownership of sockets and databases, client; and proofs of every safety invariant,
action property and refinement that the passing runs check.

1. Theorems beyond the runs: that the views of a self step never exceed their limit, that a
   rebuilt memory index equals the lost one, that `Progress` implements `Runtime`.
2. An abstract specification of the checkpoint directory (a map from subjects to an
   accepted computation, which may be lost but not torn) that `Checkpoint` implements.

Not modelled: the content of requests and replies (`http_backend.cpp`,
`outcome.cpp`, and `parse_proposal` and `validate` of `kernel.cpp`), token
sampling, rendering, argument parsing, SQLite itself, content hashes and execution
descriptors, benchmarks: they keep no state of their own or are external, and
their outcomes are inputs of the models. `SelfState` and `Memory` are not
composed: a commitment is a task note, but the two policies are separate checks of
one commit that share no variable, and each model lets the other refuse.
