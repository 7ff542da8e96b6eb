----------------------------- MODULE Checkpoint -----------------------------
(***************************************************************************)
(* Durable context checkpoints: the file protocol of read_checkpoint and   *)
(* write_checkpoint (src/checkpoint.cpp) and the resident cache of the     *)
(* libllama backend that uses it (src/llama_backend.cpp).                  *)
(*                                                                         *)
(* Backends are processes that share a checkpoint directory and the store. *)
(* The store is reduced to what the cache depends on: a subject's chain of *)
(* committed transitions.  A head is the hash of its chain, so the chain   *)
(* stands for it, and the tick is the chain's length.  All backends have   *)
(* the same executor identity and build, hence one file per subject; the   *)
(* rest of the compatibility descriptor may differ.                        *)
(***************************************************************************)
EXTENDS Naturals, Sequences, FiniteSets, FiniteSetsExt, SequencesExt

CONSTANTS
    Backends,       \* processes with a LlamaBackend
    Subjects,
    Values,         \* what a transition commits, as far as a prompt shows it
    System,         \* per backend: system features in its compatibility()
    ContextTokens,  \* LlamaOptions::context_tokens
    MaxOutput,      \* LlamaOptions::max_output_tokens
    LedgerBound,    \* bound on a chain, for model checking
    FaultBound      \* bound on crashes, power failures, corruptions and rollbacks

ASSUME CheckpointAssumption ==
    /\ ContextTokens \in Nat
    /\ MaxOutput \in 1 .. ContextTokens
    /\ LedgerBound \in Nat
    /\ FaultBound \in Nat

VARIABLES
    ledger,    \* subject -> its committed chain
    history,   \* subject -> every chain that was ever committed
    llama,     \* backend -> the fields of LlamaBackend::Impl and its position
    visible,   \* subject -> the file its path names: {file}, or {} for none
    durable,   \* subject -> what its path may name after a power failure
    temporaries,  \* number of temporary files in the directory
    leaked,    \* number of temporaries whose writer died
    faults

fileVars == <<visible, durable, temporaries, leaked>>
checkpointVars == <<ledger, history, llama, fileVars, faults>>

NoSubject == "none"
NoHead == <<"none">>

\* The rebuilt prompt: the canonical present, memory first.
prompt(s, chain) == <<"system">> \o chain \o <<s>>

\* A process between two steps, without a context.
Fresh == [at |-> "idle", context |-> FALSE, native |-> <<>>, cached |-> <<>>,
          cached_subject |-> NoSubject, pending |-> NoHead,
          subject |-> NoSubject, chain |-> <<>>, file |-> {}]

CheckpointInit ==
    /\ ledger = [s \in Subjects |-> <<>>]
    /\ history = [s \in Subjects |-> {<<>>}]
    /\ llama = [b \in Backends |-> Fresh]
    /\ visible = [s \in Subjects |-> {}]
    /\ durable = [s \in Subjects |-> {{}}]
    /\ temporaries = 0
    /\ leaked = 0
    /\ faults = 0

At(b, pc) == llama[b].at = pc

Goto(b, pc) == llama' = [llama EXCEPT ![b].at = pc]

\* The step is over: its present and its file are forgotten.
Done(b) ==
    llama' = [llama EXCEPT ![b].at = "idle", ![b].subject = NoSubject,
                           ![b].chain = <<>>, ![b].file = {}]

-----------------------------------------------------------------------------
(* Impl::restore.                                                          *)

\* Mutant: the blob's checksum is not compared.
IntactByHeader(f) == f.part = "state"

\* read_checkpoint: exact length, and both checksums.
Intact(f) == f.part = "state" /\ ~f.corrupt

\* What set_data makes of a blob; a damaged or foreign one is anything.
Loaded(b, f) ==
    IF f.part = "state" /\ ~f.corrupt /\ f.system = System[b] THEN f.blob
    ELSE [i \in DOMAIN f.tokens |-> "garbage"]

\* Subject, head and tick, compatibility, and the token count.
Accepts(b, f, s, chain) ==
    /\ Intact(f)
    /\ f.subject = s /\ f.head = chain
    /\ f.system = System[b]
    /\ Len(f.tokens) \in 1 .. ContextTokens - 1

\* The native memory and the token vector a cold start may go on with: nothing
\* when the file is missing or rejected, by libllama too.
Restored(b, s, chain) ==
    {[native |-> <<>>, cached |-> <<>>]} \cup
    {[native |-> Loaded(b, f), cached |-> f.tokens] :
         f \in {g \in visible[s] : Accepts(b, g, s, chain)}}

-----------------------------------------------------------------------------
(* Impl::respond.                                                          *)

\* The resident cache, dropped when it belongs to another subject.
Resident(b, s, chain) ==
    IF llama[b].context /\ llama[b].cached_subject = s
    THEN {[native |-> llama[b].native, cached |-> llama[b].cached]}
    ELSE Restored(b, s, chain)

\* Length of the longest common prefix; the last token is evaluated again.
Common(cached, tokens) ==
    LET n == Max({k \in 0 .. Len(tokens) : IsPrefix(SubSeq(tokens, 1, k), cached)})
    IN  IF n < Len(tokens) THEN n ELSE Len(tokens) - 1

\* The native memory after the divergent suffix is removed (or, where libllama
\* cannot, everything) and the rest of the prompt is decoded.
Evaluated(native, cached, tokens) ==
    LET n == Common(cached, tokens)
    IN  {SubSeq(native, 1, n) \o SubSeq(tokens, n + 1, Len(tokens)), tokens}

\* "canonical present exceeds context budget".
Fits(tokens) == Len(tokens) + MaxOutput <= ContextTokens

Evaluate(b, s) ==
    LET tokens == prompt(s, ledger[s])
    IN  /\ At(b, "idle")
        /\ Fits(tokens)
        /\ \E kept \in Resident(b, s, ledger[s]) :
           \E native \in Evaluated(kept.native, kept.cached, tokens) :
              llama' = [llama EXCEPT ![b] =
                  [at |-> "sampling", context |-> TRUE, native |-> native,
                   cached |-> tokens, cached_subject |-> s, pending |-> NoHead,
                   subject |-> s, chain |-> ledger[s], file |-> {}]]
        /\ UNCHANGED <<ledger, history, fileVars, faults>>

\* Tokens sampled and evaluated after the prompt.
Generated(b) == Len(llama[b].cached) - Len(prompt(llama[b].subject, llama[b].chain))

\* A sampled token that does not complete the outcome is evaluated.
Sample(b) ==
    /\ At(b, "sampling")
    /\ Generated(b) < MaxOutput
    /\ llama' = [llama EXCEPT ![b].native = Append(@, "out"),
                              ![b].cached = Append(@, "out")]
    /\ UNCHANGED <<ledger, history, fileVars, faults>>

\* The token that completes it is not: a proposal is pending, or an abstention.
Complete(b, outcome) ==
    /\ At(b, "sampling")
    /\ Generated(b) < MaxOutput
    /\ IF outcome = "proposal"
       THEN llama' = [llama EXCEPT ![b].at = "proposed", ![b].pending = llama[b].chain]
       ELSE Done(b)
    /\ UNCHANGED <<ledger, history, fileVars, faults>>

\* Any exception: deadline, cancellation, budget, decode, invalid outcome.
RespondFails(b) ==
    /\ At(b, "idle") \/ At(b, "sampling")
    /\ llama' = [llama EXCEPT ![b] = Fresh]
    /\ UNCHANGED <<ledger, history, fileVars, faults>>

\* release_context(), by the host between two steps.
ReleaseContext(b) ==
    /\ At(b, "idle")
    /\ llama' = [llama EXCEPT ![b] = Fresh]
    /\ UNCHANGED <<ledger, history, fileVars, faults>>

-----------------------------------------------------------------------------
(* execute_attempt: the commit comes first, then the callback.             *)

Commit(b, v) ==
    LET s == llama[b].subject
        next == Append(llama[b].chain, v)
    IN  /\ At(b, "proposed")
        /\ ledger[s] = llama[b].chain
        /\ Len(next) <= LedgerBound
        /\ ledger' = [ledger EXCEPT ![s] = next]
        /\ history' = [history EXCEPT ![s] = @ \cup {next}]
        /\ llama' = [llama EXCEPT ![b].at = "accepted", ![b].chain = next]
        /\ UNCHANGED <<fileVars, faults>>

\* Mutant: the callback runs although the proposal was not committed.
RejectAsAccepted(b) ==
    /\ At(b, "proposed")
    /\ llama' = [llama EXCEPT ![b].at = "accepted", ![b].chain = Append(@, CHOOSE v \in Values : TRUE)]
    /\ UNCHANGED <<ledger, history, fileVars, faults>>

\* A conflict, or any other failure of the attempt: no callback.
Reject(b) ==
    /\ At(b, "proposed")
    /\ Done(b)
    /\ UNCHANGED <<ledger, history, fileVars, faults>>

\* Impl::committed: "checkpoint has no matching completed proposal" otherwise.
Matching(b) ==
    /\ llama[b].context /\ llama[b].cached # <<>>
    /\ llama[b].cached_subject = llama[b].subject
    /\ llama[b].pending = Front(llama[b].chain)

-----------------------------------------------------------------------------
(* write_checkpoint.                                                       *)

\* mkstemp: a temporary of its own, next to the destination.
CreateTemporary(b) ==
    /\ At(b, "accepted")
    /\ Matching(b)
    /\ llama' = [llama EXCEPT ![b].at = "header", ![b].file =
          {[subject |-> llama[b].subject, head |-> llama[b].chain,
            source_head |-> llama[b].pending, tokens |-> llama[b].cached,
            blob |-> llama[b].native, system |-> System[b], part |-> "none",
            synced |-> FALSE, corrupt |-> FALSE]}]
    /\ temporaries' = temporaries + 1
    /\ UNCHANGED <<ledger, history, visible, durable, leaked, faults>>

\* The prefix and the metadata, then the blob.
Written(b, part) == {[f EXCEPT !.part = part] : f \in llama[b].file}

Write(b) ==
    /\ \/ /\ At(b, "header")
          /\ llama' = [llama EXCEPT ![b].at = "state", ![b].file = Written(b, "header")]
       \/ /\ At(b, "state")
          /\ llama' = [llama EXCEPT ![b].at = "sync", ![b].file = Written(b, "state")]
    /\ UNCHANGED <<ledger, history, fileVars, faults>>

\* Mutant: the file is not synced before it is renamed.
SyncFileLater(b) ==
    /\ At(b, "sync")
    /\ Goto(b, "rename")
    /\ UNCHANGED <<ledger, history, fileVars, faults>>

SyncFile(b) ==
    /\ At(b, "sync")
    /\ llama' = [llama EXCEPT ![b].at = "rename",
                              ![b].file = {[f EXCEPT !.synced = TRUE] : f \in @}]
    /\ UNCHANGED <<ledger, history, fileVars, faults>>

\* Atomic for every reader; on disk only once the directory is synced.
Rename(b) ==
    /\ At(b, "rename")
    /\ visible' = [visible EXCEPT ![llama[b].subject] = llama[b].file]
    /\ durable' = [durable EXCEPT ![llama[b].subject] = @ \cup {llama[b].file}]
    /\ temporaries' = temporaries - 1
    /\ llama' = [llama EXCEPT ![b].at = "directory", ![b].file = {}]
    /\ UNCHANGED <<ledger, history, leaked, faults>>

\* fsync of the directory: all its entries; then committed() clears pending.
SyncDirectory(b) ==
    /\ At(b, "directory")
    /\ durable' = [s \in Subjects |-> {visible[s]}]
    /\ llama' = [llama EXCEPT ![b].at = "idle", ![b].subject = NoSubject, ![b].chain = <<>>,
                              ![b].file = {}, ![b].pending = NoHead]
    /\ UNCHANGED <<ledger, history, visible, temporaries, leaked, faults>>

Writing == {"header", "state", "sync", "rename", "directory"}

\* Mutant: an error leaves the temporary behind.
SaveFailsUnclean(b) ==
    /\ llama[b].at \in Writing \cup {"accepted"}
    /\ Done(b)
    /\ UNCHANGED <<ledger, history, fileVars, faults>>

\* An error before or while writing; the temporary is unlinked unless it was
\* renamed.  The committed transition stays: the caller gets a maintenance error.
SaveFails(b) ==
    /\ llama[b].at \in Writing \cup {"accepted"}
    /\ temporaries' = temporaries - Cardinality(llama[b].file)
    /\ Done(b)
    /\ UNCHANGED <<ledger, history, visible, durable, leaked, faults>>

-----------------------------------------------------------------------------
(* Faults.                                                                 *)

\* Temporaries of the processes in B, which die.
Orphans(B) == Cardinality({b \in B : llama[b].file # {}})

\* SIGKILL, and a new process in its place.
Crash(b) ==
    /\ faults < FaultBound
    /\ faults' = faults + 1
    /\ leaked' = leaked + Orphans({b})
    /\ llama' = [llama EXCEPT ![b] = Fresh]
    /\ UNCHANGED <<ledger, history, visible, durable, temporaries>>

\* What a power failure may leave at a path.
Survivors(s) ==
    durable[s] \cup {{[f EXCEPT !.part = "none"]} : f \in {g \in UNION durable[s] : ~g.synced}}

\* Every process dies; what was not synced may be gone, a rename too.
PowerFailure ==
    /\ faults < FaultBound
    /\ faults' = faults + 1
    /\ leaked' = leaked + Orphans(Backends)
    /\ llama' = [b \in Backends |-> Fresh]
    /\ \E path \in [Subjects -> UNION {Survivors(s) : s \in Subjects}] :
          /\ \A s \in Subjects : path[s] \in Survivors(s)
          /\ visible' = path
          /\ durable' = [s \in Subjects |-> {path[s]}]
    /\ UNCHANGED <<ledger, history, temporaries>>

\* The medium damages a published file.
Corrupt(s) ==
    LET Damaged(file) == {[f EXCEPT !.corrupt = TRUE] : f \in file}
    IN  /\ faults < FaultBound
        /\ visible[s] # {}
        /\ faults' = faults + 1
        /\ visible' = [visible EXCEPT ![s] = Damaged(@)]
        /\ durable' = [durable EXCEPT ![s] = (@ \ {visible[s]}) \cup {Damaged(visible[s])}]
        /\ UNCHANGED <<ledger, history, llama, temporaries, leaked>>

\* The operator stops all processes and puts an older database back.
RestoreBackup(s, n) ==
    /\ faults < FaultBound
    /\ n < Len(ledger[s])
    /\ faults' = faults + 1
    /\ ledger' = [ledger EXCEPT ![s] = SubSeq(@, 1, n)]
    /\ leaked' = leaked + Orphans(Backends)
    /\ llama' = [b \in Backends |-> Fresh]
    /\ UNCHANGED <<history, visible, durable, temporaries>>

BackendNext(b) ==
    \/ \E s \in Subjects : Evaluate(b, s)
    \/ Sample(b)
    \/ \E outcome \in {"proposal", "abstention"} : Complete(b, outcome)
    \/ RespondFails(b)
    \/ ReleaseContext(b)
    \/ \E v \in Values : Commit(b, v)
    \/ Reject(b)
    \/ CreateTemporary(b)
    \/ Write(b)
    \/ SyncFile(b)
    \/ Rename(b)
    \/ SyncDirectory(b)
    \/ SaveFails(b)
    \/ Crash(b)

CheckpointNext ==
    \/ \E b \in Backends : BackendNext(b)
    \/ PowerFailure
    \/ \E s \in Subjects : Corrupt(s) \/ \E n \in 0 .. LedgerBound : RestoreBackup(s, n)

CheckpointSpec == CheckpointInit /\ [][CheckpointNext]_checkpointVars

-----------------------------------------------------------------------------
(* Properties.                                                             *)

Token == {"system", "out", "garbage"} \cup Subjects \cup Values
Chain == Seq(Values)

FileRow ==
    [subject : Subjects, head : Chain, source_head : Chain, tokens : Seq(Token),
     blob : Seq(Token), system : {System[b] : b \in Backends},
     part : {"none", "header", "state"}, synced : BOOLEAN, corrupt : BOOLEAN]

LlamaRow ==
    [at : {"idle", "sampling", "proposed", "accepted"} \cup Writing,
     context : BOOLEAN, native : Seq(Token), cached : Seq(Token),
     cached_subject : Subjects \cup {NoSubject}, pending : Chain \cup {NoHead},
     subject : Subjects \cup {NoSubject}, chain : Chain, file : SUBSET FileRow]

\* What a backend samples from is the canonical prompt of the present it was
\* given, token for token, and the token vector describes the native memory:
\* whatever was resident, for whichever subject, and whatever file was restored,
\* stale, damaged or foreign.
PromptIsCanonical ==
    \A b \in Backends :
        /\ llama[b].native = llama[b].cached
        /\ At(b, "sampling") =>
              IsPrefix(prompt(llama[b].subject, llama[b].chain), llama[b].native)

\* A path names only complete files, in the running system and after a power
\* failure at any point of any writer: readers see one whole version.
PublishedIsComplete ==
    \A s \in Subjects : \A f \in visible[s] \cup UNION durable[s] :
        f.part = "state" /\ f.synced /\ f.subject = s

\* A published checkpoint belongs to a commit that really happened: it holds the
\* accepted computation on that commit's parent, never a rejected one, and its
\* writer's own token limit accepts it.
PublishedIsAccepted ==
    \A s \in Subjects : \A f \in visible[s] :
        /\ f.head \in history[s]
        /\ f.source_head = Front(f.head)
        /\ IsPrefix(prompt(s, f.source_head), f.tokens)
        /\ f.blob = f.tokens
        /\ Len(f.tokens) < ContextTokens

\* A temporary file outlives its writer only if the process died.
TemporariesAreOwned == temporaries = leaked + Orphans(Backends)
=============================================================================
