-------------------------- MODULE CheckpointProofs --------------------------
(***************************************************************************)
(* The resident cache and the checkpoint files, for every number of        *)
(* processes, subjects, commits and faults.                                *)
(***************************************************************************)
EXTENDS Checkpoint, FiniteSetTheorems, SequenceTheorems, TLAPS

\* A file holds the native memory its token vector describes.
Truthful(f) == f.blob = f.tokens

\* One backend: its token vector describes its native memory, it samples from
\* the canonical prompt, and its file is written in the order that lets only a
\* complete and synced one be renamed.
RowInv(r) ==
    /\ r \in LlamaRow
    /\ r.at # "idle" => r.subject \in Subjects
    /\ r.native = r.cached
    /\ r.at = "sampling" => IsPrefix(prompt(r.subject, r.chain), r.native)
    /\ \A f \in r.file :
          /\ Truthful(f)
          /\ f.subject = r.subject
          /\ r.at \in {"sync", "rename"} => f.part = "state"
          /\ r.at = "rename" => f.synced

\* One path: what it names now, or may name after a power failure.
PathInv(s) ==
    /\ visible[s] \in SUBSET FileRow
    /\ durable[s] \in SUBSET SUBSET FileRow
    /\ \A f \in visible[s] \cup UNION durable[s] :
          Truthful(f) /\ f.part = "state" /\ f.synced /\ f.subject = s

CacheInv ==
    /\ ledger \in [Subjects -> Chain]
    /\ DOMAIN llama = Backends /\ llama = [b \in Backends |-> llama[b]]
    /\ \A b \in Backends : RowInv(llama[b])
    /\ DOMAIN visible = Subjects /\ visible = [s \in Subjects |-> visible[s]]
    /\ DOMAIN durable = Subjects /\ durable = [s \in Subjects |-> durable[s]]
    /\ \A s \in Subjects : PathInv(s)

-----------------------------------------------------------------------------
(* Prefixes.                                                               *)

\* The prompt is a sequence of tokens and is not empty.
LEMMA PromptType ==
    ASSUME NEW s \in Subjects, NEW chain \in Chain
    PROVE  prompt(s, chain) \in Seq(Token) /\ Len(prompt(s, chain)) >= 1
<1>1. <<"system">> \in Seq(Token) /\ <<s>> \in Seq(Token) /\ chain \in Seq(Token)
  BY DEF Token, Chain
<1>2. /\ <<"system">> \o chain \in Seq(Token)
      /\ Len(<<"system">> \o chain) = 1 + Len(chain)
  BY <1>1
<1>3. QED BY <1>1, <1>2 DEF prompt

\* A sequence is its own prefix, and stays one when the other grows.
LEMMA PrefixFacts ==
    ASSUME NEW S, NEW p \in Seq(S), NEW q \in Seq(S), NEW x \in S
    PROVE  /\ IsPrefix(p, p)
           /\ IsPrefix(p, q) => IsPrefix(p, Append(q, x))
BY DEF IsPrefix

\* A nonempty set of naturals up to n has a greatest element.
LEMMA GreatestElement ==
    ASSUME NEW n \in Nat, NEW K \in SUBSET (0 .. n), K # {}
    PROVE  Max(K) \in K /\ \A k \in K : k <= Max(K)
<1> DEFINE D == {d \in 0 .. n : n - d \in K}
<1>1. D \subseteq Nat /\ D # {}
  <2>1. PICK k \in K : TRUE
    OBVIOUS
  <2>2. n - k \in 0 .. n /\ n - (n - k) = k
    OBVIOUS
  <2>3. n - k \in D
    BY <2>2
  <2>4. D \subseteq Nat
    OBVIOUS
  <2> HIDE DEF D
  <2>5. QED BY <2>3, <2>4
<1>2. PICK d \in D : \A e \in D : ~(<<e, d>> \in OpToRel(<, Nat))
  <2> HIDE DEF D
  <2> QED BY <1>1, WFMin, NatLessThanWellFounded
<1>3. \A e \in D : d <= e
  <2> HIDE DEF D
  <2>1. \A e \in D : ~(e < d) /\ e \in Nat
    BY <1>1, <1>2 DEF OpToRel
  <2>2. QED BY <1>1, <2>1
<1>4. \A k \in K : n - k \in D
  <2> TAKE k \in K
  <2>1. n - k \in 0 .. n /\ n - (n - k) = k
    OBVIOUS
  <2>2. QED BY <2>1
<1>5. \A k \in K : k <= n - d
  BY <1>3, <1>4
<1>6. n - d \in K
  OBVIOUS
<1>7. QED BY <1>5, <1>6 DEF Max

\* Whatever the cache holds, the common prefix is a prefix of both.
LEMMA CommonProperties ==
    ASSUME NEW cached \in Seq(Token), NEW tokens \in Seq(Token), Len(tokens) >= 1
    PROVE  LET n == Common(cached, tokens)
           IN  /\ n \in 0 .. Len(tokens) - 1
               /\ n <= Len(cached)
               /\ SubSeq(cached, 1, n) = SubSeq(tokens, 1, n)
<1> DEFINE K == {k \in 0 .. Len(tokens) : IsPrefix(SubSeq(tokens, 1, k), cached)}
<1>1. 0 \in K
  BY DEF IsPrefix
<1>2. Max(K) \in K
  <2>1. K \in SUBSET (0 .. Len(tokens)) /\ Len(tokens) \in Nat
    OBVIOUS
  <2> HIDE DEF K
  <2>2. QED BY <1>1, <2>1, GreatestElement
<1>3. \A k \in 0 .. Len(tokens) : \A j \in 0 .. k :
         IsPrefix(SubSeq(tokens, 1, k), cached) =>
             j <= Len(cached) /\ SubSeq(cached, 1, j) = SubSeq(tokens, 1, j)
  BY DEF IsPrefix
<1>4. \A n \in K : n \in 0 .. Len(tokens) /\ IsPrefix(SubSeq(tokens, 1, n), cached)
  OBVIOUS
<1>5. Common(cached, tokens) = IF Max(K) < Len(tokens) THEN Max(K) ELSE Len(tokens) - 1
  BY DEF Common
<1>6. QED
  <2> HIDE DEF K
  <2> QED BY <1>2, <1>3, <1>4, <1>5

\* Trimming a faithful cache and decoding the rest evaluates the whole prompt.
LEMMA EvaluatedIsPrompt ==
    ASSUME NEW cached \in Seq(Token), NEW tokens \in Seq(Token), Len(tokens) >= 1,
           NEW native \in Evaluated(cached, cached, tokens)
    PROVE  native = tokens
<1> DEFINE n == Common(cached, tokens)
<1>1. /\ n \in 0 .. Len(tokens) - 1
      /\ SubSeq(cached, 1, n) = SubSeq(tokens, 1, n)
  BY CommonProperties
<1>2. SubSeq(tokens, 1, n) \o SubSeq(tokens, n + 1, Len(tokens)) = tokens
  <2> HIDE DEF n
  <2> QED BY <1>1
<1>3. QED BY <1>1, <1>2 DEF Evaluated

-----------------------------------------------------------------------------
(* Induction.                                                              *)

\* A process that was just started.
LEMMA FreshRow == RowInv(Fresh)
BY DEF RowInv, Fresh, LlamaRow, Chain

\* The initial state.
LEMMA InitCacheInv == CheckpointInit => CacheInv
<1> SUFFICES ASSUME CheckpointInit PROVE CacheInv
  OBVIOUS
<1>1. ledger \in [Subjects -> Chain]
  BY DEF CheckpointInit, Chain
<1>2. \A b \in Backends : RowInv(llama[b])
  BY FreshRow DEF CheckpointInit
<1>3. \A s \in Subjects : PathInv(s)
  BY DEF CheckpointInit, PathInv
<1>4. QED BY <1>1, <1>2, <1>3 DEF CheckpointInit, CacheInv

\* A step that changes one backend and no file.
LEMMA RowStep ==
    ASSUME CacheInv, NEW b \in Backends, NEW r, RowInv(r),
           llama' = [llama EXCEPT ![b] = r],
           ledger' \in [Subjects -> Chain], visible' = visible, durable' = durable
    PROVE  CacheInv'
<1>1. \A c \in Backends : RowInv(llama[c])'
  BY DEF CacheInv, RowInv
<1>2. \A s \in Subjects : PathInv(s)'
  BY DEF CacheInv, PathInv
<1>3. DOMAIN llama' = Backends /\ llama' = [c \in Backends |-> llama'[c]]
  BY DEF CacheInv
<1>4. QED BY <1>1, <1>2, <1>3 DEF CacheInv

\* Restoring or keeping a cache yields one whose token vector is true.
LEMMA ResidentIsTruthful ==
    ASSUME CacheInv, NEW b \in Backends, NEW s \in Subjects, NEW chain,
           NEW kept \in Resident(b, s, chain)
    PROVE  kept.native = kept.cached /\ kept.cached \in Seq(Token)
<1>1. CASE llama[b].context /\ llama[b].cached_subject = s
  BY <1>1 DEF Resident, CacheInv, RowInv, LlamaRow
<1>2. CASE ~(llama[b].context /\ llama[b].cached_subject = s)
  <2>1. kept \in Restored(b, s, chain)
    BY <1>2 DEF Resident
  <2>2. CASE kept = [native |-> <<>>, cached |-> <<>>]
    BY <2>2
  <2>3. CASE \E f \in visible[s] : /\ Accepts(b, f, s, chain)
                                   /\ kept = [native |-> Loaded(b, f), cached |-> f.tokens]
    <3>1. PICK f \in visible[s] : /\ Accepts(b, f, s, chain)
                                  /\ kept = [native |-> Loaded(b, f), cached |-> f.tokens]
      BY <2>3
    <3>2. f \in FileRow /\ f.blob = f.tokens
      BY DEF CacheInv, PathInv, Truthful
    <3>3. Loaded(b, f) = f.blob
      BY <3>1 DEF Accepts, Intact, Loaded
    <3>4. f.tokens \in Seq(Token)
      BY <3>2 DEF FileRow
    <3>5. QED BY <3>1, <3>2, <3>3, <3>4
  <2>4. QED BY <2>1, <2>2, <2>3 DEF Restored
<1>3. QED BY <1>1, <1>2

\* Whatever was resident or on disk, the whole prompt is evaluated.
LEMMA EvaluateCacheInv ==
    ASSUME CacheInv, NEW b \in Backends, NEW s \in Subjects, Evaluate(b, s)
    PROVE  CacheInv'
<1> DEFINE tokens == prompt(s, ledger[s])
<1>1. ledger[s] \in Chain /\ tokens \in Seq(Token) /\ Len(tokens) >= 1
  BY PromptType DEF CacheInv
<1>2. PICK kept \in Resident(b, s, ledger[s]) :
         \E native \in Evaluated(kept.native, kept.cached, tokens) :
            llama' = [llama EXCEPT ![b] =
                [at |-> "sampling", context |-> TRUE, native |-> native,
                 cached |-> tokens, cached_subject |-> s, pending |-> NoHead,
                 subject |-> s, chain |-> ledger[s], file |-> {}]]
  BY DEF Evaluate
<1>3. kept.native = kept.cached /\ kept.cached \in Seq(Token)
  BY ResidentIsTruthful
<1> DEFINE r == [at |-> "sampling", context |-> TRUE, native |-> tokens,
                 cached |-> tokens, cached_subject |-> s, pending |-> NoHead,
                 subject |-> s, chain |-> ledger[s], file |-> {}]
<1>4. \A native \in Evaluated(kept.native, kept.cached, tokens) : native = tokens
  <2> HIDE DEF tokens
  <2> QED BY <1>1, <1>3, EvaluatedIsPrompt
<1>5. llama' = [llama EXCEPT ![b] = r]
  <2> HIDE DEF tokens
  <2> QED BY <1>2, <1>4
<1>6. RowInv(r)
  <2>1. r \in LlamaRow
    BY <1>1 DEF LlamaRow
  <2>2. IsPrefix(tokens, tokens)
    <3> HIDE DEF tokens
    <3> QED BY <1>1 DEF IsPrefix
  <2>3. QED BY <2>1, <2>2 DEF RowInv
<1>7. ledger' \in [Subjects -> Chain] /\ visible' = visible /\ durable' = durable
  BY DEF Evaluate, CacheInv, fileVars
<1>8. QED
  <2> HIDE DEF r
  <2> QED BY <1>5, <1>6, <1>7, RowStep

\* A sampled token is evaluated and recorded together.
LEMMA SampleCacheInv ==
    ASSUME CacheInv, NEW b \in Backends, Sample(b)
    PROVE  CacheInv'
<1> DEFINE r == [llama[b] EXCEPT !.native = Append(@, "out"), !.cached = Append(@, "out")]
<1>1. llama' = [llama EXCEPT ![b] = r]
  BY DEF Sample, CacheInv
<1>2. RowInv(llama[b]) /\ llama[b].at = "sampling"
  BY DEF Sample, At, CacheInv
<1>3. "out" \in Token /\ llama[b].native \in Seq(Token) /\ llama[b].subject \in Subjects
      /\ llama[b].chain \in Chain
  BY <1>2 DEF RowInv, LlamaRow, Token
<1>4. prompt(llama[b].subject, llama[b].chain) \in Seq(Token)
  BY <1>3, PromptType
<1>5. IsPrefix(prompt(llama[b].subject, llama[b].chain), Append(llama[b].native, "out"))
  BY <1>2, <1>3, <1>4, PrefixFacts DEF RowInv
<1>6. RowInv(r)
  <2>1. Append(llama[b].native, "out") \in Seq(Token)
    BY <1>3
  <2>2. r \in LlamaRow
    BY <1>2, <2>1 DEF RowInv, LlamaRow
  <2>3. QED BY <1>2, <1>5, <2>2 DEF RowInv, LlamaRow
<1>7. ledger' \in [Subjects -> Chain] /\ visible' = visible /\ durable' = durable
  BY DEF Sample, CacheInv, fileVars
<1>8. QED
  <2> HIDE DEF r
  <2> QED BY <1>1, <1>6, <1>7, RowStep

\* The end of a step leaves the cache as it is.
LEMMA DoneCacheInv ==
    ASSUME CacheInv, NEW b \in Backends, Done(b),
           ledger' = ledger, visible' = visible, durable' = durable
    PROVE  CacheInv'
<1> DEFINE r == [llama[b] EXCEPT !.at = "idle", !.subject = NoSubject,
                                 !.chain = <<>>, !.file = {}]
<1>1. llama' = [llama EXCEPT ![b] = r]
  BY DEF Done, CacheInv
<1>2. RowInv(llama[b]) /\ ledger' \in [Subjects -> Chain]
  BY DEF CacheInv
<1>3. RowInv(r)
  <2>1. <<>> \in Chain /\ {} \in SUBSET FileRow
    BY DEF Chain
  <2>2. r \in LlamaRow
    BY <1>2, <2>1 DEF RowInv, LlamaRow
  <2>3. /\ r.file = {} /\ r.at = "idle"
        /\ r.native = llama[b].native /\ r.cached = llama[b].cached
    BY <1>2 DEF RowInv, LlamaRow
  <2> HIDE DEF r
  <2>4. QED BY <1>2, <2>2, <2>3 DEF RowInv
<1>4. QED
  <2> HIDE DEF r
  <2> QED BY <1>1, <1>2, <1>3, RowStep

\* A released or restarted backend.
LEMMA FreshCacheInv ==
    ASSUME CacheInv, NEW b \in Backends, llama' = [llama EXCEPT ![b] = Fresh],
           ledger' = ledger, visible' = visible, durable' = durable
    PROVE  CacheInv'
<1>1. ledger' \in [Subjects -> Chain]
  BY DEF CacheInv
<1>2. QED BY <1>1, FreshRow, RowStep

\* An outcome does not touch the cache.
LEMMA CompleteCacheInv ==
    ASSUME CacheInv, NEW b \in Backends, NEW outcome, Complete(b, outcome)
    PROVE  CacheInv'
<1>1. ledger' = ledger /\ visible' = visible /\ durable' = durable
  BY DEF Complete, fileVars
<1>2. CASE outcome = "proposal"
  <2> DEFINE r == [llama[b] EXCEPT !.at = "proposed", !.pending = llama[b].chain]
  <2>1. llama' = [llama EXCEPT ![b] = r]
    BY <1>2 DEF Complete, CacheInv
  <2>2. RowInv(llama[b]) /\ llama[b].at = "sampling" /\ ledger' \in [Subjects -> Chain]
    BY <1>1 DEF CacheInv, Complete, At
  <2>3. RowInv(r)
    <3>1. llama[b].chain \in Chain /\ llama[b].subject \in Subjects
      BY <2>2 DEF RowInv, LlamaRow
    <3>2. r \in LlamaRow
      BY <2>2, <3>1 DEF RowInv, LlamaRow
    <3>3. QED BY <2>2, <3>1, <3>2 DEF RowInv, LlamaRow
  <2>4. QED
    <3> HIDE DEF r
    <3> QED BY <1>1, <2>1, <2>2, <2>3, RowStep
<1>3. CASE outcome # "proposal"
  BY <1>1, <1>3, DoneCacheInv DEF Complete
<1>4. QED BY <1>2, <1>3

\* A commit extends the ledger and the backend's view of it.
LEMMA CommitCacheInv ==
    ASSUME CacheInv, NEW b \in Backends, NEW v \in Values, Commit(b, v)
    PROVE  CacheInv'
<1> DEFINE r == [llama[b] EXCEPT !.at = "accepted", !.chain = Append(llama[b].chain, v)]
<1>1. llama' = [llama EXCEPT ![b] = r]
  BY DEF Commit, CacheInv
<1>2. RowInv(llama[b]) /\ llama[b].at = "proposed"
  BY DEF CacheInv, Commit, At
<1>3. llama[b].subject \in Subjects /\ llama[b].chain \in Chain
  BY <1>2 DEF RowInv, LlamaRow
<1>4. Append(llama[b].chain, v) \in Chain
  BY <1>3 DEF Chain
<1>5. RowInv(r)
  BY <1>2, <1>4 DEF RowInv, LlamaRow
<1>6. ledger' \in [Subjects -> Chain]
  BY <1>3, <1>4 DEF Commit, CacheInv
<1>7. visible' = visible /\ durable' = durable
  BY DEF Commit, fileVars
<1>8. QED
  <2> HIDE DEF r
  <2> QED BY <1>1, <1>5, <1>6, <1>7, RowStep

\* A new temporary records the backend's own cache.
LEMMA CreateTemporaryCacheInv ==
    ASSUME CacheInv, NEW b \in Backends, CreateTemporary(b)
    PROVE  CacheInv'
<1> DEFINE f == [subject |-> llama[b].subject, head |-> llama[b].chain,
                 source_head |-> llama[b].pending, tokens |-> llama[b].cached,
                 blob |-> llama[b].native, system |-> System[b], part |-> "none",
                 synced |-> FALSE, corrupt |-> FALSE]
           r == [llama[b] EXCEPT !.at = "header", !.file = {f}]
<1>1. llama' = [llama EXCEPT ![b] = r]
  BY DEF CreateTemporary, CacheInv
<1>2. RowInv(llama[b]) /\ llama[b].at = "accepted" /\ llama[b].pending = Front(llama[b].chain)
  BY DEF CacheInv, CreateTemporary, At, Matching
<1>3. /\ llama[b].subject \in Subjects /\ llama[b].chain \in Chain
      /\ llama[b].cached \in Seq(Token) /\ llama[b].native = llama[b].cached
  BY <1>2 DEF RowInv, LlamaRow
<1>4. Front(llama[b].chain) \in Chain
  BY <1>3 DEF Chain, Front
<1>5. f \in FileRow /\ Truthful(f) /\ f.subject = llama[b].subject
  BY <1>2, <1>3, <1>4 DEF FileRow, Truthful
<1>6. RowInv(r)
  <2> HIDE DEF f
  <2>1. r \in LlamaRow
    BY <1>2, <1>5 DEF RowInv, LlamaRow, Writing
  <2>2. r.file = {f} /\ r.at = "header" /\ r.subject = llama[b].subject
        /\ r.native = llama[b].native /\ r.cached = llama[b].cached
    BY <1>2 DEF RowInv, LlamaRow
  <2>3. QED BY <1>3, <1>5, <2>1, <2>2 DEF RowInv
<1>7. ledger' \in [Subjects -> Chain] /\ visible' = visible /\ durable' = durable
  BY DEF CreateTemporary, CacheInv
<1>8. QED
  <2> HIDE DEF r
  <2> QED BY <1>1, <1>6, <1>7, RowStep

\* The file of a row.
LEMMA RowFile ==
    ASSUME NEW r, RowInv(r), NEW f \in r.file
    PROVE  /\ f \in FileRow /\ Truthful(f) /\ f.subject = r.subject
           /\ r.at \in {"sync", "rename"} => f.part = "state"
           /\ r.at = "rename" => f.synced
BY DEF RowInv, LlamaRow

\* Header, then state.
LEMMA WriteCacheInv ==
    ASSUME CacheInv, NEW b \in Backends, Write(b)
    PROVE  CacheInv'
<1>1. ledger' \in [Subjects -> Chain] /\ visible' = visible /\ durable' = durable
  BY DEF Write, CacheInv, fileVars
<1>2. RowInv(llama[b]) /\ llama[b].at \in {"header", "state"}
  BY DEF Write, At, CacheInv
<1>3. ASSUME NEW part \in {"header", "state"}, NEW pc \in {"state", "sync"},
             pc = "sync" => part = "state",
             llama' = [llama EXCEPT ![b].at = pc, ![b].file = Written(b, part)]
      PROVE  CacheInv'
  <2> DEFINE r == [llama[b] EXCEPT !.at = pc, !.file = Written(b, part)]
  <2>1. llama' = [llama EXCEPT ![b] = r]
    BY <1>3 DEF CacheInv
  <2>2. \A g \in Written(b, part) :
           g \in FileRow /\ Truthful(g) /\ g.subject = llama[b].subject /\ g.part = part
    <3> TAKE g \in Written(b, part)
    <3>1. PICK f \in llama[b].file : g = [f EXCEPT !.part = part]
      BY DEF Written
    <3>2. f \in FileRow /\ Truthful(f) /\ f.subject = llama[b].subject
      BY <1>2, RowFile
    <3>3. QED BY <3>1, <3>2 DEF FileRow, Truthful
  <2>3. RowInv(r)
    <3>1. r \in LlamaRow
      BY <1>2, <2>2 DEF RowInv, LlamaRow, Writing
    <3>2. /\ r.file = Written(b, part) /\ r.at = pc /\ r.subject = llama[b].subject
          /\ r.native = llama[b].native /\ r.cached = llama[b].cached
      BY <1>2 DEF RowInv, LlamaRow
    <3> HIDE DEF r
    <3>3. QED BY <1>2, <1>3, <2>2, <3>1, <3>2 DEF RowInv
  <2>4. QED
    <3> HIDE DEF r
    <3> QED BY <1>1, <2>1, <2>3, RowStep
<1>4. QED BY <1>3 DEF Write

\* fsync of the temporary.
LEMMA SyncFileCacheInv ==
    ASSUME CacheInv, NEW b \in Backends, SyncFile(b)
    PROVE  CacheInv'
<1> DEFINE F == {[f EXCEPT !.synced = TRUE] : f \in llama[b].file}
           r == [llama[b] EXCEPT !.at = "rename", !.file = F]
<1>1. llama' = [llama EXCEPT ![b] = r]
  BY DEF SyncFile, CacheInv
<1>2. RowInv(llama[b]) /\ llama[b].at = "sync"
  BY DEF SyncFile, At, CacheInv
<1>3. \A g \in F : /\ g \in FileRow /\ Truthful(g) /\ g.subject = llama[b].subject
                   /\ g.part = "state" /\ g.synced
  <2> TAKE g \in F
  <2>1. PICK f \in llama[b].file : g = [f EXCEPT !.synced = TRUE]
    OBVIOUS
  <2>2. f \in FileRow /\ Truthful(f) /\ f.subject = llama[b].subject /\ f.part = "state"
    BY <1>2, RowFile
  <2>3. QED BY <2>1, <2>2 DEF FileRow, Truthful
<1>4. RowInv(r)
  <2> HIDE DEF F
  <2>1. r \in LlamaRow
    BY <1>2, <1>3 DEF RowInv, LlamaRow, Writing
  <2>2. /\ r.file = F /\ r.at = "rename" /\ r.subject = llama[b].subject
        /\ r.native = llama[b].native /\ r.cached = llama[b].cached
    BY <1>2 DEF RowInv, LlamaRow
  <2> HIDE DEF r
  <2>3. QED BY <1>2, <1>3, <2>1, <2>2 DEF RowInv
<1>5. ledger' \in [Subjects -> Chain] /\ visible' = visible /\ durable' = durable
  BY DEF SyncFile, CacheInv, fileVars
<1>6. QED
  <2> HIDE DEF r
  <2> QED BY <1>1, <1>4, <1>5, RowStep

\* A step that publishes: every path keeps its invariant.
LEMMA PathStep ==
    ASSUME CacheInv, NEW b \in Backends, NEW r, RowInv(r),
           llama' = [llama EXCEPT ![b] = r], ledger' = ledger,
           visible' = [s \in Subjects |-> visible'[s]], DOMAIN visible' = Subjects,
           durable' = [s \in Subjects |-> durable'[s]], DOMAIN durable' = Subjects,
           \A s \in Subjects : PathInv(s)'
    PROVE  CacheInv'
<1>1. \A c \in Backends : RowInv(llama[c])'
  BY DEF CacheInv, RowInv
<1>2. DOMAIN llama' = Backends /\ llama' = [c \in Backends |-> llama'[c]]
  BY DEF CacheInv
<1>3. QED BY <1>1, <1>2 DEF CacheInv

\* Only a complete and synced file is renamed.
LEMMA RenameCacheInv ==
    ASSUME CacheInv, NEW b \in Backends, Rename(b)
    PROVE  CacheInv'
<1> DEFINE r == [llama[b] EXCEPT !.at = "directory", !.file = {}]
           s == llama[b].subject
<1>1. llama' = [llama EXCEPT ![b] = r] /\ ledger' = ledger
  BY DEF Rename, CacheInv
<1>2. RowInv(llama[b]) /\ llama[b].at = "rename" /\ s \in Subjects
  BY DEF Rename, At, CacheInv, RowInv
<1>3. RowInv(r)
  <2>1. r \in LlamaRow
    BY <1>2 DEF RowInv, LlamaRow, Writing
  <2>2. /\ r.file = {} /\ r.at = "directory" /\ r.subject = llama[b].subject
        /\ r.native = llama[b].native /\ r.cached = llama[b].cached
    BY <1>2 DEF RowInv, LlamaRow
  <2> HIDE DEF r
  <2>3. QED BY <1>2, <2>1, <2>2 DEF RowInv
<1>4. \A f \in llama[b].file :
         f \in FileRow /\ Truthful(f) /\ f.part = "state" /\ f.synced /\ f.subject = s
  BY <1>2, RowFile
<1>5. /\ visible' = [visible EXCEPT ![s] = llama[b].file]
      /\ durable' = [durable EXCEPT ![s] = @ \cup {llama[b].file}]
  BY DEF Rename
<1>6. \A q \in Subjects : PathInv(q)'
  <2> TAKE q \in Subjects
  <2>1. PathInv(q)
    BY DEF CacheInv
  <2>2. CASE q # s
    <3>1. visible'[q] = visible[q] /\ durable'[q] = durable[q]
      BY <1>5, <2>2 DEF CacheInv
    <3>2. QED BY <2>1, <3>1 DEF PathInv
  <2>3. CASE q = s
    <3>1. visible'[q] = llama[b].file /\ durable'[q] = durable[q] \cup {llama[b].file}
      BY <1>2, <1>5, <2>3 DEF CacheInv
    <3>2. visible'[q] \in SUBSET FileRow /\ durable'[q] \in SUBSET SUBSET FileRow
      BY <1>4, <2>1, <3>1 DEF PathInv
    <3>3. \A f \in visible'[q] \cup UNION durable'[q] :
             f \in llama[b].file \/ f \in UNION durable[q]
      BY <3>1
    <3>4. QED BY <1>4, <2>1, <2>3, <3>2, <3>3 DEF PathInv
  <2>4. QED BY <2>2, <2>3
<1>7. /\ visible' = [q \in Subjects |-> visible'[q]] /\ DOMAIN visible' = Subjects
      /\ durable' = [q \in Subjects |-> durable'[q]] /\ DOMAIN durable' = Subjects
  BY <1>5 DEF CacheInv
<1>8. QED
  <2> HIDE DEF r
  <2> QED BY <1>1, <1>3, <1>6, <1>7, PathStep

\* fsync of the directory makes what is visible durable.
LEMMA SyncDirectoryCacheInv ==
    ASSUME CacheInv, NEW b \in Backends, SyncDirectory(b)
    PROVE  CacheInv'
<1> DEFINE r == [llama[b] EXCEPT !.at = "idle", !.subject = NoSubject, !.chain = <<>>,
                                 !.file = {}, !.pending = NoHead]
<1>1. llama' = [llama EXCEPT ![b] = r] /\ ledger' = ledger
  BY DEF SyncDirectory, CacheInv
<1>2. RowInv(llama[b])
  BY DEF CacheInv
<1>3. RowInv(r)
  <2>1. <<>> \in Chain /\ {} \in SUBSET FileRow
    BY DEF Chain
  <2>2. r \in LlamaRow
    BY <1>2, <2>1 DEF RowInv, LlamaRow
  <2>3. /\ r.file = {} /\ r.at = "idle"
        /\ r.native = llama[b].native /\ r.cached = llama[b].cached
    BY <1>2 DEF RowInv, LlamaRow
  <2> HIDE DEF r
  <2>4. QED BY <1>2, <2>2, <2>3 DEF RowInv
<1>4. visible' = visible /\ durable' = [s \in Subjects |-> {visible[s]}]
  BY DEF SyncDirectory
<1>5. \A s \in Subjects : PathInv(s)'
  BY <1>4 DEF CacheInv, PathInv
<1>6. /\ visible' = [q \in Subjects |-> visible'[q]] /\ DOMAIN visible' = Subjects
      /\ durable' = [q \in Subjects |-> durable'[q]] /\ DOMAIN durable' = Subjects
  BY <1>4 DEF CacheInv
<1>7. QED
  <2> HIDE DEF r
  <2> QED BY <1>1, <1>3, <1>5, <1>6, PathStep

\* All processes are restarted.
LEMMA RestartStep ==
    ASSUME CacheInv, llama' = [b \in Backends |-> Fresh], ledger' \in [Subjects -> Chain],
           visible' = [s \in Subjects |-> visible'[s]], DOMAIN visible' = Subjects,
           durable' = [s \in Subjects |-> durable'[s]], DOMAIN durable' = Subjects,
           \A s \in Subjects : PathInv(s)'
    PROVE  CacheInv'
<1>1. \A c \in Backends : RowInv(llama[c])'
  BY FreshRow DEF RowInv
<1>2. QED BY <1>1 DEF CacheInv

\* Every file a path may name is synced, so a power failure tears none.
LEMMA PowerFailureCacheInv ==
    ASSUME CacheInv, PowerFailure
    PROVE  CacheInv'
<1>1. PICK path \in [Subjects -> UNION {Survivors(s) : s \in Subjects}] :
         /\ \A s \in Subjects : path[s] \in Survivors(s)
         /\ visible' = path
         /\ durable' = [s \in Subjects |-> {path[s]}]
  BY DEF PowerFailure
<1>2. ASSUME NEW s \in Subjects PROVE PathInv(s)'
  <2>1. PathInv(s)
    BY DEF CacheInv
  <2>2. Survivors(s) = durable[s]
    BY <2>1 DEF Survivors, PathInv
  <2>3. path[s] \in durable[s] /\ visible'[s] = path[s] /\ durable'[s] = {path[s]}
    BY <1>1, <2>2
  <2>4. QED BY <2>1, <2>3 DEF PathInv
<1>3. llama' = [b \in Backends |-> Fresh] /\ ledger' \in [Subjects -> Chain]
  BY DEF PowerFailure, CacheInv
<1>4. QED BY <1>1, <1>2, <1>3, RestartStep

\* Damage changes no field a path's invariant speaks of.
LEMMA CorruptCacheInv ==
    ASSUME CacheInv, NEW s \in Subjects, Corrupt(s)
    PROVE  CacheInv'
<1> DEFINE D == {[f EXCEPT !.corrupt = TRUE] : f \in visible[s]}
<1>1. /\ visible' = [visible EXCEPT ![s] = D]
      /\ durable' = [durable EXCEPT ![s] = (@ \ {visible[s]}) \cup {D}]
      /\ llama' = llama /\ ledger' = ledger
  BY DEF Corrupt
<1>2. PathInv(s)
  BY DEF CacheInv
<1>3. \A g \in D : /\ g \in FileRow /\ Truthful(g)
                   /\ g.part = "state" /\ g.synced /\ g.subject = s
  <2> TAKE g \in D
  <2>1. PICK f \in visible[s] : g = [f EXCEPT !.corrupt = TRUE]
    OBVIOUS
  <2>2. f \in FileRow /\ Truthful(f) /\ f.part = "state" /\ f.synced /\ f.subject = s
    BY <1>2 DEF PathInv
  <2>3. QED BY <2>1, <2>2 DEF FileRow, Truthful
<1> HIDE DEF D
<1>4. \A q \in Subjects : PathInv(q)'
  <2> TAKE q \in Subjects
  <2>1. PathInv(q)
    BY DEF CacheInv
  <2>2. CASE q # s
    <3>1. visible'[q] = visible[q] /\ durable'[q] = durable[q]
      BY <1>1, <2>2 DEF CacheInv
    <3>2. QED BY <2>1, <3>1 DEF PathInv
  <2>3. CASE q = s
    <3>1. visible'[q] = D /\ durable'[q] = (durable[q] \ {visible[q]}) \cup {D}
      BY <1>1, <2>3 DEF CacheInv
    <3>2. visible'[q] \in SUBSET FileRow /\ durable'[q] \in SUBSET SUBSET FileRow
      BY <1>3, <2>1, <3>1 DEF PathInv
    <3>3. \A f \in visible'[q] \cup UNION durable'[q] : f \in D \/ f \in UNION durable[q]
      BY <3>1
    <3>4. QED BY <1>3, <2>1, <2>3, <3>2, <3>3 DEF PathInv
  <2>4. QED BY <2>2, <2>3
<1>5. /\ visible' = [q \in Subjects |-> visible'[q]] /\ DOMAIN visible' = Subjects
      /\ durable' = [q \in Subjects |-> durable'[q]] /\ DOMAIN durable' = Subjects
  BY <1>1 DEF CacheInv
<1>6. \A c \in Backends : RowInv(llama[c])'
  BY <1>1 DEF CacheInv, RowInv
<1>7. QED BY <1>1, <1>4, <1>5, <1>6 DEF CacheInv

\* An older database is put back.
LEMMA RestoreBackupCacheInv ==
    ASSUME CacheInv, NEW s \in Subjects, NEW n \in Nat, RestoreBackup(s, n)
    PROVE  CacheInv'
<1>1. ledger[s] \in Seq(Values) /\ n < Len(ledger[s])
  BY DEF CacheInv, Chain, RestoreBackup
<1>2. SubSeq(ledger[s], 1, n) \in Chain
  BY <1>1 DEF Chain
<1>3. ledger' \in [Subjects -> Chain]
  BY <1>2 DEF RestoreBackup, CacheInv
<1>4. /\ visible' = visible /\ durable' = durable
      /\ llama' = [b \in Backends |-> Fresh]
  BY DEF RestoreBackup
<1>5. \A q \in Subjects : PathInv(q)'
  BY <1>4 DEF CacheInv, PathInv
<1>6. QED BY <1>3, <1>4, <1>5, RestartStep DEF CacheInv

\* Every step of every process, and every fault.
LEMMA NextCacheInv == CacheInv /\ [CheckpointNext]_checkpointVars => CacheInv'
<1> SUFFICES ASSUME CacheInv, [CheckpointNext]_checkpointVars PROVE CacheInv'
  OBVIOUS
<1>1. CASE UNCHANGED checkpointVars
  BY <1>1 DEF checkpointVars, fileVars, CacheInv, RowInv, PathInv
<1>2. ASSUME NEW b \in Backends, BackendNext(b) PROVE CacheInv'
  <2>1. CASE \E s \in Subjects : Evaluate(b, s)
    BY <2>1, EvaluateCacheInv
  <2>2. CASE Sample(b)
    BY <2>2, SampleCacheInv
  <2>3. CASE \E outcome \in {"proposal", "abstention"} : Complete(b, outcome)
    BY <2>3, CompleteCacheInv
  <2>4. CASE RespondFails(b) \/ ReleaseContext(b) \/ Crash(b)
    BY <2>4, FreshCacheInv DEF RespondFails, ReleaseContext, Crash, fileVars
  <2>5. CASE \E v \in Values : Commit(b, v)
    BY <2>5, CommitCacheInv
  <2>6. CASE Reject(b) \/ SaveFails(b)
    BY <2>6, DoneCacheInv DEF Reject, SaveFails, fileVars
  <2>7. CASE CreateTemporary(b)
    BY <2>7, CreateTemporaryCacheInv
  <2>8. CASE Write(b)
    BY <2>8, WriteCacheInv
  <2>9. CASE SyncFile(b)
    BY <2>9, SyncFileCacheInv
  <2>10. CASE Rename(b)
    BY <2>10, RenameCacheInv
  <2>11. CASE SyncDirectory(b)
    BY <2>11, SyncDirectoryCacheInv
  <2>12. QED
    BY <1>2, <2>1, <2>2, <2>3, <2>4, <2>5, <2>6, <2>7, <2>8, <2>9, <2>10, <2>11
    DEF BackendNext
<1>3. CASE PowerFailure
  BY <1>3, PowerFailureCacheInv
<1>4. ASSUME NEW s \in Subjects, Corrupt(s) PROVE CacheInv'
  BY <1>4, CorruptCacheInv
<1>5. ASSUME NEW s \in Subjects, NEW n \in 0 .. LedgerBound, RestoreBackup(s, n) PROVE CacheInv'
  BY <1>5, RestoreBackupCacheInv, CheckpointAssumption
<1>6. QED BY <1>1, <1>2, <1>3, <1>4, <1>5 DEF CheckpointNext

\* The inductive invariant holds throughout.
THEOREM CacheInvariant == CheckpointSpec => []CacheInv
BY InitCacheInv, NextCacheInv, PTL DEF CheckpointSpec

\* A backend samples from the canonical prompt of the present it was given, and
\* its token vector describes its native memory, for every interleaving of any
\* number of processes, commits, crashes, damaged, stale and foreign files.
THEOREM PromptsAreCanonical == CheckpointSpec => []PromptIsCanonical
<1>1. CacheInv => PromptIsCanonical
  BY DEF CacheInv, RowInv, PromptIsCanonical, At
<1>2. QED BY <1>1, CacheInvariant, PTL

\* A checkpoint path never names a partial file, whichever writer dies at
\* whichever step, and not after a power failure either.
THEOREM PublicationIsAtomic == CheckpointSpec => []PublishedIsComplete
<1>1. CacheInv => PublishedIsComplete
  BY DEF CacheInv, PathInv, PublishedIsComplete
<1>2. QED BY <1>1, CacheInvariant, PTL

-----------------------------------------------------------------------------
(* What a published file holds.                                            *)

\* A file of one of the commits H: the accepted computation on its parent.
AcceptedFile(f, H) ==
    /\ f.head \in H[f.subject]
    /\ f.source_head = Front(f.head)
    /\ IsPrefix(prompt(f.subject, f.source_head), f.tokens)
    /\ Len(f.tokens) < ContextTokens

\* What a backend has to offer: a proposal within the token limit, then an
\* accepted one, then its file.
OfferInv(r, H) ==
    /\ r.at = "sampling" =>
          /\ Len(prompt(r.subject, r.chain)) + MaxOutput <= ContextTokens
          /\ Len(r.cached) <= Len(prompt(r.subject, r.chain)) + MaxOutput
    /\ r.at = "proposed" =>
          /\ IsPrefix(prompt(r.subject, r.chain), r.cached)
          /\ Len(r.cached) < ContextTokens
    /\ r.at = "accepted" =>
          /\ r.chain \in H[r.subject]
          /\ IsPrefix(prompt(r.subject, Front(r.chain)), r.cached)
          /\ Len(r.cached) < ContextTokens
    /\ \A f \in r.file : AcceptedFile(f, H)

AcceptInv ==
    /\ DOMAIN history = Subjects /\ history = [s \in Subjects |-> history[s]]
    /\ \A b \in Backends : OfferInv(llama[b], history)
    /\ \A s \in Subjects : \A f \in visible[s] \cup UNION durable[s] : AcceptedFile(f, history)

\* A temporary is one file, of a writer that has not yet renamed it.
OwnFile(r) ==
    \/ r.at \in {"header", "state", "sync", "rename"} /\ \E f : r.file = {f}
    \/ r.at \notin {"header", "state", "sync", "rename"} /\ r.file = {}

Holders == {b \in Backends : llama[b].file # {}}

TemporaryInv ==
    /\ \A b \in Backends : OwnFile(llama[b])
    /\ IsFiniteSet(Holders)
    /\ leaked \in Nat
    /\ temporaries = leaked + Cardinality(Holders)

\* A commit is never taken back from the history.
LEMMA AcceptedStays ==
    ASSUME NEW H, NEW I, \A s \in Subjects : H[s] \subseteq I[s]
    PROVE  /\ \A f \in FileRow : AcceptedFile(f, H) => AcceptedFile(f, I)
           /\ \A r : RowInv(r) /\ OfferInv(r, H) => OfferInv(r, I)
<1>1. \A f \in FileRow : AcceptedFile(f, H) => AcceptedFile(f, I)
  BY DEF FileRow, AcceptedFile
<1>2. \A r : RowInv(r) /\ OfferInv(r, H) => OfferInv(r, I)
  <2> SUFFICES ASSUME NEW r, RowInv(r), OfferInv(r, H) PROVE OfferInv(r, I)
    OBVIOUS
  <2>1. \A f \in r.file : AcceptedFile(f, I)
    BY <1>1, RowFile DEF OfferInv
  <2>2. r.at = "accepted" => r.subject \in Subjects
    BY DEF RowInv
  <2>3. QED BY <2>1, <2>2 DEF OfferInv
<1>3. QED BY <1>1, <1>2

\* A step that changes one backend and no path.
LEMMA OfferStep ==
    ASSUME CacheInv, AcceptInv, NEW b \in Backends, NEW r, OfferInv(r, history'),
           llama' = [llama EXCEPT ![b] = r], visible' = visible, durable' = durable,
           DOMAIN history' = Subjects, history' = [s \in Subjects |-> history'[s]],
           \A s \in Subjects : history[s] \subseteq history'[s]
    PROVE  AcceptInv'
<1>1. \A c \in Backends : OfferInv(llama'[c], history')
  <2> TAKE c \in Backends
  <2>1. RowInv(llama[c]) /\ OfferInv(llama[c], history)
    BY DEF CacheInv, AcceptInv
  <2>2. OfferInv(llama[c], history')
    BY <2>1, AcceptedStays
  <2>3. llama'[c] = IF c = b THEN r ELSE llama[c]
    BY DEF CacheInv
  <2>4. QED BY <2>2, <2>3
<1>2. \A s \in Subjects : \A f \in visible'[s] \cup UNION durable'[s] : AcceptedFile(f, history')
  <2> SUFFICES ASSUME NEW s \in Subjects, NEW f \in visible[s] \cup UNION durable[s]
               PROVE  AcceptedFile(f, history')
    OBVIOUS
  <2>1. f \in FileRow /\ AcceptedFile(f, history)
    BY DEF CacheInv, PathInv, AcceptInv
  <2>2. QED BY <2>1, AcceptedStays
<1>3. QED BY <1>1, <1>2 DEF AcceptInv

\* The same, when no commit is made.
LEMMA OfferKept ==
    ASSUME CacheInv, AcceptInv, NEW b \in Backends, NEW r, OfferInv(r, history),
           llama' = [llama EXCEPT ![b] = r], visible' = visible, durable' = durable,
           history' = history
    PROVE  AcceptInv'
<1>1. /\ OfferInv(r, history') /\ DOMAIN history' = Subjects
      /\ history' = [s \in Subjects |-> history'[s]]
      /\ \A s \in Subjects : history[s] \subseteq history'[s]
  BY DEF AcceptInv
<1>2. QED BY <1>1, OfferStep

\* A backend that is idle, without a file, offers nothing.
LEMMA NothingToOffer ==
    ASSUME NEW r, NEW H, r.at = "idle", r.file = {}
    PROVE  OfferInv(r, H)
BY DEF OfferInv

LEMMA InitAcceptInv == CheckpointInit => AcceptInv
<1> SUFFICES ASSUME CheckpointInit PROVE AcceptInv
  OBVIOUS
<1>1. history = [s \in Subjects |-> {<<>>}]
  BY DEF CheckpointInit
<1>2. \A b \in Backends : OfferInv(llama[b], history)
  <2>1. Fresh.at = "idle" /\ Fresh.file = {}
    BY DEF Fresh
  <2>2. OfferInv(Fresh, history)
    BY <2>1, NothingToOffer
  <2>3. QED BY <2>2 DEF CheckpointInit
<1>3. \A s \in Subjects : visible[s] \cup UNION durable[s] = {}
  BY DEF CheckpointInit
<1>4. QED BY <1>1, <1>2, <1>3 DEF AcceptInv

\* The end of a step, and a new process.
LEMMA DoneAcceptInv ==
    ASSUME CacheInv, AcceptInv, NEW b \in Backends,
           Done(b) \/ llama' = [llama EXCEPT ![b] = Fresh],
           history' = history, visible' = visible, durable' = durable
    PROVE  AcceptInv'
<1>1. PICK r : r.at = "idle" /\ r.file = {} /\ llama' = [llama EXCEPT ![b] = r]
  <2>1. CASE Done(b)
    <3> DEFINE q == [llama[b] EXCEPT !.at = "idle", !.subject = NoSubject,
                                     !.chain = <<>>, !.file = {}]
    <3>1. llama' = [llama EXCEPT ![b] = q]
      BY <2>1 DEF Done, CacheInv
    <3>2. q.at = "idle" /\ q.file = {}
      BY DEF CacheInv, RowInv, LlamaRow
    <3> HIDE DEF q
    <3>3. QED BY <3>1, <3>2
  <2>2. CASE llama' = [llama EXCEPT ![b] = Fresh]
    <3>1. Fresh.at = "idle" /\ Fresh.file = {}
      BY DEF Fresh
    <3>2. QED BY <2>2, <3>1
  <2>3. QED BY <2>1, <2>2
<1>2. OfferInv(r, history)
  BY <1>1, NothingToOffer
<1>3. QED BY <1>1, <1>2, OfferKept

\* The prompt leaves room for the output.
LEMMA EvaluateAcceptInv ==
    ASSUME CacheInv, AcceptInv, NEW b \in Backends, NEW s \in Subjects, Evaluate(b, s)
    PROVE  AcceptInv'
<1>1. PICK tokens : tokens = prompt(s, ledger[s])
  OBVIOUS
<1>2. Fits(tokens) /\ tokens \in Seq(Token)
  BY <1>1, PromptType DEF Evaluate, CacheInv
<1>3. PICK native :
         llama' = [llama EXCEPT ![b] =
             [at |-> "sampling", context |-> TRUE, native |-> native,
              cached |-> tokens, cached_subject |-> s, pending |-> NoHead,
              subject |-> s, chain |-> ledger[s], file |-> {}]]
  BY <1>1 DEF Evaluate
<1>4. PICK r : r = [at |-> "sampling", context |-> TRUE, native |-> native,
                    cached |-> tokens, cached_subject |-> s, pending |-> NoHead,
                    subject |-> s, chain |-> ledger[s], file |-> {}]
  OBVIOUS
<1>5. /\ r.at = "sampling" /\ r.cached = tokens /\ r.subject = s
      /\ r.chain = ledger[s] /\ r.file = {}
  BY <1>4
<1>6. OfferInv(r, history)
  <2>1. Len(tokens) + MaxOutput <= ContextTokens /\ Len(tokens) <= Len(tokens) + MaxOutput
    <3>1. Len(tokens) \in Nat
      BY <1>2, LenProperties
    <3>2. QED BY <1>2, <3>1, CheckpointAssumption DEF Fits
  <2>2. QED BY <1>1, <1>5, <2>1 DEF OfferInv
<1>7. QED BY <1>3, <1>4, <1>6, OfferKept DEF Evaluate, fileVars


\* A sampled token is within the output limit.
LEMMA SampleAcceptInv ==
    ASSUME CacheInv, AcceptInv, NEW b \in Backends, Sample(b)
    PROVE  AcceptInv'
<1> DEFINE r == [llama[b] EXCEPT !.native = Append(@, "out"), !.cached = Append(@, "out")]
           p == prompt(llama[b].subject, llama[b].chain)
<1>1. llama' = [llama EXCEPT ![b] = r]
  BY DEF Sample, CacheInv
<1>2. /\ RowInv(llama[b]) /\ OfferInv(llama[b], history) /\ llama[b].at = "sampling"
      /\ Len(llama[b].cached) - Len(p) < MaxOutput
  BY DEF Sample, At, Generated, CacheInv, AcceptInv
<1>3. "out" \in Token /\ llama[b].cached \in Seq(Token) /\ p \in Seq(Token)
  BY <1>2, PromptType DEF RowInv, LlamaRow, Token
<1>4. /\ r.at = "sampling" /\ r.subject = llama[b].subject /\ r.chain = llama[b].chain
      /\ r.file = llama[b].file /\ r.cached = Append(llama[b].cached, "out")
  BY <1>2 DEF RowInv, LlamaRow
<1>5. Len(r.cached) <= Len(p) + MaxOutput
  <2> HIDE DEF p, r
  <2>1. Len(p) \in Nat /\ Len(llama[b].cached) \in Nat /\ Len(r.cached) = Len(llama[b].cached) + 1
    BY <1>3, <1>4
  <2>2. MaxOutput \in Nat
    BY CheckpointAssumption
  <2>3. QED BY <1>2, <2>1, <2>2
<1>6. OfferInv(r, history)
  <2> HIDE DEF r
  <2> QED BY <1>2, <1>4, <1>5 DEF OfferInv
<1>7. QED
  <2> HIDE DEF r
  <2> QED BY <1>1, <1>6, OfferKept DEF Sample, fileVars

\* A proposal extends its prompt and leaves room for the token that ended it.
LEMMA CompleteAcceptInv ==
    ASSUME CacheInv, AcceptInv, NEW b \in Backends, NEW outcome, Complete(b, outcome)
    PROVE  AcceptInv'
<1>1. history' = history /\ visible' = visible /\ durable' = durable
  BY DEF Complete, fileVars
<1>2. CASE outcome # "proposal"
  BY <1>1, <1>2, DoneAcceptInv DEF Complete
<1>3. CASE outcome = "proposal"
  <2> DEFINE r == [llama[b] EXCEPT !.at = "proposed", !.pending = llama[b].chain]
             p == prompt(llama[b].subject, llama[b].chain)
  <2>1. llama' = [llama EXCEPT ![b] = r]
    BY <1>3 DEF Complete, CacheInv
  <2>2. /\ RowInv(llama[b]) /\ OfferInv(llama[b], history) /\ llama[b].at = "sampling"
        /\ Len(llama[b].cached) - Len(p) < MaxOutput
    BY DEF Complete, At, Generated, CacheInv, AcceptInv
  <2>3. llama[b].cached \in Seq(Token) /\ p \in Seq(Token)
    BY <2>2, PromptType DEF RowInv, LlamaRow
  <2>4. /\ r.at = "proposed" /\ r.subject = llama[b].subject /\ r.chain = llama[b].chain
        /\ r.file = llama[b].file /\ r.cached = llama[b].cached
    BY <2>2 DEF RowInv, LlamaRow
  <2>5. IsPrefix(p, llama[b].cached) /\ Len(p) + MaxOutput <= ContextTokens
    BY <2>2 DEF RowInv, OfferInv
  <2>6. Len(llama[b].cached) < ContextTokens
    <3> HIDE DEF p
    <3>1. Len(p) \in Nat /\ Len(llama[b].cached) \in Nat
      BY <2>3, LenProperties
    <3>2. QED BY <2>2, <2>5, <3>1, CheckpointAssumption
  <2>7. OfferInv(r, history)
    <3> HIDE DEF r
    <3> QED BY <2>2, <2>4, <2>5, <2>6 DEF OfferInv
  <2>8. QED
    <3> HIDE DEF r
    <3> QED BY <1>1, <2>1, <2>7, OfferKept
<1>4. QED BY <1>2, <1>3

\* The commit enters the history before anything is written.
LEMMA CommitAcceptInv ==
    ASSUME CacheInv, AcceptInv, NEW b \in Backends, NEW v \in Values, Commit(b, v)
    PROVE  AcceptInv'
<1> DEFINE next == Append(llama[b].chain, v)
           s == llama[b].subject
           r == [llama[b] EXCEPT !.at = "accepted", !.chain = next]
<1>1. /\ llama' = [llama EXCEPT ![b] = r] /\ visible' = visible /\ durable' = durable
      /\ history' = [history EXCEPT ![s] = @ \cup {next}]
  BY DEF Commit, CacheInv, fileVars
<1>2. RowInv(llama[b]) /\ OfferInv(llama[b], history) /\ llama[b].at = "proposed"
  BY DEF CacheInv, AcceptInv, Commit, At
<1>3. s \in Subjects /\ llama[b].chain \in Seq(Values)
  BY <1>2 DEF RowInv, LlamaRow, Chain
<1>4. Front(next) = llama[b].chain
  BY <1>3 DEF Front
<1>5. /\ DOMAIN history' = Subjects /\ history' = [q \in Subjects |-> history'[q]]
      /\ \A q \in Subjects : history[q] \subseteq history'[q]
      /\ next \in history'[s]
  <2> HIDE DEF next, s
  <2> QED BY <1>1, <1>3 DEF AcceptInv
<1>6. /\ r.at = "accepted" /\ r.subject = s /\ r.chain = next
      /\ r.file = llama[b].file /\ r.cached = llama[b].cached
  BY <1>2 DEF RowInv, LlamaRow
<1>7. OfferInv(llama[b], history')
  BY <1>2, <1>5, AcceptedStays
<1>8. OfferInv(r, history')
  <2> HIDE DEF r, next
  <2> QED BY <1>2, <1>4, <1>5, <1>6, <1>7 DEF OfferInv
<1>9. QED
  <2> HIDE DEF r, next, s
  <2> QED BY <1>1, <1>5, <1>8, OfferStep

\* A temporary is begun only for the accepted computation itself.
LEMMA CreateTemporaryAcceptInv ==
    ASSUME CacheInv, AcceptInv, NEW b \in Backends, CreateTemporary(b)
    PROVE  AcceptInv'
<1> DEFINE f == [subject |-> llama[b].subject, head |-> llama[b].chain,
                 source_head |-> llama[b].pending, tokens |-> llama[b].cached,
                 blob |-> llama[b].native, system |-> System[b], part |-> "none",
                 synced |-> FALSE, corrupt |-> FALSE]
           r == [llama[b] EXCEPT !.at = "header", !.file = {f}]
<1>1. llama' = [llama EXCEPT ![b] = r]
  BY DEF CreateTemporary, CacheInv
<1>2. /\ RowInv(llama[b]) /\ OfferInv(llama[b], history) /\ llama[b].at = "accepted"
      /\ llama[b].pending = Front(llama[b].chain)
  BY DEF CacheInv, AcceptInv, CreateTemporary, At, Matching
<1>3. /\ f.subject = llama[b].subject /\ f.head = llama[b].chain
      /\ f.source_head = llama[b].pending /\ f.tokens = llama[b].cached
  OBVIOUS
<1>4. AcceptedFile(f, history)
  <2> HIDE DEF f
  <2> QED BY <1>2, <1>3 DEF OfferInv, AcceptedFile
<1>5. OfferInv(r, history)
  <2> HIDE DEF f
  <2>1. r.at = "header" /\ r.file = {f}
    BY <1>2 DEF RowInv, LlamaRow
  <2> HIDE DEF r
  <2>2. QED BY <1>4, <2>1 DEF OfferInv
<1>6. QED
  <2> HIDE DEF r
  <2> QED BY <1>1, <1>5, OfferKept DEF CreateTemporary

\* Writing, syncing and damage leave alone what a file claims.
LEMMA AcceptedFields ==
    ASSUME NEW f \in FileRow, NEW H, AcceptedFile(f, H)
    PROVE  /\ \A part \in {"none", "header", "state"} : AcceptedFile([f EXCEPT !.part = part], H)
           /\ AcceptedFile([f EXCEPT !.synced = TRUE], H)
           /\ AcceptedFile([f EXCEPT !.corrupt = TRUE], H)
BY DEF FileRow, AcceptedFile

LEMMA WriteAcceptInv ==
    ASSUME CacheInv, AcceptInv, NEW b \in Backends, Write(b) \/ SyncFile(b)
    PROVE  AcceptInv'
<1>1. /\ RowInv(llama[b]) /\ OfferInv(llama[b], history)
      /\ history' = history /\ visible' = visible /\ durable' = durable
  BY DEF CacheInv, AcceptInv, Write, SyncFile, fileVars
<1>2. PICK pc, F : /\ llama' = [llama EXCEPT ![b].at = pc, ![b].file = F]
                   /\ pc \in {"state", "sync", "rename"}
                   /\ \/ \E part \in {"header", "state"} : F = Written(b, part)
                      \/ F = {[f EXCEPT !.synced = TRUE] : f \in llama[b].file}
  <2>1. CASE Write(b)
    BY <2>1 DEF Write
  <2>2. CASE SyncFile(b)
    <3>1. llama' = [llama EXCEPT ![b].at = "rename",
                         ![b].file = {[f EXCEPT !.synced = TRUE] : f \in llama[b].file}]
      BY <2>2 DEF SyncFile, CacheInv
    <3>2. QED BY <3>1
  <2>3. QED BY <2>1, <2>2
<1>3. \A g \in F : AcceptedFile(g, history)
  <2> TAKE g \in F
  <2>1. \A f \in llama[b].file : f \in FileRow /\ AcceptedFile(f, history)
    BY <1>1, RowFile DEF OfferInv
  <2>2. CASE \E part \in {"header", "state"} : F = Written(b, part)
    <3>1. PICK part \in {"header", "state"} : F = Written(b, part)
      BY <2>2
    <3>2. PICK f \in llama[b].file : g = [f EXCEPT !.part = part]
      BY <3>1 DEF Written
    <3>3. f \in FileRow /\ AcceptedFile(f, history) /\ part \in {"none", "header", "state"}
      BY <2>1
    <3>4. QED BY <3>2, <3>3, AcceptedFields
  <2>3. CASE F = {[f EXCEPT !.synced = TRUE] : f \in llama[b].file}
    BY <2>1, <2>3, AcceptedFields
  <2>4. QED BY <1>2, <2>2, <2>3
<1> DEFINE r == [llama[b] EXCEPT !.at = pc, !.file = F]
<1>4. llama' = [llama EXCEPT ![b] = r]
  BY <1>2 DEF CacheInv
<1>5. r.at = pc /\ r.file = F
  BY <1>1 DEF RowInv, LlamaRow
<1>6. OfferInv(r, history)
  <2> HIDE DEF r
  <2> QED BY <1>2, <1>3, <1>5 DEF OfferInv
<1>7. QED
  <2> HIDE DEF r
  <2> QED BY <1>1, <1>4, <1>6, OfferKept


\* What is published is what the writer had to offer.
LEMMA RenameAcceptInv ==
    ASSUME CacheInv, AcceptInv, NEW b \in Backends, Rename(b)
    PROVE  AcceptInv'
<1> DEFINE r == [llama[b] EXCEPT !.at = "directory", !.file = {}]
           s == llama[b].subject
<1>1. /\ llama' = [llama EXCEPT ![b] = r] /\ history' = history
      /\ visible' = [visible EXCEPT ![s] = llama[b].file]
      /\ durable' = [durable EXCEPT ![s] = @ \cup {llama[b].file}]
  BY DEF Rename, CacheInv
<1>2. RowInv(llama[b]) /\ OfferInv(llama[b], history)
  BY DEF CacheInv, AcceptInv
<1>3. r.at = "directory" /\ r.file = {}
  BY <1>2 DEF RowInv, LlamaRow
<1>4. \A c \in Backends : OfferInv(llama'[c], history')
  <2>1. OfferInv(r, history)
    <3> HIDE DEF r
    <3> QED BY <1>3 DEF OfferInv
  <2> HIDE DEF r
  <2>2. \A c \in Backends : llama'[c] = IF c = b THEN r ELSE llama[c]
    BY <1>1 DEF CacheInv
  <2>3. QED BY <1>1, <2>1, <2>2 DEF AcceptInv
<1>5. \A q \in Subjects : \A f \in visible'[q] \cup UNION durable'[q] : AcceptedFile(f, history')
  <2> HIDE DEF r
  <2> TAKE q \in Subjects
  <2>1. \A f \in visible[q] \cup UNION durable[q] : AcceptedFile(f, history)
    BY DEF AcceptInv
  <2>2. \A f \in llama[b].file : AcceptedFile(f, history)
    BY <1>2 DEF OfferInv
  <2>3. /\ visible'[q] = (IF q = s THEN llama[b].file ELSE visible[q])
        /\ durable'[q] = (IF q = s THEN durable[q] \cup {llama[b].file} ELSE durable[q])
    BY <1>1 DEF CacheInv
  <2>4. QED BY <1>1, <2>1, <2>2, <2>3
<1>6. QED BY <1>1, <1>4, <1>5 DEF AcceptInv

LEMMA SyncDirectoryAcceptInv ==
    ASSUME CacheInv, AcceptInv, NEW b \in Backends, SyncDirectory(b)
    PROVE  AcceptInv'
<1> DEFINE r == [llama[b] EXCEPT !.at = "idle", !.subject = NoSubject, !.chain = <<>>,
                                 !.file = {}, !.pending = NoHead]
<1>1. /\ llama' = [llama EXCEPT ![b] = r] /\ history' = history /\ visible' = visible
      /\ durable' = [s \in Subjects |-> {visible[s]}]
  BY DEF SyncDirectory, CacheInv
<1>2. r.at = "idle" /\ r.file = {}
  <2>1. RowInv(llama[b])
    BY DEF CacheInv
  <2>2. QED BY <2>1 DEF RowInv, LlamaRow
<1> HIDE DEF r
<1>3. \A c \in Backends : OfferInv(llama'[c], history')
  <2>1. \A c \in Backends : llama'[c] = IF c = b THEN r ELSE llama[c]
    BY <1>1 DEF CacheInv
  <2>2. OfferInv(r, history)
    BY <1>2, NothingToOffer
  <2>3. QED BY <1>1, <2>1, <2>2 DEF AcceptInv
<1>4. \A q \in Subjects : \A f \in visible'[q] \cup UNION durable'[q] : AcceptedFile(f, history')
  BY <1>1 DEF AcceptInv
<1>5. QED BY <1>1, <1>3, <1>4 DEF AcceptInv

\* A fault that restarts every process.
LEMMA RestartAcceptInv ==
    ASSUME AcceptInv, llama' = [b \in Backends |-> Fresh], history' = history,
           \A s \in Subjects : \A f \in visible'[s] \cup UNION durable'[s] :
              AcceptedFile(f, history)
    PROVE  AcceptInv'
<1>1. Fresh.at = "idle" /\ Fresh.file = {}
  BY DEF Fresh
<1>2. OfferInv(Fresh, history)
  BY <1>1, NothingToOffer
<1>3. QED BY <1>2 DEF AcceptInv

LEMMA FaultAcceptInv ==
    ASSUME CacheInv, AcceptInv,
           \/ PowerFailure
           \/ \E s \in Subjects : Corrupt(s) \/ \E n \in 0 .. LedgerBound : RestoreBackup(s, n)
    PROVE  AcceptInv'
<1>1. CASE PowerFailure
  <2>1. PICK path \in [Subjects -> UNION {Survivors(s) : s \in Subjects}] :
           /\ \A s \in Subjects : path[s] \in Survivors(s)
           /\ visible' = path
           /\ durable' = [s \in Subjects |-> {path[s]}]
    BY <1>1 DEF PowerFailure
  <2>2. llama' = [b \in Backends |-> Fresh] /\ history' = history
    BY <1>1 DEF PowerFailure
  <2>3. ASSUME NEW s \in Subjects, NEW f \in visible'[s] \cup UNION durable'[s]
        PROVE  AcceptedFile(f, history)
    <3>1. PathInv(s)
      BY DEF CacheInv
    <3>2. Survivors(s) = durable[s]
      BY <3>1 DEF Survivors, PathInv
    <3>3. f \in UNION durable[s]
      BY <2>1, <2>3, <3>2
    <3>4. QED BY <3>3 DEF AcceptInv
  <2>4. QED BY <2>2, <2>3, RestartAcceptInv
<1>2. ASSUME NEW s \in Subjects, Corrupt(s) PROVE AcceptInv'
  <2> DEFINE D == {[f EXCEPT !.corrupt = TRUE] : f \in visible[s]}
  <2>1. /\ visible' = [visible EXCEPT ![s] = D]
        /\ durable' = [durable EXCEPT ![s] = (@ \ {visible[s]}) \cup {D}]
        /\ llama' = llama /\ history' = history
    BY <1>2 DEF Corrupt
  <2>2. \A f \in visible[s] : f \in FileRow /\ AcceptedFile(f, history)
    BY DEF CacheInv, PathInv, AcceptInv
  <2>3. \A g \in D : AcceptedFile(g, history)
    BY <2>2, AcceptedFields
  <2> HIDE DEF D
  <2>4. ASSUME NEW q \in Subjects, NEW f \in visible'[q] \cup UNION durable'[q]
        PROVE  AcceptedFile(f, history)
    <3>1. /\ visible'[q] = (IF q = s THEN D ELSE visible[q])
          /\ durable'[q] = (IF q = s THEN (durable[q] \ {visible[q]}) \cup {D} ELSE durable[q])
      BY <2>1 DEF CacheInv
    <3>2. f \in D \/ f \in visible[q] \cup UNION durable[q]
      BY <2>4, <3>1
    <3>3. QED BY <2>3, <3>2 DEF AcceptInv
  <2>5. QED BY <2>1, <2>4 DEF AcceptInv
<1>3. ASSUME NEW s \in Subjects, NEW n \in 0 .. LedgerBound, RestoreBackup(s, n)
      PROVE  AcceptInv'
  <2>1. /\ llama' = [b \in Backends |-> Fresh] /\ history' = history
        /\ visible' = visible /\ durable' = durable
    BY <1>3 DEF RestoreBackup
  <2>2. QED BY <2>1, RestartAcceptInv DEF AcceptInv
<1>4. QED BY <1>1, <1>2, <1>3

LEMMA NextAcceptInv == CacheInv /\ AcceptInv /\ [CheckpointNext]_checkpointVars => AcceptInv'
<1> SUFFICES ASSUME CacheInv, AcceptInv, [CheckpointNext]_checkpointVars PROVE AcceptInv'
  OBVIOUS
<1>1. CASE UNCHANGED checkpointVars
  BY <1>1 DEF checkpointVars, fileVars, AcceptInv
<1>2. ASSUME NEW b \in Backends, BackendNext(b) PROVE AcceptInv'
  <2>1. CASE \E s \in Subjects : Evaluate(b, s)
    BY <2>1, EvaluateAcceptInv
  <2>2. CASE Sample(b)
    BY <2>2, SampleAcceptInv
  <2>3. CASE \E outcome \in {"proposal", "abstention"} : Complete(b, outcome)
    BY <2>3, CompleteAcceptInv
  <2>4. CASE RespondFails(b) \/ ReleaseContext(b) \/ Crash(b) \/ Reject(b) \/ SaveFails(b)
    BY <2>4, DoneAcceptInv DEF RespondFails, ReleaseContext, Crash, Reject, SaveFails, fileVars
  <2>5. CASE \E v \in Values : Commit(b, v)
    BY <2>5, CommitAcceptInv
  <2>6. CASE CreateTemporary(b)
    BY <2>6, CreateTemporaryAcceptInv
  <2>7. CASE Write(b) \/ SyncFile(b)
    BY <2>7, WriteAcceptInv
  <2>8. CASE Rename(b)
    BY <2>8, RenameAcceptInv
  <2>9. CASE SyncDirectory(b)
    BY <2>9, SyncDirectoryAcceptInv
  <2>10. QED
    BY <1>2, <2>1, <2>2, <2>3, <2>4, <2>5, <2>6, <2>7, <2>8, <2>9 DEF BackendNext
<1>3. QED BY <1>1, <1>2, FaultAcceptInv DEF CheckpointNext

\* A published checkpoint holds the accepted computation on the parent of a
\* commit that happened, within the limit its reader enforces: never that of a
\* proposal that was rejected, whatever is interleaved, restored or damaged.
THEOREM OnlyAcceptedIsPublished == CheckpointSpec => []PublishedIsAccepted
<1>1. CacheInv /\ AcceptInv => PublishedIsAccepted
  BY DEF CacheInv, PathInv, Truthful, AcceptInv, AcceptedFile, PublishedIsAccepted
<1>2. CheckpointSpec => [](CacheInv /\ AcceptInv)
  BY InitCacheInv, NextCacheInv, InitAcceptInv, NextAcceptInv, PTL DEF CheckpointSpec
<1>3. QED BY <1>1, <1>2, PTL


-----------------------------------------------------------------------------
(* Temporary files.                                                        *)

LEMMA InitTemporaryInv == CheckpointInit => TemporaryInv
<1> SUFFICES ASSUME CheckpointInit PROVE TemporaryInv
  OBVIOUS
<1>1. Fresh.file = {} /\ OwnFile(Fresh)
  BY DEF Fresh, OwnFile
<1>2. \A b \in Backends : llama[b] = Fresh
  BY DEF CheckpointInit
<1>3. Holders = {} /\ temporaries = 0 /\ leaked = 0
  BY <1>1, <1>2 DEF Holders, CheckpointInit
<1>4. IsFiniteSet({}) /\ Cardinality({}) = 0
  BY FS_EmptySet
<1>5. QED BY <1>1, <1>2, <1>3, <1>4 DEF TemporaryInv

\* What one backend's step makes of the writers.
LEMMA HolderStep ==
    ASSUME CacheInv, TemporaryInv, NEW b \in Backends, NEW r, OwnFile(r),
           llama' = [llama EXCEPT ![b] = r]
    PROVE  /\ OwnFile(llama[b])
           /\ \A c \in Backends : OwnFile(llama'[c])
           /\ IsFiniteSet(Holders') /\ Cardinality(Holders) \in Nat
           /\ Cardinality(Holders') =
                Cardinality(Holders) + (IF r.file = {} THEN 0 ELSE 1)
                                     - (IF llama[b].file = {} THEN 0 ELSE 1)
<1>1. \A c \in Backends : llama'[c] = IF c = b THEN r ELSE llama[c]
  BY DEF CacheInv
<1>2. \A c \in Backends : OwnFile(llama[c])
  BY DEF TemporaryInv
<1>3. Holders' = IF r.file = {} THEN Holders \ {b} ELSE Holders \cup {b}
  BY <1>1 DEF Holders
<1>4. IsFiniteSet(Holders) /\ Cardinality(Holders) \in Nat
  BY FS_CardinalityType DEF TemporaryInv
<1>5. b \in Holders <=> llama[b].file # {}
  BY DEF Holders
<1>6. /\ IsFiniteSet(Holders \ {b})
      /\ Cardinality(Holders \ {b}) =
           IF b \in Holders THEN Cardinality(Holders) - 1 ELSE Cardinality(Holders)
  BY <1>4, FS_RemoveElement
<1>7. /\ IsFiniteSet(Holders \cup {b})
      /\ Cardinality(Holders \cup {b}) =
           IF b \in Holders THEN Cardinality(Holders) ELSE Cardinality(Holders) + 1
  BY <1>4, FS_AddElement
<1>8. QED BY <1>1, <1>2, <1>3, <1>4, <1>5, <1>6, <1>7

\* A step that neither creates nor removes a temporary.
LEMMA HoldersKept ==
    ASSUME CacheInv, TemporaryInv, NEW b \in Backends, NEW r, OwnFile(r),
           llama' = [llama EXCEPT ![b] = r], r.file = {} <=> llama[b].file = {},
           temporaries' = temporaries, leaked' = leaked
    PROVE  TemporaryInv'
<1>1. /\ \A c \in Backends : OwnFile(llama'[c])
      /\ IsFiniteSet(Holders') /\ Cardinality(Holders) \in Nat
      /\ Cardinality(Holders') =
           Cardinality(Holders) + (IF r.file = {} THEN 0 ELSE 1)
                                - (IF llama[b].file = {} THEN 0 ELSE 1)
  BY HolderStep
<1>2. Cardinality(Holders') = Cardinality(Holders)
  BY <1>1
<1>3. QED BY <1>1, <1>2 DEF TemporaryInv

\* One that ends without its file.
LEMMA HolderEnds ==
    ASSUME CacheInv, TemporaryInv, NEW b \in Backends, NEW r, OwnFile(r), r.file = {},
           llama' = [llama EXCEPT ![b] = r],
           leaked' \in Nat,
           temporaries' - leaked' =
               temporaries - leaked - (IF llama[b].file = {} THEN 0 ELSE 1),
           temporaries' \in Int
    PROVE  TemporaryInv'
<1>1. /\ \A c \in Backends : OwnFile(llama'[c])
      /\ IsFiniteSet(Holders') /\ Cardinality(Holders) \in Nat
      /\ Cardinality(Holders') =
           Cardinality(Holders) + (IF r.file = {} THEN 0 ELSE 1)
                                - (IF llama[b].file = {} THEN 0 ELSE 1)
  BY HolderStep
<1>2. leaked \in Nat /\ temporaries = leaked + Cardinality(Holders)
  BY DEF TemporaryInv
<1>3. temporaries' = leaked' + Cardinality(Holders')
  BY <1>1, <1>2
<1>4. QED BY <1>1, <1>3 DEF TemporaryInv

\* The numbers of a step.
LEMMA TemporaryTypes ==
    ASSUME CacheInv, TemporaryInv, NEW b \in Backends
    PROVE  /\ leaked \in Nat /\ temporaries \in Nat
           /\ Cardinality(llama[b].file) = (IF llama[b].file = {} THEN 0 ELSE 1)
           /\ Orphans({b}) = (IF llama[b].file = {} THEN 0 ELSE 1)
           /\ Orphans(Backends) = Cardinality(Holders)
           /\ Cardinality(Holders) \in Nat
           /\ llama[b].file = {} <=> llama[b].at \notin {"header", "state", "sync", "rename"}
<1>1. IsFiniteSet(Holders) /\ Cardinality(Holders) \in Nat /\ leaked \in Nat
  BY FS_CardinalityType DEF TemporaryInv
<1>2. temporaries \in Nat
  BY <1>1 DEF TemporaryInv
<1>3. Orphans(Backends) = Cardinality(Holders)
  BY DEF Orphans, Holders
<1>4. OwnFile(llama[b])
  BY DEF TemporaryInv
<1>5. Cardinality(llama[b].file) = (IF llama[b].file = {} THEN 0 ELSE 1)
  BY <1>4, FS_EmptySet, FS_Singleton DEF OwnFile
<1>6. Orphans({b}) = (IF llama[b].file = {} THEN 0 ELSE 1)
  <2>1. {c \in {b} : llama[c].file # {}} = IF llama[b].file = {} THEN {} ELSE {b}
    OBVIOUS
  <2>2. QED BY <2>1, FS_EmptySet, FS_Singleton DEF Orphans
<1>7. QED BY <1>1, <1>2, <1>3, <1>4, <1>5, <1>6 DEF OwnFile

\* The steps of a backend that hold no file and write none.
LEMMA UnheldTemporaryInv ==
    ASSUME CacheInv, TemporaryInv, NEW b \in Backends,
           llama[b].at \notin {"header", "state", "sync", "rename"},
           NEW r, OwnFile(r), r.file = {}, llama' = [llama EXCEPT ![b] = r],
           temporaries' = temporaries, leaked' = leaked
    PROVE  TemporaryInv'
<1>1. llama[b].file = {}
  BY TemporaryTypes
<1>2. QED BY <1>1, HoldersKept

\* Positions of a backend without a temporary.
Unheld == {"idle", "sampling", "proposed", "accepted", "directory"}

LEMMA ComputeTemporaryInv ==
    ASSUME CacheInv, TemporaryInv, NEW b \in Backends,
           \/ \E s \in Subjects : Evaluate(b, s)
           \/ Sample(b)
           \/ \E outcome \in {"proposal", "abstention"} : Complete(b, outcome)
           \/ RespondFails(b) \/ ReleaseContext(b)
           \/ \E v \in Values : Commit(b, v)
           \/ Reject(b)
           \/ SyncDirectory(b)
    PROVE  TemporaryInv'
<1>1. RowInv(llama[b]) /\ llama[b] \in LlamaRow
  BY DEF CacheInv, RowInv
<1>2. llama[b].at \in {"idle", "sampling", "proposed", "directory"}
  BY DEF Evaluate, Sample, Complete, RespondFails, ReleaseContext, Commit, Reject,
         SyncDirectory, At
<1>3. llama[b].file = {}
  BY <1>2, TemporaryTypes
<1>4. PICK r : r.at \in Unheld /\ r.file = {} /\ llama' = [llama EXCEPT ![b] = r]
  <2>1. ASSUME Done(b) PROVE \E r : r.at \in Unheld /\ r.file = {} /\ llama' = [llama EXCEPT ![b] = r]
    <3> DEFINE q == [llama[b] EXCEPT !.at = "idle", !.subject = NoSubject,
                                     !.chain = <<>>, !.file = {}]
    <3>1. llama' = [llama EXCEPT ![b] = q]
      BY <2>1 DEF Done, CacheInv
    <3>2. q.at \in Unheld /\ q.file = {}
      BY <1>1 DEF LlamaRow, Unheld
    <3> HIDE DEF q
    <3>3. QED BY <3>1, <3>2
  <2>2. CASE \E s \in Subjects : Evaluate(b, s)
    <3>1. PICK s, native :
             llama' = [llama EXCEPT ![b] =
                 [at |-> "sampling", context |-> TRUE, native |-> native,
                  cached |-> prompt(s, ledger[s]), cached_subject |-> s, pending |-> NoHead,
                  subject |-> s, chain |-> ledger[s], file |-> {}]]
      BY <2>2 DEF Evaluate
    <3>2. QED BY <3>1 DEF Unheld
  <2>3. CASE Sample(b)
    <3> DEFINE q == [llama[b] EXCEPT !.native = Append(@, "out"), !.cached = Append(@, "out")]
    <3>1. llama' = [llama EXCEPT ![b] = q] /\ q.at \in Unheld /\ q.file = {}
      BY <1>1, <1>3, <2>3 DEF Sample, At, CacheInv, LlamaRow, Unheld
    <3> HIDE DEF q
    <3>2. QED BY <3>1
  <2>4. CASE \E outcome \in {"proposal", "abstention"} : Complete(b, outcome)
    <3> DEFINE q == [llama[b] EXCEPT !.at = "proposed", !.pending = llama[b].chain]
    <3>1. Done(b) \/ llama' = [llama EXCEPT ![b] = q]
      BY <2>4 DEF Complete, CacheInv
    <3>2. q.at \in Unheld /\ q.file = {}
      BY <1>1, <1>3 DEF LlamaRow, Unheld
    <3> HIDE DEF q
    <3>3. QED BY <2>1, <3>1, <3>2
  <2>5. CASE RespondFails(b) \/ ReleaseContext(b)
    <3>1. llama' = [llama EXCEPT ![b] = Fresh] /\ Fresh.at \in Unheld /\ Fresh.file = {}
      BY <2>5 DEF RespondFails, ReleaseContext, Fresh, Unheld
    <3>2. QED BY <3>1
  <2>6. CASE \E v \in Values : Commit(b, v)
    <3>1. PICK next : llama' = [llama EXCEPT ![b].at = "accepted", ![b].chain = next]
      BY <2>6 DEF Commit
    <3> DEFINE q == [llama[b] EXCEPT !.at = "accepted", !.chain = next]
    <3>2. llama' = [llama EXCEPT ![b] = q] /\ q.at \in Unheld /\ q.file = {}
      BY <1>1, <1>3, <3>1 DEF CacheInv, LlamaRow, Unheld
    <3> HIDE DEF q
    <3>3. QED BY <3>2
  <2>7. CASE Reject(b)
    BY <2>1, <2>7 DEF Reject
  <2>8. CASE SyncDirectory(b)
    <3> DEFINE q == [llama[b] EXCEPT !.at = "idle", !.subject = NoSubject, !.chain = <<>>,
                                     !.file = {}, !.pending = NoHead]
    <3>1. llama' = [llama EXCEPT ![b] = q] /\ q.at \in Unheld /\ q.file = {}
      BY <1>1, <2>8 DEF SyncDirectory, CacheInv, LlamaRow, Unheld
    <3> HIDE DEF q
    <3>2. QED BY <3>1
  <2>9. QED BY <2>2, <2>3, <2>4, <2>5, <2>6, <2>7, <2>8
<1>5. temporaries' = temporaries /\ leaked' = leaked
  BY DEF Evaluate, Sample, Complete, RespondFails, ReleaseContext, Commit, Reject,
         SyncDirectory, fileVars
<1>6. OwnFile(r)
  BY <1>4 DEF OwnFile, Unheld
<1>7. QED BY <1>2, <1>4, <1>5, <1>6, UnheldTemporaryInv

\* The temporary is made, written and synced by one backend.
LEMMA WritingTemporaryInv ==
    ASSUME CacheInv, TemporaryInv, NEW b \in Backends,
           CreateTemporary(b) \/ Write(b) \/ SyncFile(b)
    PROVE  TemporaryInv'
<1>1. RowInv(llama[b]) /\ llama[b] \in LlamaRow
  BY DEF CacheInv, RowInv
<1>2. CASE CreateTemporary(b)
  <2>1. PICK f : llama' = [llama EXCEPT ![b].at = "header", ![b].file = {f}]
    BY <1>2 DEF CreateTemporary
  <2> DEFINE r == [llama[b] EXCEPT !.at = "header", !.file = {f}]
  <2>2. llama' = [llama EXCEPT ![b] = r] /\ r.at = "header" /\ r.file = {f}
    BY <1>1, <2>1 DEF CacheInv, LlamaRow
  <2> HIDE DEF r
  <2>3. OwnFile(r) /\ r.file # {}
    BY <2>2 DEF OwnFile
  <2>4. llama[b].file = {} /\ leaked \in Nat /\ temporaries \in Nat
    BY <1>2, TemporaryTypes DEF CreateTemporary, At
  <2>5. /\ \A c \in Backends : OwnFile(llama'[c])
        /\ IsFiniteSet(Holders') /\ Cardinality(Holders) \in Nat
        /\ Cardinality(Holders') =
             Cardinality(Holders) + (IF r.file = {} THEN 0 ELSE 1)
                                  - (IF llama[b].file = {} THEN 0 ELSE 1)
    BY <2>2, <2>3, HolderStep
  <2>6. temporaries' = temporaries + 1 /\ leaked' = leaked
    BY <1>2 DEF CreateTemporary
  <2>7. temporaries' = leaked' + Cardinality(Holders')
    BY <2>3, <2>4, <2>5, <2>6 DEF TemporaryInv
  <2>8. QED BY <2>4, <2>5, <2>6, <2>7 DEF TemporaryInv
<1>3. CASE Write(b) \/ SyncFile(b)
  <2>1. PICK pc, F : /\ llama' = [llama EXCEPT ![b].at = pc, ![b].file = F]
                     /\ pc \in {"state", "sync", "rename"}
                     /\ \/ \E part \in {"header", "state"} : F = Written(b, part)
                        \/ F = {[f EXCEPT !.synced = TRUE] : f \in llama[b].file}
    <3>1. CASE Write(b)
      BY <3>1 DEF Write
    <3>2. CASE SyncFile(b)
      <4>1. llama' = [llama EXCEPT ![b].at = "rename",
                           ![b].file = {[f EXCEPT !.synced = TRUE] : f \in llama[b].file}]
        BY <3>2 DEF SyncFile, CacheInv
      <4>2. QED BY <4>1
    <3>3. QED BY <1>3, <3>1, <3>2
  <2>2. (\E f : llama[b].file = {f}) /\ llama[b].file # {}
    <3>1. llama[b].at \in {"header", "state", "sync"}
      BY <1>3 DEF Write, SyncFile, At
    <3>2. QED BY <3>1 DEF TemporaryInv, OwnFile
  <2>3. \E f : F = {f}
    <3> PICK g : llama[b].file = {g}
      BY <2>2
    <3>1. CASE F = {[f EXCEPT !.synced = TRUE] : f \in llama[b].file}
      <4>1. F = {[g EXCEPT !.synced = TRUE]}
        BY <3>1
      <4>2. QED BY <4>1
    <3>2. ASSUME NEW part \in {"header", "state"}, F = Written(b, part)
          PROVE  \E f : F = {f}
      <4>1. F = {[g EXCEPT !.part = part]}
        BY <3>2 DEF Written
      <4>2. QED BY <4>1
    <3>3. QED BY <2>1, <3>1, <3>2
  <2> DEFINE r == [llama[b] EXCEPT !.at = pc, !.file = F]
  <2>4. llama' = [llama EXCEPT ![b] = r] /\ r.at = pc /\ r.file = F
    BY <1>1, <2>1 DEF CacheInv, LlamaRow
  <2> HIDE DEF r
  <2>5. OwnFile(r)
    BY <2>1, <2>3, <2>4 DEF OwnFile
  <2>6. temporaries' = temporaries /\ leaked' = leaked
    BY <1>3 DEF Write, SyncFile, fileVars
  <2>7. r.file # {}
    BY <2>3, <2>4
  <2>8. QED BY <2>2, <2>4, <2>5, <2>6, <2>7, HoldersKept
<1>4. QED BY <1>2, <1>3

\* It is renamed, unlinked, or left behind by a process that died.
LEMMA EndingTemporaryInv ==
    ASSUME CacheInv, TemporaryInv, NEW b \in Backends, Rename(b) \/ SaveFails(b) \/ Crash(b)
    PROVE  TemporaryInv'
<1>1. llama[b] \in LlamaRow
  BY DEF CacheInv, RowInv
<1>2. PICK r : r.at \in Unheld /\ r.file = {} /\ llama' = [llama EXCEPT ![b] = r]
  <2>1. CASE Rename(b)
    <3> DEFINE q == [llama[b] EXCEPT !.at = "directory", !.file = {}]
    <3>1. llama' = [llama EXCEPT ![b] = q] /\ q.at \in Unheld /\ q.file = {}
      BY <1>1, <2>1 DEF Rename, CacheInv, LlamaRow, Unheld
    <3> HIDE DEF q
    <3>2. QED BY <3>1
  <2>2. CASE SaveFails(b)
    <3> DEFINE q == [llama[b] EXCEPT !.at = "idle", !.subject = NoSubject,
                                     !.chain = <<>>, !.file = {}]
    <3>1. llama' = [llama EXCEPT ![b] = q] /\ q.at \in Unheld /\ q.file = {}
      BY <1>1, <2>2 DEF SaveFails, Done, CacheInv, LlamaRow, Unheld
    <3> HIDE DEF q
    <3>2. QED BY <3>1
  <2>3. CASE Crash(b)
    <3>1. llama' = [llama EXCEPT ![b] = Fresh] /\ Fresh.at \in Unheld /\ Fresh.file = {}
      BY <2>3 DEF Crash, Fresh, Unheld
    <3>2. QED BY <3>1
  <2>4. QED BY <2>1, <2>2, <2>3
<1>3. PICK k \in {0, 1} : k = IF llama[b].file = {} THEN 0 ELSE 1
  OBVIOUS
<1>4. /\ leaked \in Nat /\ temporaries \in Nat
      /\ Cardinality(llama[b].file) = k /\ Orphans({b}) = k
  BY <1>3, TemporaryTypes
<1>5. \/ temporaries' = temporaries - k /\ leaked' = leaked
      \/ temporaries' = temporaries /\ leaked' = leaked + k
  <2>1. CASE SaveFails(b)
    BY <1>4, <2>1 DEF SaveFails
  <2>2. CASE Crash(b)
    BY <1>4, <2>2 DEF Crash
  <2>3. CASE Rename(b)
    <3>1. temporaries' = temporaries - 1 /\ leaked' = leaked
      BY <2>3 DEF Rename
    <3>2. llama[b].file # {}
      BY <2>3, TemporaryTypes DEF Rename, At
    <3>3. QED BY <1>3, <3>1, <3>2
  <2>4. QED BY <2>1, <2>2, <2>3
<1>6. leaked' \in Nat /\ temporaries' \in Int /\ temporaries' - leaked' = temporaries - leaked - k
  BY <1>4, <1>5
<1>7. OwnFile(r)
  BY <1>2 DEF OwnFile, Unheld
<1>8. QED BY <1>2, <1>3, <1>6, <1>7, HolderEnds

LEMMA FaultTemporaryInv ==
    ASSUME CacheInv, TemporaryInv,
           \/ PowerFailure
           \/ \E s \in Subjects : Corrupt(s) \/ \E n \in 0 .. LedgerBound : RestoreBackup(s, n)
    PROVE  TemporaryInv'
<1>1. ASSUME llama' = [b \in Backends |-> Fresh], leaked' = leaked + Orphans(Backends),
             temporaries' = temporaries
      PROVE  TemporaryInv'
  <2>1. Fresh.file = {} /\ OwnFile(Fresh)
    BY DEF Fresh, OwnFile
  <2>2. \A b \in Backends : llama'[b] = Fresh
    BY <1>1
  <2>3. Holders' = {}
    BY <2>1, <2>2 DEF Holders
  <2>4. IsFiniteSet(Holders') /\ Cardinality(Holders') = 0
    BY <2>3, FS_EmptySet
  <2>5. /\ IsFiniteSet(Holders) /\ Cardinality(Holders) \in Nat /\ leaked \in Nat
        /\ temporaries = leaked + Cardinality(Holders)
    BY FS_CardinalityType DEF TemporaryInv
  <2>6. Orphans(Backends) = Cardinality(Holders)
    BY DEF Orphans, Holders
  <2>7. leaked' \in Nat /\ temporaries' = leaked' + Cardinality(Holders')
    BY <1>1, <2>4, <2>5, <2>6
  <2>8. QED BY <2>1, <2>2, <2>4, <2>7 DEF TemporaryInv
<1>2. CASE PowerFailure
  BY <1>1, <1>2 DEF PowerFailure
<1>3. ASSUME NEW s \in Subjects, NEW n \in 0 .. LedgerBound, RestoreBackup(s, n)
      PROVE  TemporaryInv'
  BY <1>1, <1>3 DEF RestoreBackup
<1>4. ASSUME NEW s \in Subjects, Corrupt(s) PROVE TemporaryInv'
  BY <1>4 DEF Corrupt, TemporaryInv, Holders
<1>5. QED BY <1>2, <1>3, <1>4

LEMMA NextTemporaryInv ==
    CacheInv /\ TemporaryInv /\ [CheckpointNext]_checkpointVars => TemporaryInv'
<1> SUFFICES ASSUME CacheInv, TemporaryInv, [CheckpointNext]_checkpointVars PROVE TemporaryInv'
  OBVIOUS
<1>1. CASE UNCHANGED checkpointVars
  BY <1>1 DEF checkpointVars, fileVars, TemporaryInv, Holders
<1>2. ASSUME NEW b \in Backends, BackendNext(b) PROVE TemporaryInv'
  BY <1>2, ComputeTemporaryInv, WritingTemporaryInv, EndingTemporaryInv DEF BackendNext
<1>3. QED BY <1>1, <1>2, FaultTemporaryInv DEF CheckpointNext

\* The directory holds a temporary for every live writer and for every writer
\* that died before it could rename or unlink its own, and no other.
THEOREM TemporariesHaveOwners == CheckpointSpec => []TemporariesAreOwned
<1>1. TemporaryInv => TemporariesAreOwned
  BY DEF TemporaryInv, TemporariesAreOwned, Orphans, Holders
<1>2. CheckpointSpec => [](CacheInv /\ TemporaryInv)
  BY InitCacheInv, NextCacheInv, InitTemporaryInv, NextTemporaryInv, PTL DEF CheckpointSpec
<1>3. QED BY <1>1, <1>2, PTL
=============================================================================
