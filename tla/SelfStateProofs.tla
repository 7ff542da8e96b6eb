--------------------------- MODULE SelfStateProofs ---------------------------
(***************************************************************************)
(* The self-state policy for every number of runtimes, commitments, grants *)
(* and commits.  replay is a recursive function of the history; what it    *)
(* computes is proved by minimal counterexample.                           *)
(***************************************************************************)
EXTENDS SelfState, FiniteSetTheorems, WellFoundedInduction, TLAPS

-----------------------------------------------------------------------------
(* What replay computes.                                                   *)

\* The states after commit i, from those before it.
Layer(s, h, i) ==
    IF i = 1 THEN {Genesis} ELSE UNION {Replayed(state, h[i], i) : state \in s[i - 1]}

\* s holds the replayed states of the first n commits of h.
IsReplay(s, h, n) == s = [i \in 1 .. n |-> Layer(s, h, i)]

ReplayOf(h, n) == (CHOOSE s : IsReplay(s, h, n))[n]

\* A nonempty set of naturals has a least element.
LEMMA LeastElement ==
    ASSUME NEW S \in SUBSET Nat, S # {}
    PROVE  \E m \in S : \A k \in S : m <= k
<1>1. PICK m \in S : \A k \in S : ~(<<k, m>> \in OpToRel(<, Nat))
  BY WFMin, NatLessThanWellFounded
<1>2. \A k \in S : ~(k < m)
  BY <1>1 DEF OpToRel
<1>3. QED BY <1>2

\* The layers depend only on the commits up to them.
LEMMA ReplayIsUnique ==
    ASSUME NEW h, NEW g, NEW m \in Nat, NEW n \in Nat, m <= n, \A i \in 1 .. m : h[i] = g[i],
           NEW s, IsReplay(s, h, m), NEW t, IsReplay(t, g, n)
    PROVE  \A i \in 1 .. m : s[i] = t[i]
<1> DEFINE S == {i \in 1 .. m : s[i] # t[i]}
<1>1. ASSUME S # {} PROVE FALSE
  <2>1. S \in SUBSET Nat
    OBVIOUS
  <2>2. PICK j \in S : \A k \in S : j <= k
    <3> HIDE DEF S
    <3> QED BY <1>1, <2>1, LeastElement
  <2>3. j \in 1 .. m /\ j \in 1 .. n /\ s[j] # t[j]
    OBVIOUS
  <2>4. s[j] = Layer(s, h, j) /\ t[j] = Layer(t, g, j)
    BY <2>3 DEF IsReplay
  <2>5. CASE j = 1
    BY <2>3, <2>4, <2>5 DEF Layer
  <2>6. CASE j # 1
    <3>1. j - 1 \in 1 .. m /\ ~(j <= j - 1)
      BY <2>3, <2>6
    <3>2. s[j - 1] = t[j - 1]
      BY <2>2, <3>1
    <3>3. Layer(s, h, j) = Layer(t, g, j)
      BY <2>3, <3>2 DEF Layer
    <3>4. QED BY <2>3, <2>4, <3>3
  <2>7. QED BY <2>5, <2>6
<1>2. QED BY <1>1

\* There are layers up to every commit.
LEMMA ReplayExists == \A h : \A n \in Nat : \E s : IsReplay(s, h, n)
<1> SUFFICES ASSUME NEW h PROVE \A n \in Nat : \E s : IsReplay(s, h, n)
  OBVIOUS
<1> DEFINE S == {n \in Nat : ~\E s : IsReplay(s, h, n)}
<1>1. ASSUME S # {} PROVE FALSE
  <2>1. PICK n \in S : \A k \in S : n <= k
    <3>1. S \in SUBSET Nat
      OBVIOUS
    <3> HIDE DEF S
    <3>2. QED BY <1>1, <3>1, LeastElement
  <2>2. n \in Nat /\ ~\E s : IsReplay(s, h, n)
    OBVIOUS
  <2>3. CASE n = 0
    <3> DEFINE s == [i \in 1 .. 0 |-> {}]
    <3>1. s = [i \in 1 .. 0 |-> Layer(s, h, i)]
      OBVIOUS
    <3>2. QED BY <2>2, <2>3, <3>1 DEF IsReplay
  <2>4. CASE n # 0
    <3>1. n - 1 \in Nat /\ ~(n <= n - 1)
      BY <2>2, <2>4
    <3>2. n - 1 \notin S
      BY <2>1, <3>1
    <3>3. PICK s : IsReplay(s, h, n - 1)
      BY <3>1, <3>2
    <3> DEFINE t == [i \in 1 .. n |-> IF i = n THEN Layer(s, h, n) ELSE s[i]]
    <3>4. ASSUME NEW i \in 1 .. n PROVE t[i] = Layer(t, h, i)
      <4>1. i # 1 => i - 1 \in 1 .. n /\ i - 1 # n
        BY <2>2
      <4>2. i # 1 => t[i - 1] = s[i - 1]
        BY <4>1
      <4>3. Layer(t, h, i) = Layer(s, h, i)
        BY <4>2 DEF Layer
      <4>4. CASE i = n
        BY <4>3, <4>4
      <4>5. CASE i # n
        <5>1. i \in 1 .. n - 1
          BY <2>2, <4>5
        <5>2. s[i] = Layer(s, h, i)
          BY <3>3, <5>1 DEF IsReplay
        <5>3. QED BY <4>3, <4>5, <5>2
      <4>6. QED BY <4>4, <4>5
    <3>5. t = [i \in 1 .. n |-> t[i]]
      OBVIOUS
    <3> HIDE DEF t
    <3>6. t = [i \in 1 .. n |-> Layer(t, h, i)]
      BY <3>4, <3>5
    <3>7. QED BY <2>2, <3>6 DEF IsReplay
  <2>5. QED BY <2>3, <2>4
<1>2. QED BY <1>1

LEMMA ReplayIsChosen ==
    ASSUME NEW h, NEW n \in Nat
    PROVE  IsReplay(CHOOSE s : IsReplay(s, h, n), h, n)
<1>1. \E s : IsReplay(s, h, n)
  BY ReplayExists
<1>2. QED BY <1>1

\* The equations of replay.
LEMMA ReplayStarts == ASSUME NEW h PROVE ReplayOf(h, 1) = {Genesis}
<1> DEFINE s == CHOOSE q : IsReplay(q, h, 1)
<1>1. IsReplay(s, h, 1)
  BY ReplayIsChosen
<1> HIDE DEF s
<1>2. s[1] = Layer(s, h, 1)
  BY <1>1 DEF IsReplay
<1>3. ReplayOf(h, 1) = s[1]
  BY DEF ReplayOf, s
<1>4. QED BY <1>2, <1>3 DEF Layer

\* Replay sees only the commits it is asked for.
LEMMA ReplayIsStable ==
    ASSUME NEW h, NEW g, NEW n \in Nat \ {0}, \A i \in 1 .. n : h[i] = g[i]
    PROVE  ReplayOf(h, n) = ReplayOf(g, n)
<1> DEFINE s == CHOOSE q : IsReplay(q, h, n)
           t == CHOOSE q : IsReplay(q, g, n)
<1>1. IsReplay(s, h, n) /\ IsReplay(t, g, n)
  BY ReplayIsChosen
<1>2. ReplayOf(h, n) = s[n] /\ ReplayOf(g, n) = t[n]
  BY DEF ReplayOf
<1> HIDE DEF s, t
<1>3. s[n] = t[n]
  BY <1>1, ReplayIsUnique
<1>4. QED BY <1>2, <1>3

LEMMA ReplayContinues ==
    ASSUME NEW h, NEW n \in Nat \ {0}
    PROVE  ReplayOf(h, n + 1) = UNION {Replayed(state, h[n + 1], n + 1) : state \in ReplayOf(h, n)}
<1> DEFINE s == CHOOSE q : IsReplay(q, h, n)
           t == CHOOSE q : IsReplay(q, h, n + 1)
<1>1. IsReplay(s, h, n) /\ IsReplay(t, h, n + 1)
  BY ReplayIsChosen
<1>2. ReplayOf(h, n) = s[n] /\ ReplayOf(h, n + 1) = t[n + 1]
  BY DEF ReplayOf
<1> HIDE DEF s, t
<1>3. s[n] = t[n]
  <2>1. n \in Nat /\ n + 1 \in Nat /\ n <= n + 1 /\ n \in 1 .. n
    OBVIOUS
  <2>2. PICK g : g = h
    OBVIOUS
  <2>3. IsReplay(t, g, n + 1) /\ \A i \in 1 .. n : h[i] = g[i]
    BY <1>1, <2>2
  <2>4. \A i \in 1 .. n : s[i] = t[i]
    BY <1>1, <2>1, <2>3, ReplayIsUnique
  <2>5. QED BY <2>1, <2>4
<1>4. t[n + 1] = Layer(t, h, n + 1)
  BY <1>1 DEF IsReplay
<1>5. (n + 1) - 1 = n /\ n + 1 # 1
  OBVIOUS
<1>6. Layer(t, h, n + 1) = UNION {Replayed(state, h[n + 1], n + 1) : state \in t[n]}
  BY <1>5 DEF Layer
<1>7. QED BY <1>2, <1>3, <1>4, <1>6

\* The model's replay.
LEMMA ReplayNow == ASSUME NEW n PROVE replay(n) = ReplayOf(history, n)
BY DEF replay, ReplayOf, IsReplay, Layer

LEMMA ReplayNext == ASSUME NEW n PROVE replay(n)' = ReplayOf(history', n)
BY DEF replay, ReplayOf, IsReplay, Layer

\* A proposal's notes are commitments or nothing.
NotesInv(p) == \A k \in Ids : p.notes[k] \in Notes

\* What is open does not depend on the version that a commit gives its notes.
LEMMA VersionsAreUnseen ==
    ASSUME NEW state, NEW p, NotesInv(p), NEW v, NEW w
    PROVE  Open(apply(state, p, v).tasks) = Open(apply(state, p, w).tasks)
<1>1. ASSUME NEW k \in Ids
      PROVE  apply(state, p, v).tasks[k].status = apply(state, p, w).tasks[k].status
  <2>1. p.notes[k] \in Notes
    BY DEF NotesInv
  <2>2. CASE p.notes[k] = NoTask
    BY <2>2 DEF apply
  <2>3. CASE p.notes[k] # NoTask
    <3>1. p.notes[k] \in [text : Texts, status : {"open", "closed"}, version : {0}]
      BY <2>1, <2>3 DEF Notes
    <3>2. ASSUME NEW x PROVE apply(state, p, x).tasks[k].status = p.notes[k].status
      <4>1. apply(state, p, x).tasks[k] = [p.notes[k] EXCEPT !.version = x]
        BY <2>3 DEF apply
      <4>2. [p.notes[k] EXCEPT !.version = x].status = p.notes[k].status
        BY <3>1
      <4>3. QED BY <4>1, <4>2
    <3>3. QED BY <3>2
  <2>4. QED BY <2>2, <2>3
<1>2. QED BY <1>1 DEF Open

LEMMA VersionsFit ==
    ASSUME NEW state, NEW p, NotesInv(p), NEW v, NEW w, Viewable(apply(state, p, v))
    PROVE  Viewable(apply(state, p, w))
BY VersionsAreUnseen DEF Viewable

\* The null proposal changes nothing.
LEMMA NullKeeps ==
    ASSUME NEW state, NEW v
    PROVE  /\ NotesInv(Null)
           /\ Open(apply(state, Null, v).tasks) = Open(state.tasks)
<1>1. \A k \in Ids : Null.notes[k] = NoTask
  BY DEF Null
<1>2. \A k \in Ids : apply(state, Null, v).tasks[k] = state.tasks[k]
  BY <1>1 DEF apply
<1>3. QED BY <1>1, <1>2 DEF NotesInv, Notes, Open

\* Replay never leaves a state whose open commitments overflow a view.
LEMMA ReplayIsViewable ==
    ASSUME NEW h, NEW n \in Nat \ {0}, NEW state \in ReplayOf(h, n)
    PROVE  Viewable(state)
<1>1. CASE n = 1
  <2>1. state = Genesis
    BY <1>1, ReplayStarts
  <2>2. \A k \in Ids : Genesis.tasks[k] = NoTask
    BY DEF Genesis
  <2>3. Open(Genesis.tasks) = {}
    BY <2>2 DEF Open, NoTask, Nil
  <2>4. Cardinality({}) = 0 /\ MaxOpen \in Nat
    BY FS_EmptySet, SelfAssumption
  <2>5. QED BY <2>1, <2>3, <2>4 DEF Viewable
<1>2. CASE n # 1
  <2>1. n - 1 \in Nat \ {0} /\ (n - 1) + 1 = n
    BY <1>2
  <2>2. ReplayOf(h, n) = UNION {Replayed(q, h[n], n) : q \in ReplayOf(h, n - 1)}
    BY <2>1, ReplayContinues
  <2>3. PICK q : state \in Replayed(q, h[n], n)
    BY <2>2
  <2>4. QED BY <2>3 DEF Replayed
<1>3. QED BY <1>1, <1>2

-----------------------------------------------------------------------------
(* The inductive invariant.                                                *)

\* A list of commits, the null proposal of creation first.
HistoryInv(h) ==
    /\ h \in Seq({h[i] : i \in DOMAIN h})
    /\ Len(h) >= 1

\* A cached state is the replayed one of its head.
CacheInv(C, h) ==
    /\ \A c \in C :
          /\ c.head \in 1 .. Len(h)
          /\ ReplayOf(h, c.head) = {c.state}
    /\ \A c, d \in C : c = d

\* A step works on the replayed state of a head, under a grant that was checked
\* against it, and commits a proposal that the policy allows there.
StepInv(s, h) ==
    /\ DOMAIN s = {"at", "head", "state", "grant", "proposal"}
    /\ NotesInv(s.proposal)
    /\ s.at # "idle" => s.head \in 1 .. Len(h) /\ ReplayOf(h, s.head) = {s.state}
    /\ s.at \in {"admitted", "rejected", "commit"} =>
          /\ grant_valid(s.grant, view_of(s.state, s.head))
          /\ grant_unused_ids(s.state, s.grant)
    /\ s.at = "commit" =>
          Allowed(s.state, s.proposal, s.grant) /\ Viewable(apply(s.state, s.proposal, 0))

ReplayInv(h) == \E state : ReplayOf(h, Len(h)) = {state}

SelfInv ==
    /\ HistoryInv(history)
    /\ cache = [r \in Runtimes |-> cache[r]]
    /\ self = [r \in Runtimes |-> self[r]]
    /\ \A r \in Runtimes : CacheInv(cache[r], history)
    /\ \A r \in Runtimes : StepInv(self[r], history)
    /\ Bypassed \/ ReplayInv(history)

LEMMA IdleStep == ASSUME NEW h PROVE StepInv(SelfIdle, h)
<1>1. NotesInv(Null)
  BY NullKeeps
<1>2. QED BY <1>1 DEF StepInv, SelfIdle

LEMMA InitSelfInv == SelfInit => SelfInv
<1> SUFFICES ASSUME SelfInit PROVE SelfInv
  OBVIOUS
<1>1. HistoryInv(history) /\ Len(history) = 1
  BY DEF SelfInit, HistoryInv
<1>2. ReplayInv(history)
  BY <1>1, ReplayStarts DEF ReplayInv
<1>3. QED BY <1>1, <1>2, IdleStep DEF SelfInit, SelfInv, CacheInv

\* Commits are only appended.
Longer(h, g) == h = g \/ \E c : g = Append(h, c)

LEMMA LongerFacts ==
    ASSUME NEW h, NEW g, HistoryInv(h), Longer(h, g)
    PROVE  /\ HistoryInv(g)
           /\ 1 .. Len(h) \subseteq 1 .. Len(g)
           /\ Len(h) \in Nat \ {0}
           /\ \A i \in 1 .. Len(h) : g[i] = h[i]
           /\ \A n \in 1 .. Len(h) : ReplayOf(g, n) = ReplayOf(h, n)
<1> DEFINE S == {h[i] : i \in DOMAIN h}
<1>1. h \in Seq(S) /\ Len(h) >= 1
  BY DEF HistoryInv
<1> HIDE DEF S
<1>2. Len(h) \in Nat \ {0}
  BY <1>1
<1>3. /\ HistoryInv(g)
      /\ 1 .. Len(h) \subseteq 1 .. Len(g)
      /\ \A i \in 1 .. Len(h) : g[i] = h[i]
  <2>1. CASE h = g
    BY <2>1
  <2>2. ASSUME NEW c, g = Append(h, c)
        PROVE  /\ HistoryInv(g)
               /\ 1 .. Len(h) \subseteq 1 .. Len(g)
               /\ \A i \in 1 .. Len(h) : g[i] = h[i]
    <3>1. h \in Seq(S \cup {c})
      BY <1>1
    <3>2. /\ g \in Seq(S \cup {c}) /\ Len(g) = Len(h) + 1
          /\ \A i \in 1 .. Len(h) : g[i] = h[i]
      BY <2>2, <3>1
    <3>3. DOMAIN g = 1 .. Len(g) /\ g = [i \in 1 .. Len(g) |-> g[i]] /\ Len(g) \in Nat
      BY <3>2
    <3>4. g \in [1 .. Len(g) -> {g[i] : i \in DOMAIN g}]
      BY <3>3
    <3>5. g \in Seq({g[i] : i \in DOMAIN g})
      BY <3>3, <3>4
    <3>6. QED BY <1>2, <3>2, <3>5 DEF HistoryInv
  <2>3. QED BY <2>1, <2>2 DEF Longer
<1>4. ASSUME NEW n \in 1 .. Len(h) PROVE ReplayOf(g, n) = ReplayOf(h, n)
  <2>1. n \in Nat \ {0} /\ \A i \in 1 .. n : g[i] = h[i]
    BY <1>2, <1>3
  <2>2. QED BY <2>1, ReplayIsStable
<1>5. QED BY <1>2, <1>3, <1>4

\* What a runtime knows of a head stays true.
LEMMA Kept ==
    ASSUME NEW h, NEW g, HistoryInv(h), Longer(h, g)
    PROVE  /\ \A C : CacheInv(C, h) => CacheInv(C, g)
           /\ \A s : StepInv(s, h) => StepInv(s, g)
<1>1. /\ 1 .. Len(h) \subseteq 1 .. Len(g)
      /\ \A n \in 1 .. Len(h) : ReplayOf(g, n) = ReplayOf(h, n)
  BY LongerFacts
<1>2. ASSUME NEW C, CacheInv(C, h) PROVE CacheInv(C, g)
  BY <1>1, <1>2 DEF CacheInv
<1>3. ASSUME NEW s, StepInv(s, h) PROVE StepInv(s, g)
  BY <1>1, <1>3 DEF StepInv
<1>4. QED BY <1>2, <1>3

LEMMA BypassedKept ==
    ASSUME HistoryInv(history), Longer(history, history'), Bypassed
    PROVE  Bypassed'
<1>1. PICK i \in 2 .. Len(history) :
         history[i].packet = {} /\ protected_write(history[i].proposal)
  BY DEF Bypassed, head
<1>2. i \in 1 .. Len(history) /\ Len(history) \in Nat
  BY LongerFacts
<1>3. history'[i] = history[i] /\ i \in 1 .. Len(history')
  BY <1>2, LongerFacts
<1>4. Len(history') \in Nat
  BY LongerFacts DEF HistoryInv
<1>5. i \in 2 .. Len(history')
  BY <1>1, <1>3, <1>4
<1>6. QED BY <1>1, <1>3, <1>5 DEF Bypassed, head, protected_write

-----------------------------------------------------------------------------
(* The policy.                                                             *)

LEMMA OneStateAdvances ==
    ASSUME NEW h, NEW n \in Nat \ {0}, NEW state, ReplayOf(h, n) = {state}
    PROVE  ReplayOf(h, n + 1) = Replayed(state, h[n + 1], n + 1)
<1>1. ReplayOf(h, n + 1) = UNION {Replayed(q, h[n + 1], n + 1) : q \in {state}}
  BY ReplayContinues
<1>2. \A x : x \in UNION {Replayed(q, h[n + 1], n + 1) : q \in {state}}
                <=> x \in Replayed(state, h[n + 1], n + 1)
  OBVIOUS
<1>3. QED BY <1>1, <1>2

\* Replay computes at most one state.
LEMMA ReplayHasOneState ==
    ASSUME NEW h, NEW n \in Nat \ {0}, NEW state \in ReplayOf(h, n)
    PROVE  ReplayOf(h, n) = {state}
<1> DEFINE S == {m \in Nat \ {0} : \E q \in ReplayOf(h, m) : ReplayOf(h, m) # {q}}
<1>1. ASSUME S # {} PROVE FALSE
  <2>1. PICK m \in S : \A k \in S : m <= k
    <3>1. S \in SUBSET Nat
      OBVIOUS
    <3> HIDE DEF S
    <3>2. QED BY <1>1, <3>1, LeastElement
  <2>2. m \in Nat \ {0}
    OBVIOUS
  <2>3. PICK q \in ReplayOf(h, m) : ReplayOf(h, m) # {q}
    OBVIOUS
  <2>4. m # 1
    BY <2>3, ReplayStarts
  <2>5. m - 1 \in Nat \ {0} /\ (m - 1) + 1 = m /\ ~(m <= m - 1)
    BY <2>2, <2>4
  <2>6. ReplayOf(h, m) = UNION {Replayed(p, h[m], m) : p \in ReplayOf(h, m - 1)}
    BY <2>5, ReplayContinues
  <2>7. PICK p \in ReplayOf(h, m - 1) : q \in Replayed(p, h[m], m)
    BY <2>3, <2>6
  <2>8. m - 1 \notin S
    BY <2>1, <2>5
  <2>9. ReplayOf(h, m - 1) = {p}
    BY <2>5, <2>7, <2>8
  <2>10. ReplayOf(h, m) = Replayed(p, h[m], m)
    BY <2>5, <2>9, OneStateAdvances
  <2>11. Replayed(p, h[m], m) = {q}
    BY <2>7 DEF Replayed
  <2>12. QED BY <2>3, <2>10, <2>11
<1>2. n \notin S
  BY <1>1
<1>3. QED BY <1>2

\* What proposals hold.
LEMMA ProposalNotes == ASSUME NEW p \in Proposals PROVE NotesInv(p)
<1>1. CASE p = [Null EXCEPT !.misuse = TRUE]
  <2>1. \A k \in Ids : p.notes[k] = NoTask
    BY <1>1 DEF Null
  <2>2. QED BY <2>1 DEF NotesInv, Notes
<1>2. CASE p # [Null EXCEPT !.misuse = TRUE]
  <2>1. p.notes \in [Ids -> Notes]
    BY <1>2 DEF Proposals
  <2>2. QED BY <2>1 DEF NotesInv
<1>3. QED BY <1>1, <1>2

\* A commit becomes the last one.
LEMMA AppendFacts ==
    ASSUME NEW h, HistoryInv(h), NEW c
    PROVE  /\ Len(Append(h, c)) = Len(h) + 1
           /\ Append(h, c)[Len(h) + 1] = c
<1> DEFINE S == {h[i] : i \in DOMAIN h}
<1>1. h \in Seq(S) /\ Len(h) >= 1
  BY DEF HistoryInv
<1> HIDE DEF S
<1>2. h \in Seq(S \cup {c})
  BY <1>1
<1>3. QED BY <1>2

\* A proposal allowed under a valid grant replays, when it is committed with the
\* packet of its admission.
LEMMA PolicyAdvances ==
    ASSUME NEW h, NEW n \in Nat \ {0}, NEW state, ReplayOf(h, n) = {state},
           NEW g, grant_valid(g, view_of(state, n)), grant_unused_ids(state, g),
           NEW p, NotesInv(p), Allowed(state, p, g), Viewable(apply(state, p, 0)),
           h[n + 1] = [proposal |-> p,
                       packet |-> {[view |-> view_of(state, n), grant |-> g]}]
    PROVE  ReplayOf(h, n + 1) = {apply(state, p, n + 1)}
<1>1. ReplayOf(h, n + 1) = Replayed(state, h[n + 1], n + 1)
  BY OneStateAdvances
<1>2. Viewable(apply(state, p, n + 1))
  BY VersionsFit
<1>3. (n + 1) - 1 = n
  OBVIOUS
<1>4. PICK packet : packet = [view |-> view_of(state, n), grant |-> g]
  OBVIOUS
<1>5. PICK c : c = [proposal |-> p, packet |-> {packet}]
  OBVIOUS
<1>6. /\ c = h[n + 1] /\ c.proposal = p /\ c.packet = {packet}
      /\ packet.view = view_of(state, n) /\ packet.grant = g
  BY <1>4, <1>5
<1>7. Replayed(state, c, n + 1) = {apply(state, p, n + 1)}
  BY <1>2, <1>3, <1>6 DEF Replayed
<1>8. QED BY <1>1, <1>6, <1>7

\* Without a packet nothing protected is written, and the state stays.
LEMMA PlainAdvances ==
    ASSUME NEW h, NEW n \in Nat \ {0}, NEW state, ReplayOf(h, n) = {state},
           h[n + 1] = [proposal |-> Null, packet |-> {}]
    PROVE  ReplayOf(h, n + 1) = {apply(state, Null, n + 1)}
<1>1. ReplayOf(h, n + 1) = Replayed(state, h[n + 1], n + 1)
  BY OneStateAdvances
<1>2. Viewable(state)
  BY ReplayIsViewable
<1>3. Viewable(apply(state, Null, n + 1))
  BY <1>2, NullKeeps DEF Viewable
<1>4. QED BY <1>1, <1>3 DEF Replayed, protected_write

\* The null proposal of a disposition is always allowed.
LEMMA NullIsAllowed ==
    ASSUME NEW state, NEW g
    PROVE  Allowed(state, Null, g)
<1>1. \A k \in Ids : Null.notes[k] = NoTask
  BY DEF Null
<1>2. Null.profile = NoProfile /\ ~Null.misuse
  BY DEF Null
<1>3. QED BY <1>1, <1>2 DEF Allowed, ProfileAllowed, NotesAllowed

-----------------------------------------------------------------------------
(* The steps.                                                              *)

\* A runtime's own step that commits nothing.
LEMMA OwnStep ==
    ASSUME SelfInv, NEW r \in Runtimes, NEW C, NEW s,
           CacheInv(C, history), StepInv(s, history),
           cache' = [cache EXCEPT ![r] = C] \/ cache' = cache,
           self' = [self EXCEPT ![r] = s], history' = history
    PROVE  SelfInv'
<1>1. /\ self' = [q \in Runtimes |-> IF q = r THEN s ELSE self[q]]
      /\ \A q \in Runtimes : self'[q] = IF q = r THEN s ELSE self[q]
  BY DEF SelfInv
<1>2. /\ cache' = [q \in Runtimes |-> cache'[q]]
      /\ \A q \in Runtimes : cache'[q] = cache[q] \/ cache'[q] = C
  BY DEF SelfInv
<1>3. /\ \A q \in Runtimes : CacheInv(cache'[q], history')
      /\ \A q \in Runtimes : StepInv(self'[q], history')
  BY <1>1, <1>2 DEF SelfInv
<1>4. self' = [q \in Runtimes |-> self'[q]]
  BY <1>1
<1>5. HistoryInv(history') /\ (Bypassed' \/ ReplayInv(history'))
  BY DEF SelfInv, Bypassed, head, protected_write
<1>6. QED BY <1>2, <1>3, <1>4, <1>5 DEF SelfInv

\* An empty cache knows nothing.
LEMMA NothingCached == ASSUME NEW h PROVE CacheInv({}, h)
BY DEF CacheInv

LEMMA LoadSelfInv == ASSUME SelfInv, NEW r \in Runtimes, Load(r) PROVE SelfInv'
<1>1. HistoryInv(history) /\ CacheInv(cache[r], history)
  BY DEF SelfInv
<1>2. Len(history) \in Nat \ {0} /\ Len(history) \in 1 .. Len(history)
  BY <1>1, LongerFacts DEF Longer
<1>3. PICK state \in Known(r) :
         /\ self' = [self EXCEPT ![r] = [SelfIdle EXCEPT !.at = "loaded", !.head = Len(history),
                                                         !.state = state]]
         /\ cache' = [cache EXCEPT ![r] = {[head |-> Len(history), state |-> state]}]
  BY DEF Load, head
<1>4. ReplayOf(history, Len(history)) = {state}
  <2>1. CASE \E c \in cache[r] : c.head = Len(history)
    <3>1. PICK c \in cache[r] : c.head = Len(history)
      BY <2>1
    <3>2. PICK d \in cache[r] : state = d.state
      BY <1>3, <2>1 DEF Known, head
    <3>3. c = d
      BY <1>1 DEF CacheInv
    <3>4. QED BY <1>1, <3>1, <3>2, <3>3 DEF CacheInv
  <2>2. CASE ~\E c \in cache[r] : c.head = Len(history)
    <3>1. state \in ReplayOf(history, Len(history))
      BY <1>3, <2>2, ReplayNow DEF Known, head
    <3>2. QED BY <1>2, <3>1, ReplayHasOneState
  <2>3. QED BY <2>1, <2>2
<1>5. CacheInv({[head |-> Len(history), state |-> state]}, history)
  BY <1>2, <1>4 DEF CacheInv
<1> DEFINE s == [SelfIdle EXCEPT !.at = "loaded", !.head = Len(history), !.state = state]
<1>6. /\ DOMAIN s = {"at", "head", "state", "grant", "proposal"}
      /\ s.at = "loaded" /\ s.head = Len(history) /\ s.state = state /\ s.proposal = Null
  BY DEF SelfIdle
<1>7. self' = [self EXCEPT ![r] = s]
  BY <1>3
<1> HIDE DEF s
<1>8. StepInv(s, history)
  BY <1>2, <1>4, <1>6, NullKeeps DEF StepInv
<1>9. history' = history
  BY DEF Load
<1>10. QED BY <1>3, <1>5, <1>7, <1>8, <1>9, OwnStep

LEMMA AdmitSelfInv ==
    ASSUME SelfInv, NEW r \in Runtimes, NEW g, AdmitSelf(r, g)
    PROVE  SelfInv'
<1>1. StepInv(self[r], history) /\ self[r].at = "loaded"
  BY DEF SelfInv, AdmitSelf, In
<1> DEFINE s == [self[r] EXCEPT !.at = "admitted", !.grant = g]
<1>2. self' = [self EXCEPT ![r] = s] /\ history' = history /\ cache' = cache
  BY DEF AdmitSelf, SelfInv
<1>3. /\ DOMAIN s = {"at", "head", "state", "grant", "proposal"}
      /\ s.at = "admitted" /\ s.grant = g
      /\ s.head = self[r].head /\ s.state = self[r].state /\ s.proposal = self[r].proposal
  BY <1>1 DEF StepInv
<1> HIDE DEF s
<1>4. grant_valid(g, view_of(self[r].state, self[r].head)) /\ grant_unused_ids(self[r].state, g)
  BY DEF AdmitSelf
<1>5. StepInv(s, history)
  BY <1>1, <1>3, <1>4 DEF StepInv
<1>6. QED BY <1>2, <1>5, NothingCached, OwnStep

LEMMA AnswerSelfInv ==
    ASSUME SelfInv, NEW r \in Runtimes, NEW p \in Proposals, Answer(r, p)
    PROVE  SelfInv'
<1>1. StepInv(self[r], history) /\ self[r].at = "admitted"
  BY DEF SelfInv, Answer, In
<1>2. PICK pc, q : /\ self' = [self EXCEPT ![r].at = pc, ![r].proposal = q]
                   /\ \/ pc = "commit" /\ q = p /\ Accepted(r, p)
                      \/ pc = "rejected" /\ q = Null
  <2>1. CASE Accepted(r, p)
    BY <2>1 DEF Answer
  <2>2. CASE ~Accepted(r, p)
    BY <2>2 DEF Answer
  <2>3. QED BY <2>1, <2>2
<1> DEFINE s == [self[r] EXCEPT !.at = pc, !.proposal = q]
<1>3. self' = [self EXCEPT ![r] = s] /\ history' = history /\ cache' = cache
  BY <1>2 DEF Answer, SelfInv
<1>4. /\ DOMAIN s = {"at", "head", "state", "grant", "proposal"}
      /\ s.at = pc /\ s.proposal = q
      /\ s.head = self[r].head /\ s.state = self[r].state /\ s.grant = self[r].grant
  BY <1>1 DEF StepInv
<1> HIDE DEF s
<1>5. NotesInv(p) /\ NotesInv(Null)
  BY ProposalNotes, NullKeeps
<1>6. StepInv(s, history)
  BY <1>1, <1>2, <1>4, <1>5 DEF StepInv, Accepted
<1>7. QED BY <1>3, <1>6, NothingCached, OwnStep

LEMMA ForgetSelfInv ==
    ASSUME SelfInv, NEW r \in Runtimes, EndStep(r) \/ LoseRace(r) \/ Restart(r)
    PROVE  SelfInv'
<1>1. /\ cache' = [cache EXCEPT ![r] = {}] \/ cache' = cache
      /\ self' = [self EXCEPT ![r] = SelfIdle] /\ history' = history
  BY DEF EndStep, LoseRace, Restart
<1>2. QED BY <1>1, NothingCached, IdleStep, OwnStep

\* A commit over the head that was admitted.
LEMMA PublishSelfInv ==
    ASSUME SelfInv, NEW r \in Runtimes, NEW p, NotesInv(p), Publish(r, p),
           self[r].at \in {"rejected", "commit"},
           Allowed(self[r].state, p, self[r].grant), Viewable(apply(self[r].state, p, 0))
    PROVE  SelfInv'
<1> DEFINE n == Len(history)
           state == self[r].state
           after == apply(state, p, n + 1)
           c == [proposal |-> p, packet |-> {Packet(r)}]
<1>1. /\ self[r].head = n /\ history' = Append(history, c)
      /\ cache' = [cache EXCEPT ![r] = {[head |-> n + 1, state |-> after]}]
      /\ self' = [self EXCEPT ![r] = SelfIdle]
  BY DEF Publish, Remember, head
<1>2. HistoryInv(history) /\ n \in Nat \ {0} /\ Longer(history, history')
  BY <1>1, LongerFacts DEF SelfInv, Longer
<1>3. HistoryInv(history') /\ Len(history') = n + 1 /\ history'[n + 1] = c
  <2> HIDE DEF c
  <2>1. HistoryInv(history')
    BY <1>2, LongerFacts
  <2>2. QED BY <1>1, <1>2, <2>1, AppendFacts
<1>4. /\ ReplayOf(history, n) = {state}
      /\ grant_valid(self[r].grant, view_of(state, n))
      /\ grant_unused_ids(state, self[r].grant)
  BY <1>1 DEF SelfInv, StepInv
<1>5. ReplayOf(history', n) = {state}
  BY <1>2, <1>4, LongerFacts
<1>6. history'[n + 1] = [proposal |-> p,
                         packet |-> {[view |-> view_of(state, n), grant |-> self[r].grant]}]
  BY <1>1, <1>3 DEF Packet
<1> HIDE DEF n, state, c
<1>7. ReplayOf(history', n + 1) = {after}
  <2> USE DEF state
  <2> PICK h, g : h = history' /\ g = self[r].grant
    OBVIOUS
  <2> QED BY <1>2, <1>4, <1>5, <1>6, PolicyAdvances
<1> HIDE DEF after
<1>8. CacheInv({[head |-> n + 1, state |-> after]}, history')
  BY <1>2, <1>3, <1>7 DEF CacheInv
<1>9. \A q \in Runtimes : CacheInv(cache'[q], history')
  BY <1>1, <1>2, <1>8, Kept DEF SelfInv
<1>10. \A q \in Runtimes : StepInv(self'[q], history')
  BY <1>1, <1>2, IdleStep, Kept DEF SelfInv
<1>11. ReplayInv(history')
  BY <1>3, <1>7 DEF ReplayInv
<1>12. cache' = [q \in Runtimes |-> cache'[q]] /\ self' = [q \in Runtimes |-> self'[q]]
  BY <1>1 DEF SelfInv
<1>13. QED BY <1>3, <1>9, <1>10, <1>11, <1>12 DEF SelfInv

LEMMA CommitPlainSelfInv ==
    ASSUME SelfInv, NEW p \in Proposals, CommitPlain(p)
    PROVE  SelfInv'
<1> DEFINE n == Len(history)
           c == [proposal |-> p, packet |-> {}]
<1>1. history' = Append(history, c) /\ cache' = cache /\ self' = self
  BY DEF CommitPlain
<1>2. HistoryInv(history) /\ n \in Nat \ {0} /\ Longer(history, history')
  BY <1>1, LongerFacts DEF SelfInv, Longer
<1>3. HistoryInv(history') /\ Len(history') = n + 1 /\ history'[n + 1] = c
  <2> HIDE DEF c
  <2>1. HistoryInv(history')
    BY <1>2, LongerFacts
  <2>2. QED BY <1>1, <1>2, <2>1, AppendFacts
<1>4. /\ \A q \in Runtimes : CacheInv(cache'[q], history')
      /\ \A q \in Runtimes : StepInv(self'[q], history')
  BY <1>1, <1>2, Kept DEF SelfInv
<1>5. Bypassed' \/ ReplayInv(history')
  <2>1. CASE Bypassed
    BY <1>2, <2>1, BypassedKept
  <2>2. CASE protected_write(p)
    <3>1. n + 1 \in 2 .. Len(history')
      BY <1>2, <1>3
    <3>2. history'[n + 1].packet = {} /\ history'[n + 1].proposal # Null
      BY <1>3, <2>2 DEF protected_write
    <3>3. QED BY <3>1, <3>2 DEF Bypassed, head, protected_write
  <2>3. CASE ~protected_write(p) /\ ~Bypassed
    <3>1. p = Null
      BY <2>3 DEF protected_write
    <3>2. PICK state : ReplayOf(history, n) = {state}
      BY <2>3 DEF SelfInv, ReplayInv
    <3>3. ReplayOf(history', n) = {state}
      BY <1>2, <3>2, LongerFacts
    <3>4. history'[n + 1] = [proposal |-> Null, packet |-> {}]
      BY <1>3, <3>1
    <3> HIDE DEF n, c
    <3>5. ReplayOf(history', n + 1) = {apply(state, Null, n + 1)}
      BY <1>2, <3>3, <3>4, PlainAdvances
    <3>6. QED BY <1>3, <3>5 DEF ReplayInv
  <2>4. QED BY <2>1, <2>2, <2>3
<1>6. QED BY <1>1, <1>3, <1>4, <1>5 DEF SelfInv

LEMMA NextSelfInv == SelfInv /\ [SelfNext]_selfVars => SelfInv'
<1> SUFFICES ASSUME SelfInv, [SelfNext]_selfVars PROVE SelfInv'
  OBVIOUS
<1>1. CASE UNCHANGED selfVars
  <2>1. history' = history /\ cache' = cache /\ self' = self
    BY <1>1 DEF selfVars
  <2>2. QED BY <2>1 DEF SelfInv, Bypassed, head, protected_write
<1>2. ASSUME NEW r \in Runtimes, CommitSelf(r) PROVE SelfInv'
  <2>1. StepInv(self[r], history) /\ self[r].at = "commit"
    BY <1>2 DEF SelfInv, CommitSelf, In
  <2>2. QED BY <1>2, <2>1, PublishSelfInv DEF CommitSelf, StepInv
<1>3. ASSUME NEW r \in Runtimes, DisposeSelf(r) PROVE SelfInv'
  <2>1. StepInv(self[r], history) /\ self[r].at = "rejected"
    BY <1>3 DEF SelfInv, DisposeSelf, In
  <2>2. Len(history) \in Nat \ {0} /\ self[r].head = Len(history)
    BY <1>3, LongerFacts DEF SelfInv, Longer, DisposeSelf, Publish, head
  <2>3. self[r].state \in ReplayOf(history, Len(history))
    BY <2>1, <2>2 DEF StepInv
  <2>4. Viewable(self[r].state)
    BY <2>2, <2>3, ReplayIsViewable
  <2>5. Viewable(apply(self[r].state, Null, 0)) /\ NotesInv(Null)
    BY <2>4, NullKeeps DEF Viewable
  <2>6. Allowed(self[r].state, Null, self[r].grant)
    BY NullIsAllowed
  <2>7. QED BY <1>3, <2>1, <2>5, <2>6, PublishSelfInv DEF DisposeSelf
<1>4. QED
  BY <1>1, <1>2, <1>3, LoadSelfInv, AdmitSelfInv, AnswerSelfInv, ForgetSelfInv, CommitPlainSelfInv
     DEF SelfNext

-----------------------------------------------------------------------------
(* The properties.                                                         *)

\* The inductive invariant holds in every state of every behaviour.
THEOREM SelfInvariant == SelfSpec => []SelfInv
BY InitSelfInv, NextSelfInv, PTL DEF SelfSpec

\* While every writer of protected state is guarded, the history replays: the
\* host can inspect and run the subject again, whatever grants were issued,
\* accepted, lost to races or disposed of.
THEOREM HistoriesReplay == SelfSpec => []HistoryReplays
<1>1. SelfInv => HistoryReplays
  BY ReplayNow DEF SelfInv, ReplayInv, HistoryReplays, head
<1>2. QED BY <1>1, SelfInvariant, PTL

\* What a runtime caches for a head, and admits over, is what the policy's replay
\* of the history computes for it.
THEOREM CachesAreReplays == SelfSpec => []CacheIsReplay
<1>1. SelfInv => CacheIsReplay
  BY ReplayNow DEF SelfInv, CacheInv, CacheIsReplay
<1>2. QED BY <1>1, SelfInvariant, PTL

\* The packet shows the guard in the store enough of the state.
LEMMA GuardSees ==
    ASSUME NEW state, NEW n, NEW g, grant_valid(g, view_of(state, n)),
           NEW p, NotesInv(p), Allowed(state, p, g), Viewable(apply(state, p, 0)),
           NEW packet, packet.view = view_of(state, n), packet.grant = g
    PROVE  TransitionGuard({packet}, p)
<1>1. /\ Rebuilt(packet).profile = state.profile
      /\ \A k \in Ids : Rebuilt(packet).tasks[k] =
            IF state.tasks[k].status = "open" THEN state.tasks[k] ELSE NoTask
  BY DEF Rebuilt, view_of, Open
<1> DEFINE seen == Rebuilt(packet)
<1> HIDE DEF seen
<1>2. NoTask.status # "open"
  BY DEF NoTask, Nil
<1>3. Allowed(seen, p, g)
  <2>1. NotesAllowed(seen, p, g)
    BY <1>1, <1>2 DEF Allowed, NotesAllowed, seen
  <2>2. ProfileAllowed(seen, p, g)
    BY <1>1 DEF Allowed, ProfileAllowed, seen
  <2>3. QED BY <2>1, <2>2 DEF Allowed
<1>4. Open(apply(seen, p, 0).tasks) = Open(apply(state, p, 0).tasks)
  <2>1. ASSUME NEW k \in Ids
        PROVE  apply(seen, p, 0).tasks[k].status = "open"
                  <=> apply(state, p, 0).tasks[k].status = "open"
    BY <1>1, <1>2 DEF apply, seen
  <2>2. QED BY <2>1 DEF Open
<1>5. Viewable(apply(seen, p, 0))
  BY <1>4 DEF Viewable
<1>6. QED BY <1>3, <1>5 DEF TransitionGuard, seen

\* The guard in the store accepts every proposal that SelfRuntime's own guard
\* accepted.
THEOREM BothGuardsAgree == SelfSpec => []GuardsAgree
<1>1. ASSUME SelfInv, NEW r \in Runtimes, self[r].at = "commit"
      PROVE  TransitionGuard({Packet(r)}, self[r].proposal)
  <2>1. StepInv(self[r], history)
    BY <1>1 DEF SelfInv
  <2>2. Packet(r).view = view_of(self[r].state, self[r].head) /\ Packet(r).grant = self[r].grant
    BY DEF Packet
  <2>3. QED BY <1>1, <2>1, <2>2, GuardSees DEF StepInv
<1>2. SelfInv => GuardsAgree
  BY <1>1 DEF GuardsAgree, In
<1>3. QED BY <1>2, SelfInvariant, PTL
=============================================================================
