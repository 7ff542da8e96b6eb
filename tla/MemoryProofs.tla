---------------------------- MODULE MemoryProofs ----------------------------
(***************************************************************************)
(* Typed memory, proved for every deployment, every number of commits,     *)
(* notes and admissions.  Sums, deposits and replay are recursive          *)
(* functions; what they compute is proved by minimal counterexample.       *)
(***************************************************************************)
EXTENDS Memory, FiniteSetTheorems, TLAPS

-----------------------------------------------------------------------------
(* Sums of sizes.                                                          *)

\* A nonempty set of naturals has a least element.
LEMMA LeastElement ==
    ASSUME NEW S \in SUBSET Nat, S # {}
    PROVE  \E m \in S : \A k \in S : m <= k
<1>1. PICK m \in S : \A k \in S : ~(<<k, m>> \in OpToRel(<, Nat))
  BY WFMin, NatLessThanWellFounded
<1>2. \A k \in S : ~(k < m)
  BY <1>1 DEF OpToRel
<1>3. QED BY <1>2

\* The element a sum takes first.
First(s) == CHOOSE x \in s : TRUE

LEMMA FirstIsOne == \A s : s # {} => First(s) \in s
BY DEF First

\* The sum of a subset, from the sums b of its subsets.
Term(db, b, s) == IF s = {} THEN 0 ELSE db[First(s)].size + b[s \ {First(s)}]

\* b holds the sums of all subsets of S.
IsSum(b, db, S) == b = [s \in SUBSET S |-> Term(db, b, s)]

LEMMA BytesIsSum ==
    ASSUME NEW db, NEW S
    PROVE  Bytes(db, S) = (CHOOSE b : IsSum(b, db, S))[S]
BY DEF Bytes, MapThenSumSet, MapThenFoldSet, IsSum, Term, First


\* Among finite sets with a property there is a smallest one.
LEMMA SmallestSet ==
    ASSUME NEW D, D # {}, \A s \in D : IsFiniteSet(s)
    PROVE  \E s \in D : \A t \in D : ~(Cardinality(t) < Cardinality(s))
<1> DEFINE N == {Cardinality(s) : s \in D}
<1>1. N \in SUBSET Nat /\ N # {}
  BY FS_CardinalityType
<1> HIDE DEF N
<1>2. PICK m \in N : \A k \in N : m <= k
  BY <1>1, LeastElement
<1>3. PICK s \in D : m = Cardinality(s)
  BY <1>2 DEF N
<1>4. ASSUME NEW t \in D PROVE ~(Cardinality(t) < Cardinality(s))
  <2>1. Cardinality(t) \in N /\ Cardinality(t) \in Nat /\ m \in Nat
    BY <1>1, <1>2 DEF N
  <2>2. QED BY <1>2, <1>3, <2>1
<1>5. QED BY <1>4

LEMMA SmallerWithout ==
    ASSUME NEW S, IsFiniteSet(S), NEW x \in S
    PROVE  IsFiniteSet(S \ {x}) /\ Cardinality(S \ {x}) < Cardinality(S)
<1>1. IsFiniteSet(S \ {x}) /\ Cardinality(S \ {x}) = Cardinality(S) - 1
  BY FS_RemoveElement
<1>2. Cardinality(S) \in Nat
  BY FS_CardinalityType
<1>3. QED BY <1>1, <1>2

\* A sum depends only on the sizes in its set.
LEMMA SumsAgree ==
    ASSUME NEW S, IsFiniteSet(S), NEW T, NEW db, NEW e,
           \A i \in S \cap T : db[i].size = e[i].size,
           NEW b, IsSum(b, db, S), NEW c, IsSum(c, e, T)
    PROVE  \A s \in SUBSET (S \cap T) : b[s] = c[s]
<1> DEFINE D == {s \in SUBSET (S \cap T) : b[s] # c[s]}
<1>1. ASSUME D # {} PROVE FALSE
  <2>1. \A s \in D : IsFiniteSet(s)
    BY FS_Subset
  <2>2. PICK s \in D : \A t \in D : ~(Cardinality(t) < Cardinality(s))
    <3> HIDE DEF D
    <3> QED BY <1>1, <2>1, SmallestSet
  <2>3. s \in SUBSET S /\ s \in SUBSET T /\ b[s] # c[s] /\ IsFiniteSet(s)
    BY <2>1
  <2>4. b[s] = Term(db, b, s) /\ c[s] = Term(e, c, s)
    BY <2>3 DEF IsSum
  <2>5. s # {}
    BY <2>3, <2>4 DEF Term
  <2>6. PICK x : x = First(s)
    OBVIOUS
  <2>7. x \in s /\ x \in S \cap T
    BY <2>3, <2>5, <2>6, FirstIsOne
  <2>8. Cardinality(s \ {x}) < Cardinality(s)
    BY <2>3, <2>7, SmallerWithout
  <2>9. s \ {x} \notin D
    <3> HIDE DEF D
    <3> QED BY <2>2, <2>8
  <2>10. b[s \ {x}] = c[s \ {x}]
    BY <2>3, <2>9
  <2>11. db[x].size = e[x].size
    BY <2>7
  <2>12. QED BY <2>3, <2>4, <2>6, <2>10, <2>11 DEF Term
<1>2. QED BY <1>1

\* Sums over one index agree where they overlap.
LEMMA SumsOverlap ==
    ASSUME NEW db, NEW S, IsFiniteSet(S), NEW T, NEW b, IsSum(b, db, S), NEW c, IsSum(c, db, T)
    PROVE  \A s \in SUBSET (S \cap T) : b[s] = c[s]
<1>1. PICK e : e = db
  OBVIOUS
<1>2. IsSum(c, e, T) /\ \A i \in S \cap T : db[i].size = e[i].size
  BY <1>1
<1>3. QED BY <1>2, SumsAgree

\* Every finite set has its sums.
LEMMA SumExists ==
    ASSUME NEW db
    PROVE  \A S : IsFiniteSet(S) => \E b : IsSum(b, db, S)
<1> SUFFICES ASSUME NEW R, IsFiniteSet(R) PROVE \E b : IsSum(b, db, R)
  OBVIOUS
<1> DEFINE D == {S \in SUBSET R : ~\E b : IsSum(b, db, S)}
<1>1. ASSUME D # {} PROVE FALSE
  <2>1. \A s \in D : IsFiniteSet(s)
    BY FS_Subset
  <2>2. PICK S \in D : \A t \in D : ~(Cardinality(t) < Cardinality(S))
    <3> HIDE DEF D
    <3> QED BY <1>1, <2>1, SmallestSet
  <2>3. S \in SUBSET R /\ IsFiniteSet(S) /\ ~\E b : IsSum(b, db, S)
    BY <2>1
  <2> DEFINE Sums(s) == CHOOSE b : IsSum(b, db, s)
  <2>4. ASSUME NEW s \in SUBSET S, s # S PROVE IsFiniteSet(s) /\ IsSum(Sums(s), db, s)
    <3>1. IsFiniteSet(s) /\ Cardinality(s) < Cardinality(S)
      BY <2>3, <2>4, FS_Subset, FS_CardinalityType
    <3>2. s \in SUBSET R /\ s \notin D
      <4>1. s \in SUBSET R
        BY <2>3
      <4> HIDE DEF D
      <4>2. QED BY <2>2, <3>1, <4>1
    <3>3. \E b : IsSum(b, db, s)
      BY <3>2
    <3>4. QED BY <3>1, <3>3
  <2> HIDE DEF Sums
  <2> DEFINE part == [s \in SUBSET S |-> Sums(s)[s]]
             b == [s \in SUBSET S |-> IF s = S THEN Term(db, part, S) ELSE part[s]]
  <2>5. ASSUME NEW s \in SUBSET S PROVE b[s] = Term(db, b, s)
    <3>1. CASE s = {}
      <4>1. CASE S = {}
        BY <3>1, <4>1 DEF Term
      <4>2. CASE S # {}
        <5>1. b[s] = Sums(s)[s] /\ s # S
          BY <3>1, <4>2
        <5>2. s \in SUBSET s /\ Sums(s)[s] = Term(db, Sums(s), s)
          BY <2>4, <5>1 DEF IsSum
        <5>3. QED BY <3>1, <5>1, <5>2 DEF Term
      <4>3. QED BY <4>1, <4>2
    <3>2. CASE s # {}
      <4>1. PICK x : x = First(s) /\ x \in s
        BY <3>2, FirstIsOne
      <4>2. PICK r : r = s \ {x}
        OBVIOUS
      <4>3. r \in SUBSET S /\ r # S /\ b[r] = part[r] /\ part[r] = Sums(r)[r]
        BY <4>1, <4>2
      <4>4. CASE s = S
        <5>1. b[s] = Term(db, part, s)
          BY <4>4
        <5>2. QED BY <3>2, <4>1, <4>2, <4>3, <5>1 DEF Term
      <4>5. CASE s # S
        <5>1. b[s] = Sums(s)[s]
          BY <4>5
        <5>2. Sums(s)[s] = Term(db, Sums(s), s)
          BY <2>4, <4>5 DEF IsSum
        <5>3. Sums(s)[r] = Sums(r)[r]
          <6>1. IsSum(Sums(s), db, s) /\ IsSum(Sums(r), db, r) /\ IsFiniteSet(s)
            BY <2>4, <4>3, <4>5
          <6>2. r \in SUBSET (s \cap r)
            BY <4>2
          <6>3. \A q \in SUBSET (s \cap r) : Sums(s)[q] = Sums(r)[q]
            BY <6>1, SumsOverlap
          <6>4. QED BY <6>2, <6>3
        <5>4. QED BY <3>2, <4>1, <4>2, <4>3, <5>1, <5>2, <5>3 DEF Term
      <4>6. QED BY <4>4, <4>5
    <3>3. QED BY <3>1, <3>2
  <2>6. b = [s \in SUBSET S |-> b[s]]
    OBVIOUS
  <2> HIDE DEF b
  <2>7. b = [s \in SUBSET S |-> Term(db, b, s)]
    BY <2>5, <2>6
  <2>8. QED BY <2>3, <2>7 DEF IsSum
<1>2. R \notin D
  <2> HIDE DEF D
  <2> QED BY <1>1
<1>3. QED BY <1>2


LEMMA SumIsChosen ==
    ASSUME NEW db, NEW S, IsFiniteSet(S)
    PROVE  \E b : IsSum(b, db, S) /\ \A s \in SUBSET S : Bytes(db, s) = b[s]
<1> DEFINE Sums(s) == CHOOSE b : IsSum(b, db, s)
<1>1. ASSUME NEW s \in SUBSET S PROVE IsFiniteSet(s) /\ IsSum(Sums(s), db, s) /\ Bytes(db, s) = Sums(s)[s]
  <2>1. IsFiniteSet(s)
    BY FS_Subset
  <2>2. \E b : IsSum(b, db, s)
    BY <2>1, SumExists
  <2>3. QED BY <2>1, <2>2, BytesIsSum
<1> HIDE DEF Sums
<1>2. ASSUME NEW s \in SUBSET S PROVE Bytes(db, s) = Sums(S)[s]
  <2>1. PICK b : b = Sums(S)
    OBVIOUS
  <2>2. PICK T, c : T = s /\ c = Sums(s)
    OBVIOUS
  <2>3. IsFiniteSet(S) /\ IsSum(b, db, S) /\ IsSum(c, db, T)
    BY <1>1, <2>1, <2>2
  <2>4. \A q \in SUBSET (S \cap T) : b[q] = c[q]
    BY <2>3, SumsOverlap
  <2>5. QED BY <1>1, <2>1, <2>2, <2>4
<1>3. IsSum(Sums(S), db, S)
  BY <1>1
<1>4. QED BY <1>2, <1>3

\* The equations of a sum.
LEMMA BytesOfNone == ASSUME NEW db PROVE Bytes(db, {}) = 0
<1>1. PICK b : IsSum(b, db, {}) /\ Bytes(db, {}) = b[{}]
  BY SumIsChosen, FS_EmptySet
<1>2. QED BY <1>1 DEF IsSum, Term

LEMMA BytesWithFirst ==
    ASSUME NEW db, NEW S, IsFiniteSet(S), S # {}
    PROVE  First(S) \in S /\ Bytes(db, S) = db[First(S)].size + Bytes(db, S \ {First(S)})
<1>1. PICK b : IsSum(b, db, S) /\ \A s \in SUBSET S : Bytes(db, s) = b[s]
  BY SumIsChosen
<1>2. S \in SUBSET S /\ S \ {First(S)} \in SUBSET S
  OBVIOUS
<1>3. b[S] = Term(db, b, S)
  BY <1>1, <1>2 DEF IsSum
<1>4. QED BY <1>1, <1>2, <1>3, FirstIsOne DEF Term

\* Sums over two indexes with the same sizes are the same.
LEMMA BytesAgree ==
    ASSUME NEW S, IsFiniteSet(S), NEW db, NEW e, \A i \in S : db[i].size = e[i].size
    PROVE  Bytes(db, S) = Bytes(e, S)
<1>1. PICK b : IsSum(b, db, S) /\ Bytes(db, S) = b[S]
  BY SumIsChosen
<1>2. PICK c : IsSum(c, e, S) /\ Bytes(e, S) = c[S]
  BY SumIsChosen
<1>3. PICK T : T = S
  OBVIOUS
<1>4. IsSum(c, e, T) /\ \A i \in S \cap T : db[i].size = e[i].size
  BY <1>2, <1>3
<1>5. \A s \in SUBSET (S \cap T) : b[s] = c[s]
  BY <1>1, <1>4, SumsAgree
<1>6. QED BY <1>1, <1>2, <1>3, <1>5

\* The order does not matter.
LEMMA BytesWithAny ==
    ASSUME NEW db, NEW R, IsFiniteSet(R), \A i \in R : db[i].size \in Nat
    PROVE  /\ \A S \in SUBSET R : Bytes(db, S) \in Nat
           /\ \A S \in SUBSET R : \A x \in S : Bytes(db, S) = db[x].size + Bytes(db, S \ {x})
<1> DEFINE Good(S) == /\ Bytes(db, S) \in Nat
                      /\ \A x \in S : Bytes(db, S) = db[x].size + Bytes(db, S \ {x})
           D == {S \in SUBSET R : ~Good(S)}
<1>1. ASSUME D # {} PROVE FALSE
  <2>1. \A s \in D : IsFiniteSet(s)
    BY FS_Subset
  <2>2. PICK S \in D : \A t \in D : ~(Cardinality(t) < Cardinality(S))
    <3> HIDE DEF D
    <3> QED BY <1>1, <2>1, SmallestSet
  <2>3. S \in SUBSET R /\ IsFiniteSet(S) /\ ~Good(S)
    BY <2>1
  <2>4. ASSUME NEW t \in SUBSET S, Cardinality(t) < Cardinality(S) PROVE Good(t)
    <3> HIDE DEF Good
    <3>1. t \in SUBSET R /\ t \notin D
      <4>1. t \in SUBSET R
        BY <2>3
      <4> HIDE DEF D
      <4>2. QED BY <2>2, <2>4, <4>1
    <3>2. QED BY <3>1
  <2>5. S # {}
    <3>1. Bytes(db, {}) \in Nat
      BY BytesOfNone
    <3>2. QED BY <2>3, <3>1
  <2>6. PICK y : y = First(S)
    OBVIOUS
  <2>7. y \in S /\ Bytes(db, S) = db[y].size + Bytes(db, S \ {y})
    BY <2>3, <2>5, <2>6, BytesWithFirst
  <2>8. Good(S \ {y})
    BY <2>3, <2>4, <2>7, SmallerWithout
  <2>9. Bytes(db, S) \in Nat
    BY <2>3, <2>7, <2>8
  <2>10. ASSUME NEW x \in S PROVE Bytes(db, S) = db[x].size + Bytes(db, S \ {x})
    <3>1. CASE x = y
      BY <2>7, <3>1
    <3>2. CASE x # y
      <4>1. Good(S \ {x})
        BY <2>3, <2>4, SmallerWithout
      <4>2. PICK rest : rest = (S \ {x}) \ {y}
        OBVIOUS
      <4>3. rest = (S \ {y}) \ {x} /\ x \in S \ {y} /\ y \in S \ {x}
        BY <2>7, <3>2, <4>2
      <4>4. Bytes(db, S \ {y}) = db[x].size + Bytes(db, rest)
        BY <2>8, <4>3
      <4>5. Bytes(db, S \ {x}) = db[y].size + Bytes(db, rest)
        BY <4>1, <4>2, <4>3
      <4>6. rest \in SUBSET S /\ Cardinality(rest) < Cardinality(S)
        <5>1. IsFiniteSet(S \ {x}) /\ Cardinality(S \ {x}) < Cardinality(S)
          BY <2>3, SmallerWithout
        <5>2. IsFiniteSet(rest) /\ Cardinality(rest) < Cardinality(S \ {x})
          <6>1. PICK others : others = S \ {x}
            OBVIOUS
          <6>2. IsFiniteSet(others) /\ y \in others /\ rest = others \ {y}
            BY <4>2, <4>3, <5>1, <6>1
          <6>3. QED BY <6>1, <6>2, SmallerWithout
        <5>3. Cardinality(S) \in Nat /\ Cardinality(S \ {x}) \in Nat /\ Cardinality(rest) \in Nat
          BY <2>3, <5>1, <5>2, FS_CardinalityType
        <5>4. QED BY <4>2, <5>1, <5>2, <5>3
      <4>7. Bytes(db, rest) \in Nat /\ db[x].size \in Nat /\ db[y].size \in Nat
        BY <2>3, <2>4, <2>7, <4>6
      <4> HIDE DEF Good
      <4>8. QED BY <2>7, <4>4, <4>5, <4>7
    <3>3. QED BY <3>1, <3>2
  <2>11. QED BY <2>3, <2>9, <2>10
<1>2. \A S \in SUBSET R : Good(S)
  <2> HIDE DEF Good
  <2> QED BY <1>1
<1>3. QED BY <1>2

\* A smaller set has no larger sum.
LEMMA BytesGrow ==
    ASSUME NEW db, NEW R, IsFiniteSet(R), \A i \in R : db[i].size \in Nat, NEW T \in SUBSET R
    PROVE  Bytes(db, T) <= Bytes(db, R)
<1> DEFINE D == {S \in SUBSET R : T \subseteq S /\ ~(Bytes(db, T) <= Bytes(db, S))}
<1>1. ASSUME D # {} PROVE FALSE
  <2>1. \A s \in D : IsFiniteSet(s)
    BY FS_Subset
  <2>2. PICK S \in D : \A t \in D : ~(Cardinality(t) < Cardinality(S))
    <3> HIDE DEF D
    <3> QED BY <1>1, <2>1, SmallestSet
  <2>3. S \in SUBSET R /\ IsFiniteSet(S) /\ T \subseteq S /\ ~(Bytes(db, T) <= Bytes(db, S))
    BY <2>1
  <2>4. Bytes(db, S) \in Nat /\ Bytes(db, T) \in Nat
    BY <2>3, BytesWithAny
  <2>5. PICK x \in S : x \notin T
    BY <2>3, <2>4
  <2>6. S \ {x} \in SUBSET R /\ T \subseteq S \ {x}
    BY <2>3, <2>5
  <2>7. Bytes(db, S \ {x}) \in Nat /\ Bytes(db, S) = db[x].size + Bytes(db, S \ {x}) /\ db[x].size \in Nat
    BY <2>3, <2>6, BytesWithAny
  <2>8. S \ {x} \notin D
    <3> HIDE DEF D
    <3> QED BY <2>2, <2>3, SmallerWithout
  <2>9. Bytes(db, T) <= Bytes(db, S \ {x})
    BY <2>6, <2>8
  <2>10. QED BY <2>3, <2>4, <2>7, <2>9
<1>2. R \notin D
  <2> HIDE DEF D
  <2> QED BY <1>1
<1>3. QED BY <1>2


-----------------------------------------------------------------------------
(* What the notes of a commit make of the index.                           *)

Writing(notes) == {notes[i].key : i \in 1 .. Len(notes)}

\* The indexes after the i-th note, from those before it.
NoteLayer(s, db, notes, at, i) ==
    IF i = 0 THEN {db}
    ELSE {Deposited(d, notes[i], at) :
            d \in {e \in s[i - 1] : Depositable(e, notes[i], Writing(notes), at)}}

\* s holds the indexes after each of the first n notes.
IsDeposit(s, db, notes, at, n) == s = [i \in 0 .. n |-> NoteLayer(s, db, notes, at, i)]

LEMMA ApplyIsDeposit ==
    ASSUME NEW db, NEW notes, NEW at
    PROVE  memory_apply(db, notes, at) =
               IF Cardinality(Writing(notes)) = Len(notes)
               THEN (CHOOSE s : IsDeposit(s, db, notes, at, Len(notes)))[Len(notes)]
               ELSE {}
BY DEF memory_apply, IsDeposit, NoteLayer, Writing

LEMMA DepositExists ==
    ASSUME NEW db, NEW notes, NEW at
    PROVE  \A n \in Nat : \E s : IsDeposit(s, db, notes, at, n)
<1> DEFINE S == {n \in Nat : ~\E s : IsDeposit(s, db, notes, at, n)}
<1>1. ASSUME S # {} PROVE FALSE
  <2>1. PICK n \in S : \A k \in S : n <= k
    <3>1. S \in SUBSET Nat
      OBVIOUS
    <3> HIDE DEF S
    <3>2. QED BY <1>1, <3>1, LeastElement
  <2>2. n \in Nat /\ ~\E s : IsDeposit(s, db, notes, at, n)
    OBVIOUS
  <2>3. CASE n = 0
    <3> DEFINE s == [i \in 0 .. 0 |-> {db}]
    <3>1. s = [i \in 0 .. 0 |-> NoteLayer(s, db, notes, at, i)]
      BY DEF NoteLayer
    <3>2. QED BY <2>2, <2>3, <3>1 DEF IsDeposit
  <2>4. CASE n # 0
    <3>1. n - 1 \in Nat /\ ~(n <= n - 1)
      BY <2>2, <2>4
    <3>2. n - 1 \notin S
      BY <2>1, <3>1
    <3>3. PICK s : IsDeposit(s, db, notes, at, n - 1)
      BY <3>1, <3>2
    <3> DEFINE t == [i \in 0 .. n |-> IF i = n THEN NoteLayer(s, db, notes, at, n) ELSE s[i]]
    <3>4. ASSUME NEW i \in 0 .. n PROVE t[i] = NoteLayer(t, db, notes, at, i)
      <4>1. i # 0 => i - 1 \in 0 .. n /\ i - 1 # n
        BY <2>2
      <4>2. i # 0 => t[i - 1] = s[i - 1]
        BY <4>1
      <4>3. NoteLayer(t, db, notes, at, i) = NoteLayer(s, db, notes, at, i)
        BY <4>2 DEF NoteLayer
      <4>4. CASE i = n
        BY <4>3, <4>4
      <4>5. CASE i # n
        <5>1. i \in 0 .. n - 1
          BY <2>2, <4>5
        <5>2. s[i] = NoteLayer(s, db, notes, at, i)
          BY <3>3, <5>1 DEF IsDeposit
        <5>3. QED BY <4>3, <4>5, <5>2
      <4>6. QED BY <4>4, <4>5
    <3>5. t = [i \in 0 .. n |-> t[i]]
      OBVIOUS
    <3> HIDE DEF t
    <3>6. t = [i \in 0 .. n |-> NoteLayer(t, db, notes, at, i)]
      BY <3>4, <3>5
    <3>7. QED BY <2>2, <3>6 DEF IsDeposit
  <2>5. QED BY <2>3, <2>4
<1>2. QED BY <1>1

\* The notes of an accepted commit have different keys.
LEMMA KeysAreDistinct ==
    ASSUME NEW n \in Nat, NEW notes, Cardinality({notes[i].key : i \in 1 .. n}) = n
    PROVE  \A i, j \in 1 .. n : notes[i].key = notes[j].key => i = j
<1> DEFINE T == {notes[i].key : i \in 1 .. n}
           f == [i \in 1 .. n |-> notes[i].key]
<1>1. f \in Surjection(1 .. n, T)
  BY DEF Surjection
<1>2. IsFiniteSet(1 .. n) /\ Cardinality(1 .. n) = n
  BY FS_Interval
<1>3. f \in Injection(1 .. n, T)
  <2>1. Cardinality(T) = Cardinality(1 .. n)
    BY <1>2
  <2> HIDE DEF f, T
  <2>2. QED BY <1>1, <1>2, <2>1, FS_Surjection
<1>4. QED BY <1>3 DEF Injection, IsInjective


NoteTypes == {"note", "task", "summary", "procedure"}

NoteRow(K) ==
    [key : K, type : NoteTypes, status : Statuses, size : Nat, sources : SUBSET Nat, covers : SUBSET Nat]

EntryRow(K) ==
    [key : K, type : NoteTypes, status : Statuses, size : Nat, sources : SUBSET Nat,
     covers : SUBSET Nat, tick : Nat, current : BOOLEAN]

\* The fields that a deposit fixes for good.
SameTerms(e, n) ==
    /\ e.key = n.key /\ e.type = n.type /\ e.status = n.status /\ e.size = n.size
    /\ e.sources = n.sources /\ e.covers = n.covers

\* One deposit supersedes the version of its key and appends its own.
LEMMA DepositedRows ==
    ASSUME NEW K, NEW d \in Seq(EntryRow(K)), NEW n \in NoteRow(K), NEW at \in Nat, NEW e,
           e = Deposited(d, n, at)
    PROVE  /\ e \in Seq(EntryRow(K))
           /\ Len(e) = Len(d) + 1
           /\ \A k \in Ids(d) : /\ SameTerms(e[k], d[k]) /\ e[k].tick = d[k].tick
                                /\ e[k].current <=> d[k].current /\ d[k].key # n.key
           /\ SameTerms(e[Len(d) + 1], n) /\ e[Len(d) + 1].tick = at /\ e[Len(d) + 1].current
<1> DEFINE row == [key |-> n.key, type |-> n.type, status |-> n.status, size |-> n.size,
                   sources |-> n.sources, covers |-> n.covers, tick |-> at, current |-> TRUE]
           old == [i \in Ids(d) |-> IF d[i].key = n.key THEN [d[i] EXCEPT !.current = FALSE] ELSE d[i]]
<1>1. e = Append(old, row)
  BY DEF Deposited
<1>2. row \in EntryRow(K) /\ SameTerms(row, n) /\ row.tick = at /\ row.current
  <2>1. TRUE \in BOOLEAN
    OBVIOUS
  <2>2. row \in EntryRow(K)
    BY <2>1 DEF EntryRow, NoteRow
  <2>3. QED BY <2>2 DEF SameTerms
<1>3. ASSUME NEW k \in Ids(d)
      PROVE  /\ old[k] \in EntryRow(K)
             /\ SameTerms(old[k], d[k]) /\ old[k].tick = d[k].tick
             /\ old[k].current <=> d[k].current /\ d[k].key # n.key
  <2>1. d[k] \in EntryRow(K)
    BY DEF Ids
  <2>2. CASE d[k].key = n.key
    <3>1. old[k] = [d[k] EXCEPT !.current = FALSE]
      BY <2>2
    <3>2. FALSE \in BOOLEAN
      OBVIOUS
    <3> HIDE DEF old
    <3>3. old[k] \in EntryRow(K)
      BY <2>1, <3>1, <3>2 DEF EntryRow
    <3>4. SameTerms(old[k], d[k]) /\ old[k].tick = d[k].tick
      BY <2>1, <3>1 DEF EntryRow, SameTerms
    <3>5. old[k].current = FALSE
      BY <2>1, <3>1 DEF EntryRow
    <3>6. QED BY <2>2, <3>3, <3>4, <3>5
  <2>3. CASE d[k].key # n.key
    BY <2>1, <2>3 DEF SameTerms
  <2>4. QED BY <2>2, <2>3
<1>4. old \in Seq(EntryRow(K)) /\ Len(old) = Len(d)
  <2>1. Len(d) \in Nat /\ DOMAIN old = 1 .. Len(d)
    BY DEF Ids
  <2>2. old \in [1 .. Len(d) -> EntryRow(K)]
    BY <1>3 DEF Ids
  <2> HIDE DEF old
  <2>3. QED BY <2>1, <2>2
<1> HIDE DEF row, old
<1>5. e \in Seq(EntryRow(K)) /\ Len(e) = Len(d) + 1 /\ e[Len(d) + 1] = row
  BY <1>1, <1>2, <1>4
<1>6. \A k \in Ids(d) : e[k] = old[k]
  BY <1>1, <1>2, <1>4 DEF Ids
<1>7. QED BY <1>2, <1>3, <1>5, <1>6

\* What a commit may assume of the notes it took, in terms of the index before it.
Accepted(db, n) ==
    /\ WellFormed(n)
    /\ \A s \in n.sources : s \in Ids(db) /\ (n.type = "summary" => db[s].type # "summary")
    /\ Resolves(db, n)

\* The index after the first i notes.
Grown(K, db, e, notes, at, i) ==
    /\ e \in Seq(EntryRow(K))
    /\ Len(e) = Len(db) + i
    /\ \A k \in Ids(db) :
          /\ SameTerms(e[k], db[k]) /\ e[k].tick = db[k].tick
          /\ e[k].current <=> db[k].current /\ \A j \in 1 .. i : notes[j].key # db[k].key
    /\ \A j \in 1 .. i :
          /\ SameTerms(e[Len(db) + j], notes[j])
          /\ e[Len(db) + j].tick = at /\ e[Len(db) + j].current
          /\ Accepted(db, notes[j])

LEMMA NoteGrows ==
    ASSUME NEW K, NEW db \in Seq(EntryRow(K)), NEW notes \in Seq(NoteRow(K)), NEW at \in Nat,
           \A k \in Ids(db) : db[k].tick < at,
           NEW i \in 1 .. Len(notes),
           \A j \in 1 .. i - 1 : notes[j].key # notes[i].key,
           NEW d, Grown(K, db, d, notes, at, i - 1),
           Depositable(d, notes[i], Writing(notes), at)
    PROVE  Grown(K, db, Deposited(d, notes[i], at), notes, at, i)
<1> DEFINE n == notes[i]
           e == Deposited(d, n, at)
<1>1. n \in NoteRow(K) /\ d \in Seq(EntryRow(K)) /\ Len(d) = Len(db) + (i - 1) /\ i \in Nat
      /\ Len(db) \in Nat /\ Len(d) \in Nat
  BY DEF Grown
<1>2. /\ e \in Seq(EntryRow(K))
      /\ Len(e) = Len(d) + 1
      /\ \A k \in Ids(d) : /\ SameTerms(e[k], d[k]) /\ e[k].tick = d[k].tick
                           /\ e[k].current <=> d[k].current /\ d[k].key # n.key
      /\ SameTerms(e[Len(d) + 1], n) /\ e[Len(d) + 1].tick = at /\ e[Len(d) + 1].current
  <2> HIDE DEF n
  <2>1. QED BY <1>1, DepositedRows
<1>3. Depositable(d, n, Writing(notes), at)
  OBVIOUS
<1>4. Ids(db) \subseteq Ids(d) /\ \A j \in 1 .. i - 1 : Len(db) + j \in Ids(d)
  BY <1>1 DEF Ids
<1> HIDE DEF n, e
<1>5. ASSUME NEW k \in Ids(db)
      PROVE  /\ SameTerms(e[k], db[k]) /\ e[k].tick = db[k].tick
             /\ e[k].current <=> db[k].current /\ \A j \in 1 .. i : notes[j].key # db[k].key
  <2>1. /\ SameTerms(d[k], db[k]) /\ d[k].tick = db[k].tick
        /\ d[k].current <=> db[k].current /\ \A j \in 1 .. i - 1 : notes[j].key # db[k].key
    BY DEF Grown
  <2>2. /\ SameTerms(e[k], d[k]) /\ e[k].tick = d[k].tick
        /\ e[k].current <=> d[k].current /\ d[k].key # n.key
    BY <1>2, <1>4
  <2>3. (\A j \in 1 .. i : notes[j].key # db[k].key)
          <=> (\A j \in 1 .. i - 1 : notes[j].key # db[k].key) /\ db[k].key # n.key
    <3>1. \A j : j \in 1 .. i <=> j \in 1 .. i - 1 \/ j = i
      BY <1>1
    <3>2. QED BY <3>1 DEF n
  <2>4. QED BY <2>1, <2>2, <2>3 DEF SameTerms
<1>6. Accepted(db, n)
  <2>1. WellFormed(n)
    BY <1>3 DEF Depositable
  <2>2. ASSUME NEW s \in n.sources
        PROVE  s \in Ids(db) /\ (n.type = "summary" => db[s].type # "summary")
    <3>1. s \in Ids(d) /\ d[s].tick < at /\ (n.type = "summary" => d[s].type # "summary")
      BY <1>3 DEF Depositable, SourceAllowed
    <3>2. s \in Ids(db)
      <4>1. SUFFICES ASSUME s \notin Ids(db) PROVE FALSE
        OBVIOUS
      <4>2. s - Len(db) \in 1 .. i - 1 /\ Len(db) + (s - Len(db)) = s
        BY <1>1, <3>1, <4>1 DEF Ids
      <4>3. d[s].tick = at
        BY <4>2 DEF Grown
      <4>4. QED BY <3>1, <4>3
    <3>3. SameTerms(d[s], db[s])
      BY <3>2 DEF Grown
    <3>4. QED BY <3>1, <3>2, <3>3 DEF SameTerms
  <2>3. Resolves(db, n)
    <3>1. SUFFICES ASSUME NEW k \in Ids(db), db[k].key = n.key, db[k].current, db[k].status = "open"
                   PROVE  n.type = "task" /\ n.status \in {"open"} \cup Settled
      BY DEF Resolves
    <3>2. SameTerms(d[k], db[k]) /\ d[k].current
      <4>1. \A j \in 1 .. i - 1 : notes[j].key # db[k].key
        BY <3>1 DEF n
      <4>2. QED BY <3>1, <4>1 DEF Grown
    <3>3. d[k].key = n.key /\ d[k].status = "open" /\ k \in Ids(d)
      BY <1>4, <3>1, <3>2 DEF SameTerms
    <3>4. Resolves(d, n)
      BY <1>3 DEF Depositable
    <3>5. QED BY <3>2, <3>3, <3>4 DEF Resolves
  <2>4. QED BY <2>1, <2>2, <2>3 DEF Accepted
<1>7. ASSUME NEW j \in 1 .. i
      PROVE  /\ SameTerms(e[Len(db) + j], notes[j])
             /\ e[Len(db) + j].tick = at /\ e[Len(db) + j].current
             /\ Accepted(db, notes[j])
  <2>1. CASE j = i
    <3>1. Len(db) + j = Len(d) + 1
      BY <1>1, <2>1
    <3>2. QED BY <1>2, <1>6, <2>1, <3>1 DEF n
  <2>2. CASE j # i
    <3>1. j \in 1 .. i - 1
      BY <1>1, <2>2
    <3>2. /\ SameTerms(d[Len(db) + j], notes[j])
          /\ d[Len(db) + j].tick = at /\ d[Len(db) + j].current
          /\ Accepted(db, notes[j])
      BY <3>1 DEF Grown
    <3>3. /\ SameTerms(e[Len(db) + j], d[Len(db) + j]) /\ e[Len(db) + j].tick = d[Len(db) + j].tick
          /\ e[Len(db) + j].current <=> d[Len(db) + j].current /\ d[Len(db) + j].key # n.key
      BY <1>2, <1>4, <3>1
    <3>4. d[Len(db) + j].key # n.key
      BY <3>1, <3>2 DEF SameTerms, n
    <3>5. QED BY <3>2, <3>3, <3>4 DEF SameTerms
  <2>3. QED BY <2>1, <2>2
<1>8. Len(e) = Len(db) + i
  BY <1>1, <1>2
<1>9. QED BY <1>2, <1>5, <1>7, <1>8 DEF Grown, e, n


\* Every index that a commit can yield has grown so, and there is one at most.
LEMMA ApplyGrows ==
    ASSUME NEW K, NEW db \in Seq(EntryRow(K)), NEW notes \in Seq(NoteRow(K)), NEW at \in Nat,
           \A k \in Ids(db) : db[k].tick < at,
           NEW e \in memory_apply(db, notes, at)
    PROVE  /\ \A i, j \in 1 .. Len(notes) : notes[i].key = notes[j].key => i = j
           /\ Grown(K, db, e, notes, at, Len(notes))
           /\ memory_apply(db, notes, at) = {e}
<1> DEFINE n == Len(notes)
           s == CHOOSE s : IsDeposit(s, db, notes, at, n)
<1>1. n \in Nat
  OBVIOUS
<1>2. Cardinality(Writing(notes)) = n
  BY ApplyIsDeposit
<1>3. memory_apply(db, notes, at) = s[n]
  BY <1>2, ApplyIsDeposit
<1>4. IsDeposit(s, db, notes, at, n)
  <2>1. \E q : IsDeposit(q, db, notes, at, n)
    BY <1>1, DepositExists
  <2>2. QED BY <2>1
<1>5. \A i, j \in 1 .. n : notes[i].key = notes[j].key => i = j
  BY <1>1, <1>2, KeysAreDistinct DEF Writing
<1> HIDE DEF s, n
<1> DEFINE Good(i) == /\ \A d \in s[i] : Grown(K, db, d, notes, at, i)
                      /\ \A d, f \in s[i] : d = f
           S == {i \in 0 .. n : ~Good(i)}
<1>6. ASSUME S # {} PROVE FALSE
  <2>1. S \in SUBSET Nat
    BY <1>1
  <2>2. PICK i \in S : \A k \in S : i <= k
    <3> HIDE DEF S
    <3> QED BY <1>6, <2>1, LeastElement
  <2>3. i \in 0 .. n /\ ~Good(i)
    OBVIOUS
  <2>4. s[i] = NoteLayer(s, db, notes, at, i)
    BY <2>3, <1>4 DEF IsDeposit
  <2>5. CASE i = 0
    <3>1. s[i] = {db}
      BY <2>4, <2>5 DEF NoteLayer
    <3>2. Grown(K, db, db, notes, at, 0)
      BY DEF Grown, SameTerms
    <3>3. QED BY <2>3, <2>5, <3>1, <3>2
  <2>6. CASE i # 0
    <3>1. i - 1 \in 0 .. n /\ ~(i <= i - 1) /\ i \in 1 .. Len(notes)
      BY <1>1, <2>3, <2>6 DEF n
    <3>2. i - 1 \notin S
      <4> HIDE DEF S
      <4> QED BY <2>2, <3>1
    <3>3. Good(i - 1)
      BY <3>1, <3>2
    <3>4. s[i] = {Deposited(d, notes[i], at) :
                    d \in {f \in s[i - 1] : Depositable(f, notes[i], Writing(notes), at)}}
      BY <2>4, <2>6 DEF NoteLayer
    <3>5. \A j \in 1 .. i - 1 : notes[j].key # notes[i].key
      BY <1>1, <1>5, <3>1 DEF n
    <3>6. ASSUME NEW d \in s[i - 1], Depositable(d, notes[i], Writing(notes), at)
          PROVE  Grown(K, db, Deposited(d, notes[i], at), notes, at, i)
      <4>1. Grown(K, db, d, notes, at, i - 1)
        BY <3>3
      <4>2. QED BY <3>1, <3>5, <3>6, <4>1, NoteGrows
    <3>7. \A d \in s[i] : Grown(K, db, d, notes, at, i)
      BY <3>4, <3>6
    <3>8. \A d, f \in s[i] : d = f
      BY <3>3, <3>4
    <3>9. QED BY <2>3, <3>7, <3>8
  <2>7. QED BY <2>5, <2>6
<1>7. Good(n)
  <2>1. n \in 0 .. n
    BY <1>1
  <2>2. n \notin S
    <3> HIDE DEF S
    <3> QED BY <1>6
  <2>3. QED BY <2>1, <2>2
<1>8. e \in s[n]
  BY <1>3
<1>9. s[n] = {e}
  BY <1>7, <1>8
<1>10. QED BY <1>3, <1>5, <1>7, <1>8, <1>9 DEF n

-----------------------------------------------------------------------------
(* The index, and what it shows of an entry at an earlier tick.            *)

\* One current version per key, the latest; sources are deposits, and a summary's
\* are originals; only a summary condenses, and only its sources.
IndexInv(K, db, now) ==
    /\ db \in Seq(EntryRow(K))
    /\ \A i \in Ids(db) :
          /\ db[i].tick <= now
          /\ db[i].current <=> \A v \in Ids(db) : db[v].key = db[i].key => v <= i
          /\ \A s \in db[i].sources : s \in Ids(db) /\ (db[i].type = "summary" => db[s].type # "summary")
          /\ db[i].covers \subseteq db[i].sources
          /\ db[i].covers # {} => db[i].type = "summary"

LEMMA GrownIds ==
    ASSUME NEW K, NEW db \in Seq(EntryRow(K)), NEW e, NEW notes \in Seq(NoteRow(K)), NEW at,
           Grown(K, db, e, notes, at, Len(notes))
    PROVE  /\ Ids(db) \subseteq Ids(e)
           /\ \A v \in Ids(e) : v \in Ids(db) \/ \E j \in 1 .. Len(notes) : v = Len(db) + j
           /\ \A j \in 1 .. Len(notes) : Len(db) + j \in Ids(e)
           /\ \A k \in Ids(db) : \A j \in 1 .. Len(notes) : k <= Len(db) + j /\ ~(Len(db) + j <= k)
<1>1. Len(db) \in Nat /\ Len(notes) \in Nat /\ Len(e) = Len(db) + Len(notes)
  BY DEF Grown
<1>2. ASSUME NEW v \in Ids(e) PROVE v \in Ids(db) \/ \E j \in 1 .. Len(notes) : v = Len(db) + j
  <2>1. v \notin Ids(db) => v - Len(db) \in 1 .. Len(notes) /\ v = Len(db) + (v - Len(db))
    BY <1>1 DEF Ids
  <2>2. QED BY <2>1
<1>3. QED BY <1>1, <1>2 DEF Ids

LEMMA IndexGrows ==
    ASSUME NEW K, NEW db, NEW now \in Nat, IndexInv(K, db, now),
           NEW at \in Nat, now < at, NEW notes \in Seq(NoteRow(K)),
           \A i, j \in 1 .. Len(notes) : notes[i].key = notes[j].key => i = j,
           NEW e, Grown(K, db, e, notes, at, Len(notes))
    PROVE  IndexInv(K, e, at)
<1>1. db \in Seq(EntryRow(K)) /\ e \in Seq(EntryRow(K)) /\ Len(db) \in Nat /\ Len(notes) \in Nat
  BY DEF IndexInv, Grown
<1>2. /\ Ids(db) \subseteq Ids(e)
      /\ \A v \in Ids(e) : v \in Ids(db) \/ \E j \in 1 .. Len(notes) : v = Len(db) + j
      /\ \A j \in 1 .. Len(notes) : Len(db) + j \in Ids(e)
      /\ \A k \in Ids(db) : \A j \in 1 .. Len(notes) : k <= Len(db) + j /\ ~(Len(db) + j <= k)
  BY <1>1, GrownIds
<1>3. \A k \in Ids(db) :
         /\ SameTerms(e[k], db[k]) /\ e[k].tick = db[k].tick
         /\ e[k].current <=> db[k].current /\ \A j \in 1 .. Len(notes) : notes[j].key # db[k].key
  BY DEF Grown
<1>4. \A j \in 1 .. Len(notes) :
         /\ SameTerms(e[Len(db) + j], notes[j])
         /\ e[Len(db) + j].tick = at /\ e[Len(db) + j].current
         /\ Accepted(db, notes[j])
  BY DEF Grown
<1>5. ASSUME NEW i \in Ids(db)
      PROVE  /\ e[i].tick <= at
             /\ e[i].current <=> \A v \in Ids(e) : e[v].key = e[i].key => v <= i
             /\ \A s \in e[i].sources : s \in Ids(e) /\ (e[i].type = "summary" => e[s].type # "summary")
             /\ e[i].covers \subseteq e[i].sources
             /\ e[i].covers # {} => e[i].type = "summary"
  <2>1. /\ db[i].tick <= now
        /\ db[i].current <=> \A v \in Ids(db) : db[v].key = db[i].key => v <= i
        /\ \A s \in db[i].sources : s \in Ids(db) /\ (db[i].type = "summary" => db[s].type # "summary")
        /\ db[i].covers \subseteq db[i].sources
        /\ db[i].covers # {} => db[i].type = "summary"
    BY DEF IndexInv
  <2>2. db[i].tick \in Nat
    <3>1. db[i] \in EntryRow(K)
      BY <1>1 DEF Ids
    <3>2. QED BY <3>1 DEF EntryRow
  <2>3. e[i].tick <= at
    BY <1>3, <2>1, <2>2
  <2>4. e[i].current <=> \A v \in Ids(e) : e[v].key = e[i].key => v <= i
    <3>1. (\A v \in Ids(e) : e[v].key = e[i].key => v <= i)
            <=> /\ \A v \in Ids(db) : db[v].key = db[i].key => v <= i
                /\ \A j \in 1 .. Len(notes) : notes[j].key # db[i].key
      BY <1>2, <1>3, <1>4 DEF SameTerms
    <3>2. QED BY <1>3, <2>1, <3>1
  <2>5. QED BY <1>2, <1>3, <2>1, <2>3, <2>4 DEF SameTerms
<1>6. ASSUME NEW j \in 1 .. Len(notes), NEW i, i = Len(db) + j
      PROVE  /\ e[i].tick <= at
             /\ e[i].current <=> \A v \in Ids(e) : e[v].key = e[i].key => v <= i
             /\ \A s \in e[i].sources : s \in Ids(e) /\ (e[i].type = "summary" => e[s].type # "summary")
             /\ e[i].covers \subseteq e[i].sources
             /\ e[i].covers # {} => e[i].type = "summary"
  <2>1. SameTerms(e[i], notes[j]) /\ e[i].tick = at /\ e[i].current /\ Accepted(db, notes[j])
    BY <1>4, <1>6
  <2>2. ASSUME NEW v \in Ids(e), e[v].key = e[i].key PROVE v <= i
    <3>1. CASE v \in Ids(db)
      BY <1>2, <1>6, <3>1
    <3>2. CASE v \notin Ids(db)
      <4>1. PICK k \in 1 .. Len(notes) : v = Len(db) + k
        BY <1>2, <3>2
      <4>2. notes[k].key = notes[j].key
        BY <1>4, <2>1, <2>2, <4>1 DEF SameTerms
      <4>3. QED BY <1>1, <1>6, <4>1, <4>2
    <3>3. QED BY <3>1, <3>2
  <2>3. QED BY <1>2, <1>3, <2>1, <2>2 DEF SameTerms, Accepted, WellFormed
<1>7. QED BY <1>1, <1>2, <1>5, <1>6 DEF IndexInv

\* j was the latest version of its key at tick t.
Latest(db, j, t) ==
    /\ j \in Ids(db) /\ db[j].tick <= t
    /\ \A v \in Ids(db) : db[v].key = db[j].key /\ db[v].tick <= t => v <= j

LEMMA WireLabels ==
    ASSUME NEW db, NEW i, NEW t
    PROVE  wire_at(db, i, t) =
               [id |-> i, current |-> Latest(db, i, t),
                stale |-> db[i].type = "summary" /\ \E s \in db[i].sources : ~Latest(db, s, t)]
BY DEF wire_at, Latest

\* At the head, or later without another deposit, the latest is the current one.
LEMMA LatestIsCurrent ==
    ASSUME NEW K, NEW db, NEW now \in Nat, IndexInv(K, db, now), NEW i \in Ids(db)
    PROVE  Latest(db, i, now) <=> db[i].current
BY DEF IndexInv, Latest

\* Later deposits change no label of an earlier view.
LEMMA LatestIsStable ==
    ASSUME NEW K, NEW db \in Seq(EntryRow(K)), NEW e, NEW notes \in Seq(NoteRow(K)),
           NEW at \in Nat, NEW t \in Nat, t < at, Grown(K, db, e, notes, at, Len(notes)),
           NEW i \in Ids(db)
    PROVE  Latest(e, i, t) <=> Latest(db, i, t)
<1>1. /\ Ids(db) \subseteq Ids(e)
      /\ \A v \in Ids(e) : v \in Ids(db) \/ \E j \in 1 .. Len(notes) : v = Len(db) + j
  BY GrownIds
<1>2. \A k \in Ids(db) : SameTerms(e[k], db[k]) /\ e[k].tick = db[k].tick
  BY DEF Grown
<1>3. \A j \in 1 .. Len(notes) : ~(e[Len(db) + j].tick <= t)
  BY DEF Grown
<1>4. QED BY <1>1, <1>2, <1>3 DEF Latest, SameTerms

LEMMA WireIsStable ==
    ASSUME NEW K, NEW db, NEW now \in Nat, IndexInv(K, db, now), NEW e, NEW notes \in Seq(NoteRow(K)),
           NEW at \in Nat, NEW t \in Nat, t < at, Grown(K, db, e, notes, at, Len(notes)),
           NEW i \in Ids(db)
    PROVE  wire_at(e, i, t) = wire_at(db, i, t)
<1>1. db \in Seq(EntryRow(K)) /\ \A s \in db[i].sources : s \in Ids(db)
  BY DEF IndexInv
<1>2. \A j \in Ids(db) : Latest(e, j, t) <=> Latest(db, j, t)
  BY <1>1, LatestIsStable
<1>3. e[i].type = db[i].type /\ e[i].sources = db[i].sources
  BY DEF Grown, SameTerms
<1>4. Latest(e, i, t) = Latest(db, i, t)
  BY <1>2 DEF Latest
<1>5. (db[i].type = "summary" /\ \E s \in db[i].sources : ~Latest(e, s, t))
        = (db[i].type = "summary" /\ \E s \in db[i].sources : ~Latest(db, s, t))
  BY <1>1, <1>2
<1>6. wire_at(e, i, t) = [id |-> i, current |-> Latest(e, i, t),
                          stale |-> db[i].type = "summary" /\ \E s \in db[i].sources : ~Latest(e, s, t)]
  BY <1>3, WireLabels
<1>7. wire_at(db, i, t) = [id |-> i, current |-> Latest(db, i, t),
                           stale |-> db[i].type = "summary" /\ \E s \in db[i].sources : ~Latest(db, s, t)]
  BY WireLabels
<1>8. QED BY <1>4, <1>5, <1>6, <1>7, Zenon


-----------------------------------------------------------------------------
(* Replay, of the commits c and attempts a of a deployment w.              *)

FitsIn(w, db, ids, policy, beside) ==
    /\ beside.items + Cardinality(ids) <= policy.items
    /\ beside.bytes + Cardinality({n \in Ids(db) : n \in w.widths}) + Bytes(db, ids) <= policy.bytes

CapacityIn(w, db, a) ==
    Protects(a.policy.strategy) =>
        FitsIn(w, db, Required(db, a.policy, {}), a.policy, [items |-> 0, bytes |-> 0])

TransitionIn(w, db, proposal, a, at) ==
    {after \in memory_apply(db, proposal.notes, at) :
        memory_transition(db, proposal, a) /\ CapacityIn(w, after, a)}

\* The indexes after commit n, from those before it.
CommitLayer(s, w, c, a, n) ==
    IF n = 0 THEN {<<>>}
    ELSE UNION {TransitionIn(w, db, c[n], a[c[n].attempt], n) : db \in s[n - 1]}

IsReplay(s, w, c, a, n) == s = [i \in 0 .. n |-> CommitLayer(s, w, c, a, i)]

ReplayOf(w, c, a, n) == (CHOOSE s : IsReplay(s, w, c, a, n))[n]

LEMMA ReplayNow == Replay = ReplayOf(workload, commits, attempts, Len(commits))
BY DEF Replay, ReplayOf, IsReplay, CommitLayer, Transition, TransitionIn, memory_capacity, CapacityIn,
       Fits, FitsIn, Envelope, tick

LEMMA ReplayNext == Replay' = ReplayOf(workload', commits', attempts', Len(commits'))
BY DEF Replay, ReplayOf, IsReplay, CommitLayer, Transition, TransitionIn, memory_capacity, CapacityIn,
       Fits, FitsIn, Envelope, tick

LEMMA ReplayExists ==
    ASSUME NEW w, NEW c, NEW a
    PROVE  \A n \in Nat : \E s : IsReplay(s, w, c, a, n)
<1> DEFINE S == {n \in Nat : ~\E s : IsReplay(s, w, c, a, n)}
<1>1. ASSUME S # {} PROVE FALSE
  <2>1. PICK n \in S : \A k \in S : n <= k
    <3>1. S \in SUBSET Nat
      OBVIOUS
    <3> HIDE DEF S
    <3>2. QED BY <1>1, <3>1, LeastElement
  <2>2. n \in Nat /\ ~\E s : IsReplay(s, w, c, a, n)
    OBVIOUS
  <2>3. CASE n = 0
    <3> DEFINE s == [i \in 0 .. 0 |-> {<<>>}]
    <3>1. s = [i \in 0 .. 0 |-> CommitLayer(s, w, c, a, i)]
      BY DEF CommitLayer
    <3>2. QED BY <2>2, <2>3, <3>1 DEF IsReplay
  <2>4. CASE n # 0
    <3>1. n - 1 \in Nat /\ ~(n <= n - 1)
      BY <2>2, <2>4
    <3>2. n - 1 \notin S
      BY <2>1, <3>1
    <3>3. PICK s : IsReplay(s, w, c, a, n - 1)
      BY <3>1, <3>2
    <3> DEFINE t == [i \in 0 .. n |-> IF i = n THEN CommitLayer(s, w, c, a, n) ELSE s[i]]
    <3>4. ASSUME NEW i \in 0 .. n PROVE t[i] = CommitLayer(t, w, c, a, i)
      <4>1. i # 0 => i - 1 \in 0 .. n /\ i - 1 # n
        BY <2>2
      <4>2. i # 0 => t[i - 1] = s[i - 1]
        BY <4>1
      <4>3. CommitLayer(t, w, c, a, i) = CommitLayer(s, w, c, a, i)
        BY <4>2 DEF CommitLayer
      <4>4. CASE i = n
        BY <4>3, <4>4
      <4>5. CASE i # n
        <5>1. i \in 0 .. n - 1
          BY <2>2, <4>5
        <5>2. s[i] = CommitLayer(s, w, c, a, i)
          BY <3>3, <5>1 DEF IsReplay
        <5>3. QED BY <4>3, <4>5, <5>2
      <4>6. QED BY <4>4, <4>5
    <3>5. t = [i \in 0 .. n |-> t[i]]
      OBVIOUS
    <3> HIDE DEF t
    <3>6. t = [i \in 0 .. n |-> CommitLayer(t, w, c, a, i)]
      BY <3>4, <3>5
    <3>7. QED BY <2>2, <3>6 DEF IsReplay
  <2>5. QED BY <2>3, <2>4
<1>2. QED BY <1>1

LEMMA ReplayIsChosen ==
    ASSUME NEW w, NEW c, NEW a, NEW n \in Nat
    PROVE  \E s : IsReplay(s, w, c, a, n) /\ ReplayOf(w, c, a, n) = s[n]
<1>1. \E s : IsReplay(s, w, c, a, n)
  BY ReplayExists
<1>2. IsReplay(CHOOSE s : IsReplay(s, w, c, a, n), w, c, a, n)
  BY <1>1
<1>3. QED BY <1>2 DEF ReplayOf

\* Replay depends on the commits so far and on the attempts they name.
LEMMA ReplayIsUnique ==
    ASSUME NEW w, NEW c, NEW a, NEW d, NEW b, NEW m \in Nat, NEW n \in Nat, m <= n,
           \A i \in 1 .. m : c[i] = d[i] /\ a[c[i].attempt] = b[d[i].attempt],
           NEW s, IsReplay(s, w, c, a, m), NEW t, IsReplay(t, w, d, b, n)
    PROVE  s[m] = t[m]
<1> DEFINE S == {i \in 0 .. m : s[i] # t[i]}
<1>1. ASSUME S # {} PROVE FALSE
  <2>1. S \in SUBSET Nat
    OBVIOUS
  <2>2. PICK j \in S : \A k \in S : j <= k
    <3> HIDE DEF S
    <3> QED BY <1>1, <2>1, LeastElement
  <2>3. j \in 0 .. m /\ j \in 0 .. n /\ s[j] # t[j]
    OBVIOUS
  <2>4. s[j] = CommitLayer(s, w, c, a, j) /\ t[j] = CommitLayer(t, w, d, b, j)
    BY <2>3 DEF IsReplay
  <2>5. CASE j = 0
    BY <2>3, <2>4, <2>5 DEF CommitLayer
  <2>6. CASE j # 0
    <3>1. j - 1 \in 0 .. m /\ ~(j <= j - 1) /\ j \in 1 .. m
      BY <2>3, <2>6
    <3>2. s[j - 1] = t[j - 1]
      BY <2>2, <3>1
    <3>3. CommitLayer(s, w, c, a, j) = CommitLayer(t, w, d, b, j)
      <4>1. c[j] = d[j] /\ a[c[j].attempt] = b[d[j].attempt]
        BY <3>1
      <4>2. QED BY <3>2, <4>1 DEF CommitLayer
    <3>4. QED BY <2>3, <2>4, <3>3
  <2>7. QED BY <2>5, <2>6
<1>2. m \in 0 .. m
  OBVIOUS
<1>3. QED BY <1>1, <1>2

LEMMA ReplayIsStable ==
    ASSUME NEW w, NEW c, NEW a, NEW d, NEW b, NEW n \in Nat,
           \A i \in 1 .. n : c[i] = d[i] /\ a[c[i].attempt] = b[d[i].attempt]
    PROVE  ReplayOf(w, c, a, n) = ReplayOf(w, d, b, n)
<1>1. PICK s : IsReplay(s, w, c, a, n) /\ ReplayOf(w, c, a, n) = s[n]
  BY ReplayIsChosen
<1>2. PICK t : IsReplay(t, w, d, b, n) /\ ReplayOf(w, d, b, n) = t[n]
  BY ReplayIsChosen
<1>3. s[n] = t[n]
  BY <1>1, <1>2, ReplayIsUnique
<1>4. QED BY <1>1, <1>2, <1>3

\* The equations of replay.
LEMMA ReplayStarts == ASSUME NEW w, NEW c, NEW a PROVE ReplayOf(w, c, a, 0) = {<<>>}
<1>1. PICK s : IsReplay(s, w, c, a, 0) /\ ReplayOf(w, c, a, 0) = s[0]
  BY ReplayIsChosen
<1>2. QED BY <1>1 DEF IsReplay, CommitLayer

LEMMA ReplayContinues ==
    ASSUME NEW w, NEW c, NEW a, NEW n \in Nat
    PROVE  ReplayOf(w, c, a, n + 1) =
               UNION {TransitionIn(w, db, c[n + 1], a[c[n + 1].attempt], n + 1) :
                          db \in ReplayOf(w, c, a, n)}
<1>1. PICK s : IsReplay(s, w, c, a, n) /\ ReplayOf(w, c, a, n) = s[n]
  BY ReplayIsChosen
<1>2. n + 1 \in Nat /\ n <= n + 1 /\ (n + 1) - 1 = n /\ n + 1 # 0 /\ n + 1 \in 0 .. n + 1
  OBVIOUS
<1>3. PICK t : IsReplay(t, w, c, a, n + 1) /\ ReplayOf(w, c, a, n + 1) = t[n + 1]
  BY <1>2, ReplayIsChosen
<1>4. s[n] = t[n]
  <2>1. PICK d : d = c
    OBVIOUS
  <2>2. PICK b : b = a
    OBVIOUS
  <2>3. IsReplay(t, w, d, b, n + 1) /\ \A i \in 1 .. n : c[i] = d[i] /\ a[c[i].attempt] = b[d[i].attempt]
    BY <1>3, <2>1, <2>2
  <2>4. QED BY <1>1, <1>2, <2>3, ReplayIsUnique
<1>5. t[n + 1] = CommitLayer(t, w, c, a, n + 1)
  BY <1>2, <1>3 DEF IsReplay
<1>6. QED BY <1>1, <1>2, <1>3, <1>4, <1>5 DEF CommitLayer


-----------------------------------------------------------------------------
(* The inductive invariant.                                                *)

\* What a recorded view keeps saying of the index: each item is labelled as the
\* history labels it, open tasks are shown, and maintenance shows current ones.
ViewInv(db, a, now) ==
    /\ a.tick \in 0 .. now
    /\ \A item \in a.view :
          /\ item.id \in Ids(db)
          /\ db[item.id].tick <= a.tick
          /\ item = wire_at(db, item.id, a.tick)
    /\ Protects(a.policy.strategy) =>
          \A i \in Ids(db) :
              /\ db[i].type = "task" /\ db[i].status = "open"
              /\ db[i].tick <= a.tick
              /\ wire_at(db, i, a.tick).current
              => \E item \in a.view : item.id = i
    /\ a.policy.strategy = "task_maintenance" => \A item \in a.view : item.current

TasksFit(db, policy) ==
    /\ Cardinality(OpenTasks(db)) <= policy.items
    /\ Bytes(db, OpenTasks(db)) <= policy.bytes

\* Commit n was checked against its policy, and only maintenance followed.
CheckedLast(c, a, n) ==
    /\ Protects(a[c[n].attempt].policy.strategy)
    /\ \A m \in n + 1 .. Len(c) : a[c[m].attempt].policy.strategy = "task_maintenance"

TasksKept(db, c, a) ==
    \A n \in 1 .. Len(c) : CheckedLast(c, a, n) => TasksFit(db, a[c[n].attempt].policy)

\* Replay yields one index, and all of the rest is about it.
HistoryInv(db, w, c, a) ==
    /\ ReplayOf(w, c, a, Len(c)) = {db}
    /\ IndexInv(w.keys, db, Len(c))
    /\ \A i \in 1 .. Len(a) : ViewInv(db, a[i], Len(c))
    /\ TasksKept(db, c, a)

RowsInv(w, c, a) ==
    /\ w \in Workloads
    /\ \E R : c \in Seq(R)
    /\ \E R : a \in Seq(R)
    /\ \A n \in 1 .. Len(c) : c[n].attempt \in 1 .. Len(a)
    /\ \A i \in 1 .. Len(a) : a[i].policy \in w.policies

\* The stored index is the replayed one, or lost.
MemoryInv ==
    /\ RowsInv(workload, commits, attempts)
    /\ \E db : HistoryInv(db, workload, commits, attempts) /\ entries \in {db, <<>>}

LEMMA IndexRow ==
    ASSUME NEW K, NEW db \in Seq(EntryRow(K)), NEW i \in Ids(db)
    PROVE  /\ i \in Nat
           /\ db[i].key \in K /\ db[i].type \in NoteTypes /\ db[i].status \in Statuses
           /\ db[i].size \in Nat /\ db[i].sources \in SUBSET Nat /\ db[i].covers \in SUBSET Nat
           /\ db[i].tick \in Nat /\ db[i].current \in BOOLEAN
<1>1. i \in Nat /\ db[i] \in EntryRow(K)
  BY DEF Ids
<1>2. QED BY <1>1 DEF EntryRow

LEMMA IdsAreFinite ==
    ASSUME NEW K, NEW db \in Seq(EntryRow(K)), NEW S \in SUBSET Ids(db)
    PROVE  IsFiniteSet(S) /\ Cardinality(S) \in Nat
<1>1. Len(db) \in Nat /\ IsFiniteSet(1 .. Len(db))
  BY FS_Interval
<1>2. IsFiniteSet(S)
  BY <1>1, FS_Subset DEF Ids
<1>3. QED BY <1>2, FS_CardinalityType

LEMMA WireFields ==
    ASSUME NEW db, NEW i, NEW t
    PROVE  wire_at(db, i, t).id = i /\ wire_at(db, i, t).current = Latest(db, i, t)
BY WireLabels

\* An open task is a current one.
LEMMA OpenTasksAre ==
    ASSUME NEW db
    PROVE  OpenTasks(db) = {i \in Ids(db) : db[i].current /\ db[i].type = "task" /\ db[i].status = "open"}
BY DEF OpenTasks, Current, Live

\* What a policy must show, and may.
LEMMA RequiredIs ==
    ASSUME NEW db, NEW policy, NEW named
    PROVE  /\ Protects(policy.strategy) => Required(db, policy, named) = OpenTasks(db)
           /\ policy.strategy = "task_maintenance" => Required(db, policy, named) = named
           /\ \A history \in BOOLEAN : Optional(db, "task_maintenance", history) = {}
<1>1. ~Protects("task_maintenance")
  BY DEF Protects
<1>2. Protects(policy.strategy) => Required(db, policy, named) = OpenTasks(db)
  BY DEF Required, Protects
<1>3. policy.strategy = "task_maintenance" => Required(db, policy, named) = named
  BY <1>1 DEF Required
<1>4. \A history \in BOOLEAN : Optional(db, "task_maintenance", history) = {}
  BY DEF Optional
<1>5. QED BY <1>2, <1>3, <1>4

\* A recorded view stays true through a commit.
LEMMA ViewIsStable ==
    ASSUME NEW K, NEW db, NEW now \in Nat, IndexInv(K, db, now), NEW e, NEW notes \in Seq(NoteRow(K)),
           NEW at \in Nat, now < at, Grown(K, db, e, notes, at, Len(notes)),
           NEW a, ViewInv(db, a, now)
    PROVE  ViewInv(e, a, at)
<1>1. db \in Seq(EntryRow(K))
  BY DEF IndexInv
<1>2. /\ Ids(db) \subseteq Ids(e)
      /\ \A v \in Ids(e) : v \in Ids(db) \/ \E j \in 1 .. Len(notes) : v = Len(db) + j
  BY <1>1, GrownIds
<1>3. \A k \in Ids(db) : SameTerms(e[k], db[k]) /\ e[k].tick = db[k].tick
  BY DEF Grown
<1>4. a.tick \in Nat /\ a.tick < at /\ a.tick \in 0 .. at
  BY DEF ViewInv
<1>5. PICK t : t = a.tick
  OBVIOUS
<1>6. \A i \in Ids(db) : wire_at(e, i, a.tick) = wire_at(db, i, a.tick)
  BY <1>4, <1>5, WireIsStable
<1>7. \A i \in Ids(e) : e[i].tick <= a.tick => i \in Ids(db)
  <2>1. \A j \in 1 .. Len(notes) : e[Len(db) + j].tick = at
    BY DEF Grown
  <2>2. QED BY <1>2, <1>4, <2>1
<1>8. QED BY <1>2, <1>3, <1>4, <1>6, <1>7 DEF ViewInv, SameTerms

\* A view that is projected at the head is true there.
LEMMA NewViewInv ==
    ASSUME NEW K, NEW db, NEW now \in Nat, IndexInv(K, db, now),
           NEW policy, NEW named \in SUBSET OpenTasks(db), NEW history \in BOOLEAN,
           NEW chosen \in SUBSET Optional(db, policy.strategy, history), NEW a,
           a = [tick |-> now, policy |-> policy,
                view |-> {wire_at(db, i, now) : i \in Required(db, policy, named) \cup chosen}]
    PROVE  ViewInv(db, a, now)
<1> DEFINE shown == Required(db, policy, named) \cup chosen
<1>1. a.tick = now /\ a.policy = policy /\ a.view = {wire_at(db, i, now) : i \in shown}
  OBVIOUS
<1>2. shown \in SUBSET Ids(db)
  <2>1. OpenTasks(db) \subseteq Ids(db) /\ Current(db) \subseteq Ids(db)
    BY DEF OpenTasks, Current
  <2>2. Required(db, policy, named) \subseteq Ids(db)
    BY <2>1 DEF Required
  <2>3. Optional(db, policy.strategy, history) \subseteq Ids(db)
    BY <2>1 DEF Optional
  <2>4. QED BY <2>2, <2>3
<1>3. Protects(policy.strategy) => OpenTasks(db) \subseteq shown
  BY RequiredIs DEF Protects
<1>4. policy.strategy = "task_maintenance" => shown \subseteq OpenTasks(db)
  BY RequiredIs
<1> HIDE DEF shown
<1>5. \A i \in Ids(db) : /\ wire_at(db, i, now).id = i
                         /\ wire_at(db, i, now).current <=> db[i].current
  BY LatestIsCurrent, WireFields
<1>6. \A item \in a.view : item.id \in shown /\ item = wire_at(db, item.id, now)
  BY <1>1, <1>2, <1>5
<1>7. \A i \in Ids(db) : db[i].tick <= now
  BY DEF IndexInv
<1>8. ASSUME Protects(policy.strategy), NEW i \in Ids(db), db[i].type = "task", db[i].status = "open",
             wire_at(db, i, now).current
      PROVE  \E item \in a.view : item.id = i
  <2>1. i \in shown
    BY <1>3, <1>5, <1>8, OpenTasksAre
  <2>2. wire_at(db, i, now) \in a.view
    BY <1>1, <2>1
  <2>3. QED BY <1>5, <2>2
<1>9. ASSUME policy.strategy = "task_maintenance", NEW item \in a.view PROVE item.current
  <2>1. item.id \in OpenTasks(db) /\ item = wire_at(db, item.id, now)
    BY <1>4, <1>6, <1>9
  <2>2. item.id \in Ids(db) /\ db[item.id].current
    BY <2>1, OpenTasksAre
  <2>3. QED BY <1>5, <2>1, <2>2
<1>10. QED BY <1>1, <1>2, <1>6, <1>7, <1>8, <1>9 DEF ViewInv


-----------------------------------------------------------------------------
(* A commit.                                                               *)

\* What a commit did to the index db, and why it may have ended an open task.
Committed(K, db, e, notes, at) ==
    /\ notes \in Seq(NoteRow(K))
    /\ \A i, j \in 1 .. Len(notes) : notes[i].key = notes[j].key => i = j
    /\ Grown(K, db, e, notes, at, Len(notes))

LEMMA TransitionGrows ==
    ASSUME NEW w, NEW db, NEW now \in Nat, IndexInv(w.keys, db, now), NEW notes \in Seq(NoteRow(w.keys)),
           NEW proposal, proposal.notes = notes, NEW a, NEW e \in TransitionIn(w, db, proposal, a, now + 1)
    PROVE  /\ TransitionIn(w, db, proposal, a, now + 1) = {e}
           /\ Committed(w.keys, db, e, notes, now + 1)
           /\ memory_transition(db, proposal, a)
           /\ CapacityIn(w, e, a)
<1>1. e \in memory_apply(db, notes, now + 1) /\ memory_transition(db, proposal, a) /\ CapacityIn(w, e, a)
  BY DEF TransitionIn
<1>2. db \in Seq(EntryRow(w.keys)) /\ now + 1 \in Nat
  BY DEF IndexInv
<1>3. \A k \in Ids(db) : db[k].tick < now + 1
  <2>1. ASSUME NEW k \in Ids(db) PROVE db[k].tick < now + 1
    <3>1. db[k].tick <= now
      BY DEF IndexInv
    <3>2. db[k].tick \in Nat
      BY <1>2, IndexRow
    <3>3. QED BY <3>1, <3>2
  <2>2. QED BY <2>1
<1>4. /\ \A i, j \in 1 .. Len(notes) : notes[i].key = notes[j].key => i = j
      /\ Grown(w.keys, db, e, notes, now + 1, Len(notes))
      /\ memory_apply(db, notes, now + 1) = {e}
  <2>1. PICK K : K = w.keys
    OBVIOUS
  <2>2. PICK at \in Nat : at = now + 1
    BY <1>2
  <2>3. db \in Seq(EntryRow(K)) /\ notes \in Seq(NoteRow(K)) /\ \A k \in Ids(db) : db[k].tick < at
    BY <1>2, <1>3, <2>1, <2>2
  <2>4. e \in memory_apply(db, notes, at)
    BY <1>1, <2>2
  <2>5. /\ \A i, j \in 1 .. Len(notes) : notes[i].key = notes[j].key => i = j
        /\ Grown(K, db, e, notes, at, Len(notes))
        /\ memory_apply(db, notes, at) = {e}
    BY <2>3, <2>4, ApplyGrows
  <2>6. QED BY <2>1, <2>2, <2>5
<1>5. TransitionIn(w, db, proposal, a, now + 1) = {e}
  BY <1>1, <1>4 DEF TransitionIn
<1>6. QED BY <1>1, <1>4, <1>5 DEF Committed

\* Task i of an index ended by a task note on its key.
EndedByTask(db, e, notes, at, i) ==
    \E j \in 1 .. Len(notes) :
        /\ notes[j].key = db[i].key /\ notes[j].type = "task"
        /\ Len(db) + j \in Ids(e)
        /\ e[Len(db) + j].key = db[i].key /\ e[Len(db) + j].type = "task"
        /\ e[Len(db) + j].tick = at

\* An open task that is open no more was overwritten by a task note on its key;
\* an open task that was not open before is such a note, and no settlement.
LEMMA EndedTasks ==
    ASSUME NEW K, NEW db, NEW now \in Nat, IndexInv(K, db, now), NEW e, NEW notes,
           Committed(K, db, e, notes, now + 1)
    PROVE  /\ \A i \in OpenTasks(db) \ OpenTasks(e) : EndedByTask(db, e, notes, now + 1, i)
           /\ \A i \in OpenTasks(e) \ OpenTasks(db) : \E j \in 1 .. Len(notes) :
                 notes[j].type = "task" /\ notes[j].status = "open"
<1>1. notes \in Seq(NoteRow(K)) /\ db \in Seq(EntryRow(K)) /\ Grown(K, db, e, notes, now + 1, Len(notes))
  BY DEF Committed, IndexInv
<1>2. /\ Ids(db) \subseteq Ids(e)
      /\ \A v \in Ids(e) : v \in Ids(db) \/ \E j \in 1 .. Len(notes) : v = Len(db) + j
      /\ \A j \in 1 .. Len(notes) : Len(db) + j \in Ids(e)
  <2>1. PICK at : at = now + 1
    OBVIOUS
  <2>2. Grown(K, db, e, notes, at, Len(notes))
    BY <1>1, <2>1
  <2>3. QED BY <1>1, <2>2, GrownIds
<1>3. \A k \in Ids(db) :
         /\ SameTerms(e[k], db[k])
         /\ e[k].current <=> db[k].current /\ \A j \in 1 .. Len(notes) : notes[j].key # db[k].key
  BY <1>1 DEF Grown
<1>4. \A j \in 1 .. Len(notes) :
         SameTerms(e[Len(db) + j], notes[j]) /\ e[Len(db) + j].tick = now + 1 /\ Accepted(db, notes[j])
  BY <1>1 DEF Grown
<1>5. ASSUME NEW i \in OpenTasks(db) \ OpenTasks(e)
      PROVE  EndedByTask(db, e, notes, now + 1, i)
  <2>1. i \in Ids(db) /\ db[i].current /\ db[i].type = "task" /\ db[i].status = "open"
    BY OpenTasksAre
  <2>2. i \in Ids(e) /\ e[i].type = "task" /\ e[i].status = "open"
    BY <1>2, <1>3, <2>1 DEF SameTerms
  <2>3. ~e[i].current
    BY <2>2, OpenTasksAre
  <2>4. PICK j \in 1 .. Len(notes) : notes[j].key = db[i].key
    BY <1>3, <2>1, <2>3
  <2>5. notes[j].type = "task"
    BY <1>4, <2>1, <2>4 DEF Accepted, Resolves
  <2>6. QED BY <1>2, <1>4, <2>4, <2>5 DEF SameTerms, EndedByTask
<1>6. ASSUME NEW i \in OpenTasks(e) \ OpenTasks(db)
      PROVE  \E j \in 1 .. Len(notes) : notes[j].type = "task" /\ notes[j].status = "open"
  <2>1. i \in Ids(e) /\ e[i].current /\ e[i].type = "task" /\ e[i].status = "open"
    BY OpenTasksAre
  <2>2. i \notin Ids(db)
    BY <1>3, <2>1, OpenTasksAre DEF SameTerms
  <2>3. PICK j \in 1 .. Len(notes) : i = Len(db) + j
    BY <1>2, <2>1, <2>2
  <2>4. QED BY <1>4, <2>1, <2>3 DEF SameTerms
<1>7. QED BY <1>5, <1>6

\* Maintenance leaves no more open tasks, of the same sizes.
LEMMA MaintenanceRelieves ==
    ASSUME NEW w, NEW db, NEW now \in Nat, IndexInv(w.keys, db, now), NEW e, NEW notes,
           Committed(w.keys, db, e, notes, now + 1),
           NEW proposal, proposal.notes = notes,
           NEW a, a.policy.strategy = "task_maintenance", memory_transition(db, proposal, a),
           NEW policy, {policy.items, policy.bytes} \subseteq Nat, TasksFit(db, policy)
    PROVE  TasksFit(e, policy)
<1>1. db \in Seq(EntryRow(w.keys)) /\ Grown(w.keys, db, e, notes, now + 1, Len(notes))
  BY DEF Committed, IndexInv
<1>2. OpenTasks(e) \subseteq OpenTasks(db)
  <2>1. \A j \in 1 .. Len(notes) : notes[j].type = "task" => notes[j].status \in Settled
    BY DEF memory_transition, SettlesShown
  <2>2. \A j \in 1 .. Len(notes) : ~(notes[j].type = "task" /\ notes[j].status = "open")
    BY <2>1 DEF Settled
  <2>3. PICK K : K = w.keys
    OBVIOUS
  <2>4. IndexInv(K, db, now) /\ Committed(K, db, e, notes, now + 1)
    BY <2>3
  <2>5. QED BY <2>2, <2>4, EndedTasks
<1>3. OpenTasks(db) \subseteq Ids(db)
  BY OpenTasksAre
<1>4. PICK K : K = w.keys
  OBVIOUS
<1>5. db \in Seq(EntryRow(K))
  BY <1>1, <1>4
<1>6. /\ IsFiniteSet(OpenTasks(db)) /\ Cardinality(OpenTasks(db)) \in Nat
      /\ IsFiniteSet(OpenTasks(e)) /\ Cardinality(OpenTasks(e)) \in Nat
  BY <1>2, <1>3, <1>5, IdsAreFinite
<1>7. Cardinality(OpenTasks(e)) <= Cardinality(OpenTasks(db))
  BY <1>2, <1>6, FS_Subset
<1>8. \A i \in OpenTasks(db) : db[i].size \in Nat
  BY <1>3, <1>5, IndexRow
<1>9. Bytes(db, OpenTasks(e)) <= Bytes(db, OpenTasks(db)) /\ Bytes(db, OpenTasks(e)) \in Nat
      /\ Bytes(db, OpenTasks(db)) \in Nat
  <2>1. Bytes(db, OpenTasks(e)) <= Bytes(db, OpenTasks(db))
    BY <1>2, <1>6, <1>8, BytesGrow
  <2>2. \A S \in SUBSET OpenTasks(db) : Bytes(db, S) \in Nat
    BY <1>6, <1>8, BytesWithAny
  <2>3. QED BY <1>2, <2>1, <2>2
<1>10. Bytes(e, OpenTasks(e)) = Bytes(db, OpenTasks(e))
  <2>1. \A i \in OpenTasks(e) : e[i].size = db[i].size
    BY <1>1, <1>2, <1>3 DEF Grown, SameTerms
  <2>2. QED BY <1>6, <2>1, BytesAgree
<1>11. QED BY <1>6, <1>7, <1>9, <1>10 DEF TasksFit


\* d is c and one row more.
Extends(d, c, row) ==
    /\ \E R : d \in Seq(R)
    /\ Len(d) = Len(c) + 1 /\ d[Len(c) + 1] = row
    /\ \A k \in 1 .. Len(c) : d[k] = c[k]

LEMMA AppendExtends ==
    ASSUME NEW R, NEW c \in Seq(R), NEW row
    PROVE  Extends(Append(c, row), c, row)
<1>1. c \in Seq(R \cup {row}) /\ row \in R \cup {row} /\ Len(c) \in Nat
  OBVIOUS
<1>2. Append(c, row) \in Seq(R \cup {row})
  BY <1>1
<1>3. Len(Append(c, row)) = Len(c) + 1 /\ Append(c, row)[Len(c) + 1] = row
      /\ \A k \in 1 .. Len(c) : Append(c, row)[k] = c[k]
  OBVIOUS
<1>4. QED BY <1>2, <1>3 DEF Extends

\* What the capacity check of a commit says of the index it leaves.
LEMMA CheckedFits ==
    ASSUME NEW w, NEW K, NEW now, NEW e, IndexInv(K, e, now), NEW a, {a.policy.items, a.policy.bytes} \subseteq Nat,
           Protects(a.policy.strategy), CapacityIn(w, e, a)
    PROVE  TasksFit(e, a.policy)
<1>1. e \in Seq(EntryRow(K))
  BY DEF IndexInv
<1>2. OpenTasks(e) \in SUBSET Ids(e) /\ {n \in Ids(e) : n \in w.widths} \in SUBSET Ids(e)
  BY OpenTasksAre
<1>3. /\ IsFiniteSet(OpenTasks(e)) /\ Cardinality(OpenTasks(e)) \in Nat
      /\ Cardinality({n \in Ids(e) : n \in w.widths}) \in Nat
  BY <1>1, <1>2, IdsAreFinite
<1>4. \A i \in OpenTasks(e) : e[i].size \in Nat
  BY <1>1, <1>2, IndexRow
<1>5. Bytes(e, OpenTasks(e)) \in Nat
  BY <1>3, <1>4, BytesWithAny
<1>6. FitsIn(w, e, OpenTasks(e), a.policy, [items |-> 0, bytes |-> 0])
  BY RequiredIs DEF CapacityIn
<1>7. QED BY <1>3, <1>5, <1>6 DEF FitsIn, TasksFit

\* Replay repeats the commit that was accepted.
LEMMA CommitHistory ==
    ASSUME NEW w, NEW c, NEW a, RowsInv(w, c, a), NEW db, HistoryInv(db, w, c, a),
           NEW i \in 1 .. Len(a), NEW notes \in Seq(NoteRow(w.keys)),
           NEW row, row.attempt = i, row.notes = notes,
           NEW e \in TransitionIn(w, db, row, a[i], Len(c) + 1), NEW d, Extends(d, c, row)
    PROVE  RowsInv(w, d, a) /\ HistoryInv(e, w, d, a)
<1>1. PICK R : c \in Seq(R)
  BY DEF RowsInv
<1>2. PICK n \in Nat : n = Len(c)
  BY <1>1
<1>3. row.attempt = i /\ row.notes = notes
  OBVIOUS
<1>4. \E Q : d \in Seq(Q)
  BY DEF Extends
<1>5. /\ Len(d) = n + 1 /\ d[n + 1] = row
      /\ \A k \in 1 .. n : d[k] = c[k]
  BY <1>2 DEF Extends
<1>6. RowsInv(w, d, a)
  <2>1. \A k \in 1 .. n + 1 : k \in 1 .. n \/ k = n + 1
    OBVIOUS
  <2>2. \A k \in 1 .. Len(d) : d[k].attempt \in 1 .. Len(a)
    BY <1>2, <1>3, <1>5, <2>1 DEF RowsInv
  <2>3. QED BY <1>4, <2>2 DEF RowsInv
<1>7. /\ ReplayOf(w, c, a, n) = {db}
      /\ IndexInv(w.keys, db, n)
      /\ \A k \in 1 .. Len(a) : ViewInv(db, a[k], n)
      /\ TasksKept(db, c, a)
  BY <1>2 DEF HistoryInv
<1>8. /\ TransitionIn(w, db, row, a[i], n + 1) = {e}
      /\ Committed(w.keys, db, e, notes, n + 1)
      /\ memory_transition(db, row, a[i])
      /\ CapacityIn(w, e, a[i])
  <2>1. e \in TransitionIn(w, db, row, a[i], n + 1)
    BY <1>2
  <2>2. PICK b : b = a[i]
    OBVIOUS
  <2>3. e \in TransitionIn(w, db, row, b, n + 1)
    BY <2>1, <2>2
  <2>4. /\ TransitionIn(w, db, row, b, n + 1) = {e}
        /\ Committed(w.keys, db, e, notes, n + 1)
        /\ memory_transition(db, row, b)
        /\ CapacityIn(w, e, b)
    BY <1>3, <1>7, <2>3, TransitionGrows
  <2>5. QED BY <2>2, <2>4
<1>9. ReplayOf(w, d, a, n + 1) = {e}
  <2>1. ReplayOf(w, d, a, n) = {db}
    <3>1. PICK b : b = a
      OBVIOUS
    <3>2. \A k \in 1 .. n : c[k] = d[k] /\ a[c[k].attempt] = b[d[k].attempt]
      BY <1>5, <3>1
    <3>3. ReplayOf(w, c, a, n) = ReplayOf(w, d, b, n)
      BY <1>2, <3>2, ReplayIsStable
    <3>4. QED BY <1>7, <3>1, <3>3
  <2>2. ReplayOf(w, d, a, n + 1) =
          UNION {TransitionIn(w, q, d[n + 1], a[d[n + 1].attempt], n + 1) : q \in ReplayOf(w, d, a, n)}
    BY ReplayContinues, Zenon
  <2>3. d[n + 1] = row /\ row.attempt = i
    BY <1>3, <1>5
  <2>4. QED BY <1>8, <2>1, <2>2, <2>3
<1>10. PICK K : K = w.keys
  OBVIOUS
<1>11. PICK at : at = n + 1 /\ at \in Nat /\ n < at
  OBVIOUS
<1>12. /\ IndexInv(K, db, n) /\ notes \in Seq(NoteRow(K))
       /\ \A k, j \in 1 .. Len(notes) : notes[k].key = notes[j].key => k = j
       /\ Grown(K, db, e, notes, at, Len(notes))
  BY <1>7, <1>8, <1>10, <1>11 DEF Committed
<1>13. IndexInv(K, e, at)
  BY <1>11, <1>12, IndexGrows
<1>14. ASSUME NEW k \in 1 .. Len(a) PROVE ViewInv(e, a[k], at)
  <2>1. PICK b : b = a[k]
    OBVIOUS
  <2>2. ViewInv(db, b, n)
    BY <1>7, <2>1
  <2>3. ViewInv(e, b, at)
    BY <1>11, <1>12, <2>2, ViewIsStable
  <2>4. QED BY <2>1, <2>3
<1>15. TasksKept(e, d, a)
  <2>1. \A k \in 1 .. Len(a) : {a[k].policy.items, a[k].policy.bytes} \subseteq Nat
    BY MemoryAssumption DEF RowsInv
  <2>2. PICK b : b = a[i]
    OBVIOUS
  <2>3. /\ {b.policy.items, b.policy.bytes} \subseteq Nat
        /\ memory_transition(db, row, b) /\ CapacityIn(w, e, b)
    BY <1>8, <2>1, <2>2
  <2>4. CASE Protects(b.policy.strategy)
    <3>1. Protects(b.policy.strategy) /\ b.policy.strategy # "task_maintenance"
      BY <2>4 DEF Protects
    <3>2. TasksFit(e, b.policy)
      BY <1>13, <2>3, <2>4, CheckedFits
    <3>3. ASSUME NEW k \in 1 .. Len(d), CheckedLast(d, a, k) PROVE TasksFit(e, a[d[k].attempt].policy)
      <4>1. k = n + 1
        <5>1. CASE k \in 1 .. n
          <6>1. n + 1 \in k + 1 .. Len(d)
            BY <1>5, <5>1
          <6>2. a[d[n + 1].attempt].policy.strategy = "task_maintenance"
            BY <3>3, <6>1 DEF CheckedLast
          <6>3. QED BY <1>3, <1>5, <2>2, <3>1, <6>2
        <5>2. QED BY <1>5, <5>1
      <4>2. a[d[k].attempt] = b
        BY <1>3, <1>5, <2>2, <4>1
      <4>3. QED BY <3>2, <4>2
    <3>4. QED BY <3>3 DEF TasksKept
  <2>5. CASE ~Protects(b.policy.strategy)
    <3>1. ASSUME NEW k \in 1 .. Len(d), CheckedLast(d, a, k) PROVE TasksFit(e, a[d[k].attempt].policy)
      <4>1. a[d[n + 1].attempt] = b
        BY <1>3, <1>5, <2>2
      <4>2. k # n + 1
        BY <2>5, <3>1, <4>1 DEF CheckedLast
      <4>3. k \in 1 .. n /\ k \in 1 .. Len(c) /\ n + 1 \in k + 1 .. Len(d) /\ d[k] = c[k]
        BY <1>2, <1>5, <4>2
      <4>4. b.policy.strategy = "task_maintenance"
        BY <3>1, <4>1, <4>3 DEF CheckedLast
      <4>5. CheckedLast(c, a, k)
        <5>1. \A m \in k + 1 .. Len(c) : m \in k + 1 .. Len(d) /\ m \in 1 .. n
          BY <1>2, <1>5, <4>3
        <5>2. \A m \in k + 1 .. Len(c) : a[c[m].attempt].policy.strategy = "task_maintenance"
          BY <1>5, <3>1, <5>1 DEF CheckedLast
        <5>3. QED BY <3>1, <4>3, <5>2 DEF CheckedLast
      <4>6. PICK policy : policy = a[c[k].attempt].policy
        OBVIOUS
      <4>7. TasksFit(db, policy)
        BY <1>7, <4>3, <4>5, <4>6 DEF TasksKept
      <4>8. {policy.items, policy.bytes} \subseteq Nat
        BY <2>1, <4>3, <4>6 DEF RowsInv
      <4>9. TasksFit(e, policy)
        BY <1>3, <1>7, <1>8, <2>3, <4>4, <4>7, <4>8, MaintenanceRelieves
      <4>10. QED BY <4>3, <4>6, <4>9
    <3>2. QED BY <3>1 DEF TasksKept
  <2>6. QED BY <2>4, <2>5
<1>16. Len(d) = at /\ ReplayOf(w, d, a, at) = {e} /\ IndexInv(w.keys, e, at)
  BY <1>5, <1>9, <1>10, <1>11, <1>13
<1>17. HistoryInv(e, w, d, a)
  BY <1>14, <1>15, <1>16 DEF HistoryInv
<1>18. QED BY <1>6, <1>17

\* An admission adds a view and leaves replay as it is.
LEMMA AdmitHistory ==
    ASSUME NEW w, NEW c, NEW a, RowsInv(w, c, a), NEW db, HistoryInv(db, w, c, a),
           NEW new, ViewInv(db, new, Len(c)), new.policy \in w.policies, NEW b, Extends(b, a, new)
    PROVE  RowsInv(w, c, b) /\ HistoryInv(db, w, c, b)
<1>1. PICK R : a \in Seq(R)
  BY DEF RowsInv
<1>2. PICK n \in Nat : n = Len(a)
  BY <1>1
<1>3. /\ \E Q : b \in Seq(Q)
      /\ Len(b) = n + 1 /\ b[n + 1] = new
      /\ \A k \in 1 .. n : b[k] = a[k]
  BY <1>2 DEF Extends
<1>4. \A k \in 1 .. n + 1 : k \in 1 .. n \/ k = n + 1
  OBVIOUS
<1>5. \A k \in 1 .. Len(c) : c[k].attempt \in 1 .. n /\ c[k].attempt \in 1 .. n + 1
                             /\ a[c[k].attempt] = b[c[k].attempt]
  BY <1>2, <1>3 DEF RowsInv
<1>6. RowsInv(w, c, b)
  <2>1. \A k \in 1 .. Len(b) : b[k].policy \in w.policies
    BY <1>2, <1>3, <1>4 DEF RowsInv
  <2>2. QED BY <1>3, <1>5, <2>1 DEF RowsInv
<1>7. ReplayOf(w, c, b, Len(c)) = {db}
  <2>1. PICK d : d = c
    OBVIOUS
  <2>2. PICK m \in Nat : m = Len(c)
    BY DEF RowsInv
  <2>3. \A k \in 1 .. m : c[k] = d[k] /\ a[c[k].attempt] = b[d[k].attempt]
    BY <1>5, <2>1, <2>2
  <2>4. ReplayOf(w, c, a, m) = ReplayOf(w, d, b, m)
    BY <2>2, <2>3, ReplayIsStable
  <2>5. QED BY <2>1, <2>2, <2>4 DEF HistoryInv
<1>8. \A k \in 1 .. Len(b) : ViewInv(db, b[k], Len(c))
  BY <1>2, <1>3, <1>4 DEF HistoryInv
<1>9. TasksKept(db, c, b)
  <2>1. ASSUME NEW k \in 1 .. Len(c), CheckedLast(c, b, k) PROVE TasksFit(db, b[c[k].attempt].policy)
    <3>1. Len(c) \in Nat
      BY DEF RowsInv
    <3>2. \A m \in k + 1 .. Len(c) : m \in 1 .. Len(c)
      BY <3>1
    <3>3. CheckedLast(c, a, k)
      BY <1>5, <2>1, <3>2 DEF CheckedLast
    <3>4. QED BY <1>5, <3>3 DEF HistoryInv, TasksKept
  <2>2. QED BY <2>1 DEF TasksKept
<1>10. QED BY <1>6, <1>7, <1>8, <1>9 DEF HistoryInv


LEMMA NothingFits ==
    ASSUME NEW policy, {policy.items, policy.bytes} \subseteq Nat
    PROVE  TasksFit(<<>>, policy)
<1>1. OpenTasks(<<>>) = {}
  <2>1. Ids(<<>>) = {}
    BY DEF Ids
  <2>2. QED BY <2>1, OpenTasksAre
<1>2. Cardinality({}) = 0 /\ Bytes(<<>>, {}) = 0
  BY FS_EmptySet, BytesOfNone
<1>3. Cardinality(OpenTasks(<<>>)) = 0 /\ Bytes(<<>>, OpenTasks(<<>>)) = 0
  BY <1>1, <1>2
<1>4. QED BY <1>3 DEF TasksFit

LEMMA InitMemoryInv == MemoryInit => MemoryInv
<1> SUFFICES ASSUME MemoryInit PROVE MemoryInv
  OBVIOUS
<1>1. entries = <<>> /\ commits = <<>> /\ attempts = <<>> /\ workload \in Workloads
  BY DEF MemoryInit
<1>2. PICK w \in Workloads : w = workload
  BY <1>1
<1>3. ReplayOf(w, <<>>, <<>>, 0) = {<<>>}
  BY ReplayStarts
<1>4. Len(<<>>) = 0 /\ <<>> \in Seq({}) /\ Ids(<<>>) = {}
  BY DEF Ids
<1>5. IndexInv(w.keys, <<>>, 0)
  <2>1. <<>> \in Seq(EntryRow(w.keys))
    OBVIOUS
  <2>2. QED BY <1>4, <2>1 DEF IndexInv
<1>6. TasksKept(<<>>, <<>>, <<>>)
  BY <1>4 DEF TasksKept
<1>7. \A i \in 1 .. 0 : FALSE
  OBVIOUS
<1>8. HistoryInv(<<>>, w, <<>>, <<>>)
  BY <1>3, <1>4, <1>5, <1>6, <1>7 DEF HistoryInv
<1>9. RowsInv(w, <<>>, <<>>)
  BY <1>4, <1>7 DEF RowsInv
<1>10. QED BY <1>1, <1>2, <1>8, <1>9 DEF MemoryInv

\* What is proposed are rows of notes.
LEMMA NotesAreRows ==
    ASSUME workload \in Workloads, NEW length \in Nat, NEW notes \in [1 .. length -> Notes]
    PROVE  notes \in Seq(NoteRow(workload.keys))
<1>1. PICK w \in Workloads : w = workload
  OBVIOUS
<1>2. w.types \subseteq NoteTypes /\ w.sizes \subseteq Nat
  BY MemoryAssumption DEF NoteTypes
<1>3. ASSUME NEW n \in Notes PROVE n \in NoteRow(w.keys)
  <2>1. PICK sources \in SUBSET Ids(entries) : \E covers \in SUBSET sources :
           n \in [key : w.keys, type : w.types, status : Statuses, size : w.sizes,
                  sources : {sources}, covers : {covers}]
    BY <1>1 DEF Notes, Keys, Types, Sizes
  <2>2. PICK covers \in SUBSET sources :
           n \in [key : w.keys, type : w.types, status : Statuses, size : w.sizes,
                  sources : {sources}, covers : {covers}]
    BY <2>1
  <2>3. sources \in SUBSET Nat /\ covers \in SUBSET Nat
    BY DEF Ids
  <2>4. QED BY <1>2, <2>2, <2>3 DEF NoteRow
<1>4. notes \in [1 .. length -> NoteRow(w.keys)]
  BY <1>3
<1>5. QED BY <1>1, <1>4

\* An admission or a commit finds the replayed index.
LEMMA IntactIndex ==
    ASSUME Intact, NEW db, HistoryInv(db, workload, commits, attempts)
    PROVE  entries = db
<1>1. Replay = {db}
  BY ReplayNow DEF HistoryInv
<1>2. QED BY <1>1 DEF Intact

LEMMA AdmitMemoryInv ==
    ASSUME MemoryInv, Intact, NEW policy \in Policies, NEW named \in SUBSET OpenTasks(entries),
           NEW history \in BOOLEAN, NEW beside, NEW chosen, AdmitView(policy, named, history, beside, chosen)
    PROVE  MemoryInv'
<1>1. PICK db : HistoryInv(db, workload, commits, attempts)
  BY DEF MemoryInv
<1>2. PICK w, c, a : w = workload /\ c = commits /\ a = attempts
  OBVIOUS
<1>3. entries = db /\ HistoryInv(db, w, c, a) /\ RowsInv(w, c, a)
  BY <1>1, <1>2, IntactIndex DEF MemoryInv
<1> DEFINE new == [tick |-> Len(c), policy |-> policy,
                   view |-> {wire_at(db, i, Len(c)) : i \in Required(db, policy, named) \cup chosen}]
<1>4. chosen \in SUBSET Optional(db, policy.strategy, history) /\ named \in SUBSET OpenTasks(db)
  BY <1>3 DEF AdmitView
<1>5. ViewInv(db, new, Len(c))
  <2>1. PICK K : K = w.keys
    OBVIOUS
  <2>2. PICK now \in Nat : now = Len(c)
    BY <1>3 DEF RowsInv
  <2>3. IndexInv(K, db, now)
    BY <1>3, <2>1, <2>2 DEF HistoryInv
  <2>4. PICK row : row = new
    OBVIOUS
  <2>5. row = [tick |-> now, policy |-> policy,
               view |-> {wire_at(db, i, now) : i \in Required(db, policy, named) \cup chosen}]
    BY <2>2, <2>4
  <2> HIDE DEF new
  <2>6. ViewInv(db, row, now)
    BY <1>4, <2>2, <2>3, <2>5, NewViewInv
  <2>7. QED BY <2>2, <2>4, <2>6
<1>6. attempts' = Append(a, new) /\ entries' = entries /\ commits' = commits /\ workload' = workload
  BY <1>2, <1>3 DEF AdmitView, tick
<1>11. new.policy \in w.policies
  BY <1>2 DEF Policies
<1> HIDE DEF new
<1>7. Extends(attempts', a, new)
  BY <1>3, <1>6, AppendExtends DEF RowsInv
<1>8. PICK b : b = attempts'
  OBVIOUS
<1>9. RowsInv(w, c, b) /\ HistoryInv(db, w, c, b)
  BY <1>3, <1>5, <1>7, <1>8, <1>11, AdmitHistory
<1>10. QED BY <1>2, <1>3, <1>6, <1>8, <1>9 DEF MemoryInv

LEMMA CommitMemoryInv ==
    ASSUME MemoryInv, Intact, NEW i \in 1 .. Len(attempts), NEW length \in Nat,
           NEW notes \in [1 .. length -> Notes], NEW legacy, CommitNotes(i, notes, legacy)
    PROVE  MemoryInv'
<1>1. PICK db : HistoryInv(db, workload, commits, attempts)
  BY DEF MemoryInv
<1>2. PICK w, c, a : w = workload /\ c = commits /\ a = attempts
  OBVIOUS
<1>3. entries = db /\ HistoryInv(db, w, c, a) /\ RowsInv(w, c, a)
  BY <1>1, <1>2, IntactIndex DEF MemoryInv
<1> DEFINE row == [attempt |-> i, notes |-> notes, legacy |-> legacy]
<1>4. PICK e : /\ e \in Transition(entries, row, attempts[i], tick + 1)
               /\ entries' = e
               /\ commits' = Append(commits, row)
  BY DEF CommitNotes
<1>13. row.attempt = i /\ row.notes = notes
  OBVIOUS
<1> HIDE DEF row
<1>5. e \in TransitionIn(w, db, row, a[i], Len(c) + 1)
  BY <1>2, <1>3, <1>4 DEF Transition, TransitionIn, memory_capacity, CapacityIn, Fits, FitsIn, Envelope, tick
<1>6. notes \in Seq(NoteRow(w.keys))
  BY <1>2, <1>3, NotesAreRows DEF RowsInv
<1>7. row.attempt = i /\ row.notes = notes /\ commits' = Append(c, row)
  BY <1>2, <1>4, <1>13
<1>8. Extends(commits', c, row)
  BY <1>3, <1>7, AppendExtends DEF RowsInv
<1>9. PICK d : d = commits'
  OBVIOUS
<1>10. RowsInv(w, d, a) /\ HistoryInv(e, w, d, a)
  <2>1. i \in 1 .. Len(a) /\ Extends(d, c, row)
    BY <1>2, <1>8, <1>9
  <2>2. QED BY <1>3, <1>5, <1>6, <1>7, <2>1, CommitHistory
<1>11. attempts' = a /\ workload' = w
  BY <1>2 DEF CommitNotes
<1>12. QED BY <1>4, <1>9, <1>10, <1>11 DEF MemoryInv

LEMMA NextMemoryInv == MemoryInv /\ [MemoryNext]_memoryVars => MemoryInv'
<1> SUFFICES ASSUME MemoryInv, [MemoryNext]_memoryVars PROVE MemoryInv'
  OBVIOUS
<1>1. CASE Intact /\ Steps
  <2>1. CASE \E policy \in Policies, named \in SUBSET OpenTasks(entries), history \in BOOLEAN,
                beside \in Besides, chosen \in SUBSET Ids(entries) :
                   AdmitView(policy, named, history, beside, chosen)
    BY <1>1, <2>1, AdmitMemoryInv
  <2>2. CASE \E i \in {a \in 1 .. Len(attempts) : attempts[a].tick = tick}, legacy \in workload.legacy,
                length \in {n \in 0 .. NotesPerCommit : Len(entries) + n <= EntryBound} :
                   \E notes \in [1 .. length -> Notes] : CommitNotes(i, notes, legacy)
    <3>1. PICK i \in 1 .. Len(attempts), legacy \in workload.legacy, length \in 0 .. NotesPerCommit :
             \E notes \in [1 .. length -> Notes] : CommitNotes(i, notes, legacy)
      BY <2>2
    <3>2. length \in Nat
      BY <3>1
    <3>3. PICK notes \in [1 .. length -> Notes] : CommitNotes(i, notes, legacy)
      BY <3>1
    <3>4. QED BY <1>1, <3>1, <3>2, <3>3, CommitMemoryInv
  <2>3. QED BY <1>1, <2>1, <2>2 DEF Steps
<1>2. CASE LoseIndex
  BY <1>2 DEF LoseIndex, MemoryInv
<1>3. CASE RebuildIndex
  <2>1. PICK db : HistoryInv(db, workload, commits, attempts)
    BY DEF MemoryInv
  <2>2. Replay = {db}
    BY <2>1, ReplayNow DEF HistoryInv
  <2>3. entries' = db /\ UNCHANGED <<commits, attempts, workload>>
    BY <1>3, <2>2 DEF RebuildIndex
  <2>4. QED BY <2>1, <2>3 DEF MemoryInv
<1>4. CASE UNCHANGED memoryVars
  BY <1>4 DEF memoryVars, MemoryInv
<1>5. QED BY <1>1, <1>2, <1>3, <1>4 DEF MemoryNext


-----------------------------------------------------------------------------
(* The theorems.                                                           *)

THEOREM MemoryInvariant == MemorySpec => []MemoryInv
<1>1. QED BY InitMemoryInv, NextMemoryInv, PTL DEF MemorySpec

\* What the stored index is, whether it was lost or not.
LEMMA StoredIndex ==
    ASSUME MemoryInv
    PROVE  /\ workload \in Workloads
           /\ IndexInv(workload.keys, entries, Len(commits)) /\ Len(commits) \in Nat
           /\ TasksKept(entries, commits, attempts)
<1>1. PICK w : w = workload
  OBVIOUS
<1>2. PICK c : c = commits
  OBVIOUS
<1>3. PICK a : a = attempts
  OBVIOUS
<1>4. w \in Workloads /\ Len(c) \in Nat
  BY <1>1, <1>2 DEF MemoryInv, RowsInv
<1>5. PICK db : HistoryInv(db, w, c, a) /\ entries \in {db, <<>>}
  BY <1>1, <1>2, <1>3 DEF MemoryInv
<1>6. CASE entries = db
  BY <1>1, <1>2, <1>3, <1>4, <1>5, <1>6 DEF HistoryInv
<1>7. CASE entries = <<>>
  <2>1. Ids(<<>>) = {} /\ <<>> \in Seq(EntryRow(w.keys))
    BY DEF Ids
  <2>2. IndexInv(w.keys, <<>>, Len(c))
    BY <2>1 DEF IndexInv
  <2>3. TasksKept(<<>>, c, a)
    <3>1. \A n \in 1 .. Len(c) : a[c[n].attempt].policy \in w.policies
      BY <1>1, <1>2, <1>3 DEF MemoryInv, RowsInv
    <3>2. \A policy \in w.policies : TasksFit(<<>>, policy)
      BY <1>4, MemoryAssumption, NothingFits
    <3>3. QED BY <3>1, <3>2 DEF TasksKept
  <2>4. QED BY <1>1, <1>2, <1>3, <1>4, <1>7, <2>2, <2>3
<1>8. QED BY <1>5, <1>6, <1>7

\* Every history verifies, whatever was deposited, superseded, retracted or
\* condensed: replay accepts each commit again (verify, rebuild_memory), each
\* recorded view keeps its labels, and the current column agrees with them.
THEOREM MemoriesVerify == MemorySpec => []MemoryVerifies
<1>1. MemoryInv => MemoryVerifies
  <2> SUFFICES ASSUME MemoryInv PROVE MemoryVerifies
    OBVIOUS
  <2>1. PICK db : HistoryInv(db, workload, commits, attempts)
    BY DEF MemoryInv
  <2>2. db \in Replay /\ ContextsMatch(db)
    BY <2>1, ReplayNow DEF HistoryInv, ViewInv, ContextsMatch
  <2>3. ASSUME NEW i \in Ids(entries)
        PROVE  /\ wire_at(entries, i, tick).current = entries[i].current
               /\ i \in Current(entries) => ~wire_at(entries, i, tick).stale
    <3>1. PICK K : K = workload.keys
      OBVIOUS
    <3>2. PICK now : now = Len(commits) /\ now \in Nat
      BY StoredIndex
    <3>3. PICK db1 : db1 = entries
      OBVIOUS
    <3>4. IndexInv(K, db1, now) /\ i \in Ids(db1) /\ tick = now
      BY <3>1, <3>2, <3>3, StoredIndex DEF tick
    <3>5. \A j \in Ids(db1) : Latest(db1, j, now) <=> db1[j].current
      BY <3>2, <3>4, LatestIsCurrent
    <3>6. db1[i].current \in BOOLEAN
      BY <3>4, IndexRow DEF IndexInv
    <3>7. wire_at(db1, i, now).current = Latest(db1, i, now)
          /\ (wire_at(db1, i, now).stale <=> db1[i].type = "summary" /\ \E s \in db1[i].sources : ~Latest(db1, s, now))
      BY WireLabels
    <3>8. Latest(db1, i, now) = db1[i].current
      BY <3>4, <3>5, <3>6 DEF Latest
    <3>9. i \in Current(db1) => ~wire_at(db1, i, now).stale
      <4>1. \A s \in db1[i].sources : s \in Ids(db1)
        BY <3>4 DEF IndexInv
      <4>2. QED BY <3>5, <3>7, <4>1 DEF Current, Fresh
    <3>10. QED BY <3>3, <3>4, <3>7, <3>8, <3>9
  <2>4. QED BY <2>2, <2>3 DEF MemoryVerifies
<1>2. QED BY <1>1, MemoryInvariant, PTL

\* Compaction hides no evidence: a summary never condenses a summary, so the
\* one that covers an entry is itself offered (uncovered_filter).
THEOREM EvidenceStaysReachable == MemorySpec => []EvidenceIsReachable
<1>1. MemoryInv => EvidenceIsReachable
  <2> SUFFICES ASSUME MemoryInv, NEW i \in Current(entries), i \notin RecentLane(entries)
               PROVE  \E c \in RecentLane(entries) : i \in entries[c].covers
    BY DEF EvidenceIsReachable
  <2>1. PICK c \in Ids(entries) : i \in entries[c].covers /\ Live(entries[c]) /\ Fresh(entries, c)
    BY DEF RecentLane, Covered
  <2>2. IndexInv(workload.keys, entries, Len(commits))
    BY StoredIndex
  <2>3. c \in Current(entries) /\ entries[c].type = "summary"
    BY <2>1, <2>2 DEF IndexInv, Current
  <2>4. c \notin Covered(entries)
    <3>1. ASSUME NEW d \in Ids(entries), c \in entries[d].covers PROVE FALSE
      <4>1. entries[d].type = "summary" /\ c \in entries[d].sources
        BY <2>2, <3>1 DEF IndexInv
      <4>2. QED BY <2>2, <2>3, <4>1 DEF IndexInv
    <3>2. QED BY <3>1 DEF Covered
  <2>5. QED BY <2>1, <2>3, <2>4 DEF RecentLane
<1>2. QED BY <1>1, MemoryInvariant, PTL

\* The view of a protecting strategy shows all tasks that were open at its head,
\* whatever was selected besides (project_memory).
THEOREM OpenTasksAreShown == MemorySpec => []TasksAreShown
<1>1. MemoryInv => TasksAreShown
  <2> SUFFICES ASSUME MemoryInv PROVE TasksAreShown
    OBVIOUS
  <2>1. PICK db : HistoryInv(db, workload, commits, attempts)
    BY DEF MemoryInv
  <2>2. Replay = {db}
    BY <2>1, ReplayNow DEF HistoryInv
  <2>3. \A a \in 1 .. Len(attempts) : ViewInv(db, attempts[a], Len(commits))
    BY <2>1 DEF HistoryInv
  <2>4. QED BY <2>2, <2>3 DEF TasksAreShown, ViewInv
<1>2. QED BY <1>1, MemoryInvariant, PTL

\* The open tasks keep within the items and bytes of the protecting policy that
\* was last checked, through any maintenance that follows (memory_capacity).
THEOREM CheckedTasksFit == MemorySpec => []OpenTasksFit
<1>1. MemoryInv => OpenTasksFit
  BY StoredIndex DEF OpenTasksFit, TasksKept, CheckedLast, TasksFit, tick
<1>2. QED BY <1>1, MemoryInvariant, PTL

\* A task is ended by a task note on its key only, and under a protecting or a
\* maintenance admission only if it was shown (memory_transition).
THEOREM EndedTasksWereShown == MemorySpec => SettledTasksWereShown
<1>1. MemoryInv /\ [MemoryNext]_memoryVars => [TasksEndShown]_memoryVars
  <2> SUFFICES ASSUME MemoryInv, MemoryNext, tick' > tick PROVE TasksEndShown
    BY DEF TasksEndShown
  <2>1. Len(commits) \in Nat /\ tick = Len(commits) /\ tick' = Len(commits')
    BY StoredIndex DEF tick
  <2>2. Intact /\ Steps
    BY <2>1 DEF MemoryNext, LoseIndex, RebuildIndex
  <2>3. PICK a \in {a \in 1 .. Len(attempts) : attempts[a].tick = tick},
             length \in {n \in 0 .. NotesPerCommit : Len(entries) + n <= EntryBound},
             legacy \in workload.legacy :
             \E notes \in [1 .. length -> Notes] : CommitNotes(a, notes, legacy)
    <3>1. ASSUME NEW policy, NEW named, NEW history, NEW beside, NEW chosen,
                 AdmitView(policy, named, history, beside, chosen)
          PROVE  FALSE
      <4>1. commits' = commits
        BY <3>1 DEF AdmitView
      <4>2. QED BY <2>1, <4>1
    <3>2. QED BY <2>2, <3>1 DEF Steps
  <2>4. length \in Nat /\ a \in 1 .. Len(attempts) /\ attempts[a].tick = tick
    BY <2>3
  <2>5. PICK notes \in [1 .. length -> Notes] : CommitNotes(a, notes, legacy)
    BY <2>3
  <2>6. PICK db : HistoryInv(db, workload, commits, attempts)
    BY DEF MemoryInv
  <2>7. PICK w : w = workload
    OBVIOUS
  <2>8. PICK b : b = attempts[a]
    OBVIOUS
  <2>9. PICK now \in Nat : now = Len(commits)
    BY <2>1
  <2> DEFINE proposal == [attempt |-> a, notes |-> notes, legacy |-> legacy]
  <2>10. PICK e : /\ e \in Transition(entries, proposal, attempts[a], tick + 1)
                  /\ entries' = e
                  /\ commits' = Append(commits, proposal)
    BY <2>5 DEF CommitNotes
  <2>11. proposal.attempt = a /\ proposal.notes = notes
    OBVIOUS
  <2> HIDE DEF proposal
  <2>12. entries = db /\ e \in TransitionIn(w, db, proposal, b, now + 1)
    BY <2>1, <2>2, <2>6, <2>7, <2>8, <2>9, <2>10, IntactIndex
       DEF Transition, TransitionIn, memory_capacity, CapacityIn, Fits, FitsIn, Envelope
  <2>13. IndexInv(w.keys, db, now) /\ ViewInv(db, b, now) /\ b.tick = now
    BY <2>1, <2>4, <2>6, <2>7, <2>8, <2>9 DEF HistoryInv
  <2>14. notes \in Seq(NoteRow(w.keys))
    BY <2>4, <2>7, StoredIndex, NotesAreRows
  <2>15. Committed(w.keys, db, e, notes, now + 1) /\ memory_transition(db, proposal, b)
    BY <2>12, <2>13, <2>14, <2>11, TransitionGrows
  <2>16. tick' = now + 1 /\ attempts[commits'[tick'].attempt] = b
    <3>1. PICK R : commits \in Seq(R)
      BY DEF MemoryInv, RowsInv
    <3>2. Extends(commits', commits, proposal)
      BY <2>10, <3>1, AppendExtends
    <3>3. QED BY <2>1, <2>8, <2>9, <2>11, <3>2 DEF Extends
  <2>17. ASSUME NEW i \in OpenTasks(entries), i \notin OpenTasks(entries)'
         PROVE  /\ b.policy.strategy \in {"balanced", "task_maintenance"} => \E item \in b.view : item.id = i
                /\ \E j \in Ids(entries)' :
                      entries'[j].key = entries[i].key /\ entries'[j].type = "task"
                        /\ entries'[j].tick = tick'
    <3>1. i \in OpenTasks(db) \ OpenTasks(e)
      BY <2>10, <2>12, <2>17
    <3>2. PICK K : K = w.keys
      OBVIOUS
    <3>3. IndexInv(K, db, now) /\ Committed(K, db, e, notes, now + 1)
      BY <2>13, <2>15, <3>2
    <3>4. PICK j \in 1 .. Len(notes) :
             /\ notes[j].key = db[i].key /\ notes[j].type = "task"
             /\ Len(db) + j \in Ids(e)
             /\ e[Len(db) + j].key = db[i].key /\ e[Len(db) + j].type = "task"
             /\ e[Len(db) + j].tick = now + 1
      <4>1. \A k \in OpenTasks(db) \ OpenTasks(e) : EndedByTask(db, e, notes, now + 1, k)
        BY <3>3, EndedTasks
      <4>2. QED BY <3>1, <4>1 DEF EndedByTask
    <3>5. \E k \in Ids(entries)' :
             entries'[k].key = entries[i].key /\ entries'[k].type = "task" /\ entries'[k].tick = tick'
      <4>1. Ids(entries)' = Ids(e)
        BY <2>10 DEF Ids
      <4>2. QED BY <2>10, <2>12, <2>16, <3>4, <4>1
    <3>6. i \in Ids(db) /\ db[i].current /\ db[i].type = "task" /\ db[i].status = "open"
      BY <3>1, OpenTasksAre
    <3>7. \A k \in Ids(db) : (wire_at(db, k, now).current <=> db[k].current) /\ db[k].tick <= now
      BY <2>13, LatestIsCurrent, WireFields DEF IndexInv
    <3>8. CASE b.policy.strategy = "balanced"
      BY <2>13, <3>5, <3>6, <3>7, <3>8 DEF ViewInv, Protects
    <3>9. CASE b.policy.strategy = "task_maintenance"
      <4>1. SettlesShown(db, notes[j], b.view)
        BY <2>15, <2>11, <3>4, <3>9 DEF memory_transition
      <4>2. PICK item \in b.view : db[item.id].key = notes[j].key
        BY <4>1 DEF SettlesShown
      <4>3. item.id \in Ids(db) /\ item = wire_at(db, item.id, now) /\ item.current
        BY <2>13, <3>9 DEF ViewInv
      <4>4. db[item.id].current
        BY <3>7, <4>3
      <4>5. item.id <= i /\ i <= item.id
        BY <2>13, <3>4, <3>6, <4>2, <4>3, <4>4 DEF IndexInv
      <4>6. item.id = i
        <5>1. db \in Seq(EntryRow(w.keys))
          BY <2>13 DEF IndexInv
        <5>2. i \in Nat /\ item.id \in Nat
          BY <3>6, <4>3 DEF Ids
        <5>3. QED BY <4>5, <5>2
      <4>7. QED BY <3>5, <4>6
    <3>10. QED BY <3>5, <3>8, <3>9
  <2>18. QED BY <2>16, <2>17 DEF TasksEndShown
<1>2. QED BY <1>1, MemoryInvariant, PTL DEF MemorySpec, SettledTasksWereShown
=============================================================================
