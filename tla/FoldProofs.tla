------------------------------ MODULE FoldProofs ------------------------------
(***************************************************************************)
(* Facts about the operators of the community modules that go through a    *)
(* sequence or a set, and the induction they are proved by.  The           *)
(* induction is over the elements of a set of numbers, in place of a       *)
(* predicate.                                                              *)
(***************************************************************************)
EXTENDS SequencesExt, FiniteSetTheorems, SequenceTheorems,
        WellFoundedInduction, TLAPS

Less == {ss \in Nat \X Nat : ss[1] < ss[2]}

LEMMA LessIsWellFounded == IsWellFoundedOn(Less, Nat)
BY NatLessThanWellFounded DEF OpToRel, Less

\* Induction over the numbers, for a set in place of a predicate.
LEMMA SetInduction ==
    ASSUME NEW S, S \subseteq Nat, 0 \in S, \A n \in S : n + 1 \in S
    PROVE  S = Nat
<1> SUFFICES ASSUME Nat \ S # {} PROVE FALSE
  OBVIOUS
<1>1. PICK n \in Nat \ S : \A m \in Nat \ S : <<m, n>> \notin Less
  <2>1. Nat \ S \subseteq Nat
    OBVIOUS
  <2>2. QED
    BY <2>1, LessIsWellFounded, WFMin
<1>2. n - 1 \in Nat /\ n - 1 < n
  BY <1>1
<1>3. <<n - 1, n>> \in Less
  BY <1>1, <1>2 DEF Less
<1>4. n - 1 \in S
  BY <1>1, <1>2, <1>3
<1>5. QED
  BY <1>1, <1>4

LEMMA LeastOfNumbers ==
    ASSUME NEW S, S \subseteq Nat, S # {}
    PROVE  \E x \in S : \A y \in S : x <= y
<1>1. PICK x \in S : \A y \in S : <<y, x>> \notin Less
  BY LessIsWellFounded, WFMin
<1>2. \A y \in S : ~(y < x)
  BY <1>1 DEF Less
<1>3. QED
  BY <1>2

\* Induction over the numbers up to n.
LEMMA InductionUpTo ==
    ASSUME NEW n \in Nat, NEW I, 0 \in I, \A k \in 1..n : k - 1 \in I => k \in I
    PROVE  \A k \in 0..n : k \in I
<1> DEFINE N == {k \in Nat : k <= n => k \in I}
<1>1. 0 \in N
  OBVIOUS
<1>2. ASSUME NEW k \in N PROVE k + 1 \in N
  <2> SUFFICES ASSUME k + 1 <= n PROVE k + 1 \in I
    OBVIOUS
  <2>1. k + 1 \in 1..n /\ (k + 1) - 1 = k
    OBVIOUS
  <2>2. QED
    BY <2>1
<1>3. N = Nat
  <2>1. N \subseteq Nat
    OBVIOUS
  <2> HIDE DEF N
  <2>2. QED
    BY <1>1, <1>2, <2>1, SetInduction
<1>4. QED
  BY <1>3

\* What Max and SelectLastInSeq choose.
LEMMA MaxOfPositions ==
    ASSUME NEW n \in Nat, NEW set, set \subseteq 1..n, set # {}
    PROVE  Max(set) \in set /\ \A i \in set : i <= Max(set)
<1> DEFINE Good == {m \in Nat : \A I : I \subseteq 1..m /\ I # {} =>
                                   \E x \in I : \A y \in I : x >= y}
<1>1. 0 \in Good
  OBVIOUS
<1>2. ASSUME NEW m \in Good PROVE m + 1 \in Good
  <2> SUFFICES ASSUME NEW I, I \subseteq 1..(m + 1), I # {}
               PROVE  \E x \in I : \A y \in I : x >= y
    OBVIOUS
  <2>1. CASE m + 1 \in I
    BY <2>1
  <2>2. CASE m + 1 \notin I
    <3>1. I \subseteq 1..m
      BY <2>2
    <3>2. QED
      BY <3>1
  <2>3. QED
    BY <2>1, <2>2
<1>3. Good = Nat
  <2>1. Good \subseteq Nat
    OBVIOUS
  <2> HIDE DEF Good
  <2>2. QED
    BY <1>1, <1>2, <2>1, SetInduction
<1>4. \E x \in set : \A y \in set : x >= y
  BY <1>3
<1>5. Max(set) \in set /\ \A y \in set : Max(set) >= y
  BY <1>4 DEF Max
<1>6. QED
  BY <1>5

LEMMA FiniteImage ==
    ASSUME NEW S, IsFiniteSet(S), NEW f
    PROVE  IsFiniteSet({f[x] : x \in S})
<1> DEFINE T == {f[x] : x \in S}
           g == [x \in S |-> f[x]]
<1>1. g \in Surjection(S, T)
  BY DEF Surjection
<1>2. QED
  BY <1>1, FS_Surjection

LEMMA SetToSeqLists ==
    ASSUME NEW S, IsFiniteSet(S)
    PROVE  /\ SetToSeq(S) \in Seq(S)
           /\ Range(SetToSeq(S)) = S
<1> DEFINE n == Cardinality(S)
           f == SetToSeq(S)
<1>1. n \in Nat
  BY FS_CardinalityType
<1>2. \E g \in [1..n -> S] : IsInjective(g)
  <2>1. ExistsBijection(1..n, S)
    BY FS_NatBijection, FS_CountingElements
  <2>2. QED
    BY <2>1 DEF ExistsBijection, Bijection, Injection, IsInjective
<1>3. f \in [1..n -> S] /\ IsInjective(f)
  BY <1>2 DEF SetToSeq
<1>4. f \in Injection(1..n, S)
  BY <1>3 DEF Injection
<1>5. Cardinality(1..n) = n
  BY <1>1, FS_Interval
<1>6. f \in Surjection(1..n, S)
  BY <1>4, <1>5, FS_Injection
<1>7. Range(f) = S
  BY <1>3, <1>6 DEF Surjection, Range
<1>8. f \in Seq(S)
  BY <1>1, <1>3, SeqDef
<1>9. QED
  BY <1>7, <1>8

LEMMA RangeOfConcat ==
    ASSUME NEW S, NEW s \in Seq(S), NEW t \in Seq(S)
    PROVE  s \o t \in Seq(S) /\ Range(s \o t) = Range(s) \union Range(t)
BY ConcatProperties, RangeConcatenation

\* The first n turns of FlattenSeq.
Flat(seqs, f, n) ==
    \A i \in 1..n : f[i] = IF i = 1 THEN seqs[i] ELSE f[i - 1] \o seqs[i]

LEMMA FlatExtends ==
    ASSUME NEW S, NEW seqs, NEW n \in Nat, \A i \in 1..(n + 1) : seqs[i] \in Seq(S),
           NEW f \in [1..n -> Seq(S)], Flat(seqs, f, n)
    PROVE  \E g \in [1..(n + 1) -> Seq(S)] : Flat(seqs, g, n + 1)
<1> DEFINE last == IF n = 0 THEN seqs[1] ELSE f[n] \o seqs[n + 1]
           g    == [i \in 1..(n + 1) |-> IF i = n + 1 THEN last ELSE f[i]]
<1>1. last \in Seq(S)
  <2>1. CASE n = 0
    BY <2>1
  <2>2. CASE n # 0
    <3>1. f[n] \in Seq(S) /\ seqs[n + 1] \in Seq(S)
      BY <2>2
    <3>2. QED
      BY <2>2, <3>1, ConcatProperties
  <2>3. QED
    BY <2>1, <2>2
<1>2. g \in [1..(n + 1) -> Seq(S)]
  <2> HIDE DEF last
  <2>1. QED
    BY <1>1
<1>3. ASSUME NEW i \in 1..(n + 1)
      PROVE  g[i] = IF i = 1 THEN seqs[i] ELSE g[i - 1] \o seqs[i]
  <2>1. CASE i = n + 1
    <3>1. CASE n = 0
      BY <2>1, <3>1
    <3>2. CASE n # 0
      <4>1. n + 1 \in 1..(n + 1) /\ n \in 1..(n + 1) /\ n # n + 1 /\ n + 1 # 1
        BY <3>2
      <4>2. g[n + 1] = f[n] \o seqs[n + 1] /\ g[n] = f[n] /\ (n + 1) - 1 = n
        BY <3>2, <4>1
      <4>3. QED
        BY <2>1, <4>1, <4>2
    <3>3. QED
      BY <3>1, <3>2
  <2>2. CASE i # n + 1
    <3>1. i \in 1..n /\ g[i] = f[i]
      BY <2>2
    <3>2. i # 1 => g[i - 1] = f[i - 1]
      BY <3>1
    <3>3. QED
      BY <3>1, <3>2 DEF Flat
  <2>3. QED
    BY <2>1, <2>2
<1> HIDE DEF g
<1>4. QED
  BY <1>2, <1>3 DEF Flat

LEMMA FlattenExists ==
    ASSUME NEW S, NEW seqs \in Seq(Seq(S))
    PROVE  \E f \in [1..Len(seqs) -> Seq(S)] : Flat(seqs, f, Len(seqs))
<1> DEFINE P(n) == n <= Len(seqs) => \E f \in [1..n -> Seq(S)] : Flat(seqs, f, n)
           N    == {n \in Nat : P(n)}
<1>1. Len(seqs) \in Nat /\ \A i \in 1..Len(seqs) : seqs[i] \in Seq(S)
  BY LenProperties, ElementOfSeq
<1>2. P(0)
  <2>1. [i \in 1..0 |-> <<>>] \in [1..0 -> Seq(S)]
    OBVIOUS
  <2>2. Flat(seqs, [i \in 1..0 |-> <<>>], 0)
    BY DEF Flat
  <2>3. QED
    BY <2>1, <2>2
<1>3. ASSUME NEW n \in Nat, P(n) PROVE P(n + 1)
  <2>1. SUFFICES ASSUME n + 1 <= Len(seqs)
                 PROVE  \E f \in [1..(n + 1) -> Seq(S)] : Flat(seqs, f, n + 1)
    OBVIOUS
  <2>2. PICK f \in [1..n -> Seq(S)] : Flat(seqs, f, n)
    BY <1>1, <1>3, <2>1
  <2>3. \A i \in 1..(n + 1) : seqs[i] \in Seq(S)
    BY <1>1, <2>1
  <2>4. QED
    BY <2>2, <2>3, FlatExtends
<1>4. N = Nat
  <2> HIDE DEF P
  <2>1. N \subseteq Nat /\ 0 \in N /\ \A n \in N : n + 1 \in N
    BY <1>2, <1>3
  <2> HIDE DEF N
  <2>2. QED
    BY <2>1, SetInduction
<1>5. P(Len(seqs))
  <2> HIDE DEF P
  <2>1. QED
    BY <1>1, <1>4
<1>6. QED
  BY <1>1, <1>5

LEMMA RangeOfFlat ==
    ASSUME NEW S, NEW seqs \in Seq(Seq(S)), NEW f, Flat(seqs, f, Len(seqs)),
           NEW m \in 1..Len(seqs)
    PROVE  /\ f[m] \in Seq(S)
           /\ Range(f[m]) = UNION {Range(seqs[i]) : i \in 1..m}
<1> DEFINE P(n) == n + 1 <= Len(seqs) =>
                       /\ f[n + 1] \in Seq(S)
                       /\ Range(f[n + 1]) = UNION {Range(seqs[i]) : i \in 1..(n + 1)}
           N    == {n \in Nat : P(n)}
<1>1. Len(seqs) \in Nat /\ \A i \in 1..Len(seqs) : seqs[i] \in Seq(S)
  BY LenProperties, ElementOfSeq
<1>2. P(0)
  <2>1. SUFFICES ASSUME 1 <= Len(seqs)
                 PROVE  f[1] \in Seq(S) /\ Range(f[1]) = UNION {Range(seqs[i]) : i \in 1..1}
    OBVIOUS
  <2>2. f[1] = seqs[1] /\ seqs[1] \in Seq(S)
    <3>1. 1 \in 1..Len(seqs)
      BY <1>1, <2>1
    <3>2. QED
      BY <1>1, <3>1 DEF Flat
  <2>3. {Range(seqs[i]) : i \in 1..1} = {Range(seqs[1])}
    OBVIOUS
  <2>4. QED
    BY <2>2, <2>3
<1>3. ASSUME NEW n \in Nat, P(n) PROVE P(n + 1)
  <2>1. SUFFICES ASSUME n + 2 <= Len(seqs)
                 PROVE  /\ f[n + 2] \in Seq(S)
                        /\ Range(f[n + 2]) = UNION {Range(seqs[i]) : i \in 1..(n + 2)}
    BY (n + 1) + 1 = n + 2
  <2>2. /\ f[n + 1] \in Seq(S)
        /\ Range(f[n + 1]) = UNION {Range(seqs[i]) : i \in 1..(n + 1)}
    BY <1>1, <1>3, <2>1
  <2>3. seqs[n + 2] \in Seq(S) /\ f[n + 2] = f[n + 1] \o seqs[n + 2]
    <3>1. n + 2 \in 1..Len(seqs) /\ n + 2 # 1 /\ (n + 2) - 1 = n + 1
      BY <1>1, <2>1
    <3>2. QED
      BY <1>1, <3>1 DEF Flat
  <2>4. /\ f[n + 2] \in Seq(S)
        /\ Range(f[n + 2]) = Range(f[n + 1]) \union Range(seqs[n + 2])
    BY <2>2, <2>3, RangeOfConcat
  <2>5. 1..(n + 2) = 1..(n + 1) \union {n + 2}
    OBVIOUS
  <2>6. UNION {Range(seqs[i]) : i \in 1..(n + 2)} =
        (UNION {Range(seqs[i]) : i \in 1..(n + 1)}) \union Range(seqs[n + 2])
    BY <2>5
  <2>7. QED
    BY <2>2, <2>4, <2>6
<1>4. N = Nat
  <2> HIDE DEF P
  <2>1. N \subseteq Nat /\ 0 \in N /\ \A n \in N : n + 1 \in N
    BY <1>2, <1>3
  <2> HIDE DEF N
  <2>2. QED
    BY <2>1, SetInduction
<1>5. m - 1 \in Nat /\ (m - 1) + 1 = m
  BY <1>1
<1>6. P(m - 1)
  <2> HIDE DEF P
  <2>1. QED
    BY <1>4, <1>5
<1>7. QED
  BY <1>1, <1>5, <1>6

\* FlattenSeq(seqs) is the last of these turns.
LEMMA FlattenTrace ==
    ASSUME NEW S, NEW seqs \in Seq(Seq(S)), seqs # <<>>
    PROVE  \E f \in [1..Len(seqs) -> Seq(S)] :
               Flat(seqs, f, Len(seqs)) /\ FlattenSeq(seqs) = f[Len(seqs)]
<1> DEFINE Turns(f) ==
               f = [i \in 1..Len(seqs) |->
                       IF i = 1 THEN seqs[i] ELSE f[i - 1] \o seqs[i]]
           flatten == CHOOSE f : Turns(f)
<1>1. Len(seqs) \in Nat /\ Len(seqs) # 0
  BY LenProperties, EmptySeq
<1>2. PICK f \in [1..Len(seqs) -> Seq(S)] : Flat(seqs, f, Len(seqs))
  BY FlattenExists
<1>3. Turns(f)
  BY <1>2 DEF Flat
<1>4. Turns(flatten)
  <2> HIDE DEF Turns
  <2>1. QED
    BY <1>3
<1>5. FlattenSeq(seqs) = flatten[Len(seqs)]
  BY <1>1 DEF FlattenSeq
<1> HIDE DEF flatten
<1>6. Flat(seqs, flatten, Len(seqs)) /\ DOMAIN flatten = 1..Len(seqs)
  BY <1>4 DEF Flat
<1>7. flatten = [i \in 1..Len(seqs) |-> flatten[i]]
  BY <1>4
<1>8. \A g : Flat(seqs, g, Len(seqs)) => \A m \in 1..Len(seqs) : g[m] \in Seq(S)
  BY RangeOfFlat
<1> HIDE DEF Turns
<1>9. flatten \in [1..Len(seqs) -> Seq(S)]
  BY <1>6, <1>7, <1>8
<1>10. QED
  BY <1>5, <1>6, <1>9

\* FlattenSeq(seqs) has the elements of the sequences in seqs.
LEMMA FlattenSeqLists ==
    ASSUME NEW S, NEW seqs \in Seq(Seq(S))
    PROVE  /\ FlattenSeq(seqs) \in Seq(S)
           /\ Range(FlattenSeq(seqs)) = UNION {Range(seqs[i]) : i \in DOMAIN seqs}
<1>1. Len(seqs) \in Nat /\ DOMAIN seqs = 1..Len(seqs)
  BY LenProperties
<1>2. CASE seqs = <<>>
  <2>1. FlattenSeq(seqs) = <<>> /\ DOMAIN seqs = {}
    BY <1>1, <1>2, EmptySeq DEF FlattenSeq
  <2>2. <<>> \in Seq(S) /\ Range(<<>>) = {}
    BY EmptySeq DEF Range
  <2>3. QED
    BY <2>1, <2>2
<1>3. CASE seqs # <<>>
  <2>1. PICK f \in [1..Len(seqs) -> Seq(S)] :
            Flat(seqs, f, Len(seqs)) /\ FlattenSeq(seqs) = f[Len(seqs)]
    BY <1>3, FlattenTrace
  <2>2. Len(seqs) \in 1..Len(seqs)
    BY <1>1, <1>3, EmptySeq
  <2>3. \A g : Flat(seqs, g, Len(seqs)) =>
          \A m \in 1..Len(seqs) :
            /\ g[m] \in Seq(S)
            /\ Range(g[m]) = UNION {Range(seqs[i]) : i \in 1..m}
    BY RangeOfFlat
  <2>4. QED
    BY <1>1, <2>1, <2>2, <2>3
<1>4. QED
  BY <1>2, <1>3

LEMMA FlattenOfAppend ==
    ASSUME NEW S, NEW seqs \in Seq(Seq(S)), NEW t \in Seq(S)
    PROVE  FlattenSeq(Append(seqs, t)) = FlattenSeq(seqs) \o t
<1> DEFINE n == Len(seqs)
           longer == Append(seqs, t)
<1>1. /\ longer \in Seq(Seq(S)) /\ longer # <<>> /\ Len(longer) = n + 1
      /\ \A i \in 1..n : longer[i] = seqs[i]
      /\ longer[n + 1] = t /\ n \in Nat
  BY AppendProperties, LenProperties
<1> HIDE DEF longer, n
<1>2. PICK g \in [1..(n + 1) -> Seq(S)] :
          Flat(longer, g, n + 1) /\ FlattenSeq(longer) = g[n + 1]
  <2>1. \E g \in [1..Len(longer) -> Seq(S)] :
            Flat(longer, g, Len(longer)) /\ FlattenSeq(longer) = g[Len(longer)]
    BY <1>1, FlattenTrace
  <2>2. QED
    BY <1>1, <2>1
<1>3. CASE n = 0
  <2>1. seqs = <<>> /\ FlattenSeq(seqs) = <<>>
    BY <1>3, EmptySeq DEF FlattenSeq, n
  <2>2. g[1] = t
    BY <1>1, <1>2, <1>3 DEF Flat
  <2>3. <<>> \o t = t
    BY ConcatEmptySeq
  <2>4. QED
    BY <1>2, <1>3, <2>1, <2>2, <2>3 DEF longer
<1>4. CASE n # 0
  <2>1. PICK f \in [1..n -> Seq(S)] : Flat(seqs, f, n) /\ FlattenSeq(seqs) = f[n]
    BY <1>4, EmptySeq, FlattenTrace DEF n
  <2> DEFINE I == {k \in 0..n : k # 0 => g[k] = f[k]}
  <2>2. 0 \in I
    BY <1>1
  <2>3. ASSUME NEW k \in 1..n, k - 1 \in I PROVE k \in I
    <3>1. /\ f[k] = IF k = 1 THEN seqs[k] ELSE f[k - 1] \o seqs[k]
          /\ g[k] = IF k = 1 THEN longer[k] ELSE g[k - 1] \o longer[k]
      <4>1. k \in 1..(n + 1) /\ longer[k] = seqs[k]
        BY <1>1
      <4>2. QED
        BY <1>2, <2>1, <4>1 DEF Flat
    <3>2. k # 1 => g[k - 1] = f[k - 1]
      BY <1>1, <2>3
    <3>3. k \in 0..n /\ longer[k] = seqs[k]
      BY <1>1
    <3>4. g[k] = f[k]
      BY <3>1, <3>2, <3>3
    <3>5. QED
      BY <3>3, <3>4
  <2> HIDE DEF I
  <2>4. \A k \in 0..n : k \in I
    BY <1>1, <2>2, <2>3, InductionUpTo
  <2>5. g[n] = f[n]
    <3>1. n \in 0..n
      BY <1>1
    <3>2. QED
      BY <1>4, <2>4, <3>1 DEF I
  <2>6. g[n + 1] = g[n] \o t
    <3>1. n + 1 \in 1..(n + 1) /\ n + 1 # 1 /\ (n + 1) - 1 = n
      BY <1>1, <1>4
    <3>2. QED
      BY <1>1, <1>2, <3>1 DEF Flat
  <2>7. QED
    BY <1>2, <2>1, <2>5, <2>6 DEF longer
<1>5. QED
  BY <1>3, <1>4

-----------------------------------------------------------------------------
(***************************************************************************)
(* Folds.  FoldLeft(op, base, seq) is f[1..Len(seq)] for a function f on   *)
(* the sets of positions, which takes away the last position at each turn. *)
(***************************************************************************)
LEMMA LastPosition ==
    ASSUME NEW n \in Nat, NEW s \in SUBSET (1..(n + 1))
    PROVE  /\ s # {} => s \ {Max(s)} \in SUBSET (1..n)
           /\ n + 1 \in s => Max(s) = n + 1
<1> SUFFICES ASSUME s # {}
             PROVE  /\ s \ {Max(s)} \in SUBSET (1..n)
                    /\ n + 1 \in s => Max(s) = n + 1
  OBVIOUS
<1> DEFINE x == Max(s)
<1>1. x \in s /\ \A i \in s : i <= x
  <2>1. n + 1 \in Nat
    OBVIOUS
  <2>2. QED
    BY <2>1, MaxOfPositions
<1> HIDE DEF x
<1>2. ASSUME NEW i \in s \ {x} PROVE i \in 1..n
  <2>1. i \in 1..(n + 1) /\ x \in 1..(n + 1) /\ i <= x /\ i # x
    BY <1>1
  <2>2. QED
    BY <2>1
<1>3. n + 1 \in s => x = n + 1
  <2>1. x \in 1..(n + 1)
    BY <1>1
  <2>2. QED
    BY <1>1, <2>1
<1>4. QED
  BY <1>2, <1>3 DEF x

LEMMA FirstPositions ==
    ASSUME NEW n \in Nat, NEW k \in 1..n
    PROVE  /\ 1..k \in SUBSET (1..n) /\ 1..k # {}
           /\ Max(1..k) = k /\ (1..k) \ {k} = 1..(k - 1)
<1>1. k - 1 \in Nat /\ (k - 1) + 1 = k
  OBVIOUS
<1>2. k \in 1..k /\ 1..k \in SUBSET (1..((k - 1) + 1))
  BY <1>1
<1>3. Max(1..k) = k
  BY <1>1, <1>2, LastPosition
<1>4. QED
  BY <1>2, <1>3

\* f goes through the turns of a fold over seq; step is the operator.
Folds(seq, base, step, f, n) ==
    \A s \in SUBSET (1..n) :
        f[s] = IF s = {} THEN base ELSE step[<<f[s \ {Max(s)}], seq[Max(s)]>>]

LEMMA FoldExtends ==
    ASSUME NEW S, NEW C, NEW base \in S, NEW step \in [S \X C -> S], NEW n \in Nat,
           NEW seq, seq[n + 1] \in C,
           NEW f \in [SUBSET (1..n) -> S], Folds(seq, base, step, f, n)
    PROVE  \E g \in [SUBSET (1..(n + 1)) -> S] : Folds(seq, base, step, g, n + 1)
<1> DEFINE last(s) == step[<<f[s \ {n + 1}], seq[n + 1]>>]
           g == [s \in SUBSET (1..(n + 1)) |-> IF n + 1 \in s THEN last(s) ELSE f[s]]
<1>1. ASSUME NEW s \in SUBSET (1..(n + 1)), n + 1 \notin s
      PROVE  s \in SUBSET (1..n)
  BY <1>1
<1>2. ASSUME NEW s \in SUBSET (1..(n + 1)), n + 1 \in s
      PROVE  s \ {n + 1} \in SUBSET (1..n) /\ last(s) \in S
  <2>1. s \ {n + 1} \in SUBSET (1..n)
    OBVIOUS
  <2>2. f[s \ {n + 1}] \in S
    BY <2>1
  <2>3. <<f[s \ {n + 1}], seq[n + 1]>> \in S \X C
    BY <2>2
  <2>4. QED
    BY <2>1, <2>3
<1>3. g \in [SUBSET (1..(n + 1)) -> S]
  <2> HIDE DEF last
  <2>1. QED
    BY <1>1, <1>2
<1>4. ASSUME NEW s \in SUBSET (1..(n + 1))
      PROVE  g[s] = IF s = {} THEN base ELSE step[<<g[s \ {Max(s)}], seq[Max(s)]>>]
  <2>1. CASE n + 1 \in s
    <3>1. Max(s) = n + 1 /\ s # {}
      BY <2>1, LastPosition
    <3>2. s \ {n + 1} \in SUBSET (1..(n + 1)) /\ n + 1 \notin s \ {n + 1}
      BY <1>2, <2>1
    <3>3. g[s \ {n + 1}] = f[s \ {n + 1}]
      BY <3>2
    <3>4. g[s] = last(s)
      BY <2>1
    <3> HIDE DEF g
    <3>5. QED
      BY <3>1, <3>3, <3>4
  <2>2. CASE n + 1 \notin s
    <3>1. s \in SUBSET (1..n)
      BY <1>1, <2>2
    <3>2. g[s] = f[s]
      BY <2>2
    <3>3. s # {} => g[s \ {Max(s)}] = f[s \ {Max(s)}]
      BY <2>2
    <3> HIDE DEF g
    <3>4. QED
      BY <3>1, <3>2, <3>3 DEF Folds
  <2>3. QED
    BY <2>1, <2>2
<1> HIDE DEF g
<1>5. QED
  BY <1>3, <1>4 DEF Folds

LEMMA FoldExists ==
    ASSUME NEW S, NEW C, NEW base \in S, NEW step \in [S \X C -> S], NEW seq \in Seq(C)
    PROVE  \E f \in [SUBSET (1..Len(seq)) -> S] : Folds(seq, base, step, f, Len(seq))
<1> DEFINE P(m) == \E f \in [SUBSET (1..m) -> S] : Folds(seq, base, step, f, m)
           I == {m \in 0..Len(seq) : P(m)}
<1>1. Len(seq) \in Nat
  BY LenProperties
<1>2. P(0)
  <2> DEFINE f == [s \in SUBSET (1..0) |-> base]
  <2>1. f \in [SUBSET (1..0) -> S]
    OBVIOUS
  <2>2. \A s \in SUBSET (1..0) : s = {} /\ f[s] = base
    OBVIOUS
  <2> HIDE DEF f
  <2>3. Folds(seq, base, step, f, 0)
    BY <2>2 DEF Folds
  <2>4. QED
    BY <2>1, <2>3
<1>3. ASSUME NEW k \in 1..Len(seq), P(k - 1) PROVE P(k)
  <2>1. k - 1 \in Nat /\ (k - 1) + 1 = k /\ seq[k] \in C
    BY <1>1, ElementOfSeq
  <2>2. PICK f \in [SUBSET (1..(k - 1)) -> S] : Folds(seq, base, step, f, k - 1)
    BY <1>3
  <2>3. \E g \in [SUBSET (1..((k - 1) + 1)) -> S] : Folds(seq, base, step, g, (k - 1) + 1)
    BY <2>1, <2>2, FoldExtends
  <2>4. QED
    BY <2>1, <2>3
<1>4. 0 \in I
  <2> HIDE DEF P
  <2>1. 0 \in 0..Len(seq)
    BY <1>1
  <2>2. QED
    BY <1>2, <2>1
<1>5. \A k \in 1..Len(seq) : k - 1 \in I => k \in I
  <2> HIDE DEF P
  <2>1. QED
    BY <1>3
<1> HIDE DEF I
<1>6. Len(seq) \in I
  <2>1. \A k \in 0..Len(seq) : k \in I
    BY <1>1, <1>4, <1>5, InductionUpTo
  <2>2. QED
    BY <1>1, <2>1
<1>7. QED
  BY <1>6 DEF I

LEMMA FoldTyped ==
    ASSUME NEW S, NEW n \in Nat, NEW f, f[{}] \in S,
           \A s \in SUBSET (1..n) : s # {} /\ f[s \ {Max(s)}] \in S => f[s] \in S
    PROVE  \A s \in SUBSET (1..n) : f[s] \in S
<1> DEFINE I == {m \in 0..n : \A s \in SUBSET (1..n) : s \subseteq 1..m => f[s] \in S}
<1>1. 0 \in I
  <2>1. ASSUME NEW s \in SUBSET (1..n), s \subseteq 1..0 PROVE f[s] \in S
    <3>1. s = {}
      BY <2>1
    <3>2. QED
      BY <3>1
  <2>2. QED
    BY <2>1
<1>2. ASSUME NEW k \in 1..n, k - 1 \in I PROVE k \in I
  <2> SUFFICES ASSUME NEW s \in SUBSET (1..n), s \subseteq 1..k, s # {} PROVE f[s] \in S
    OBVIOUS
  <2>1. k - 1 \in Nat /\ (k - 1) + 1 = k
    OBVIOUS
  <2>2. s \ {Max(s)} \in SUBSET (1..(k - 1))
    BY <2>1, LastPosition
  <2>3. s \ {Max(s)} \in SUBSET (1..n)
    OBVIOUS
  <2>4. f[s \ {Max(s)}] \in S
    BY <1>2, <2>2, <2>3
  <2>5. QED
    BY <2>4
<1> HIDE DEF I
<1>3. n \in I
  BY <1>1, <1>2, InductionUpTo
<1>4. QED
  BY <1>3 DEF I

\* The values that such a fold goes through, one for each position.
Steps(seq, base, step, g, n, result) ==
    /\ g[0] = base /\ g[n] = result
    /\ \A k \in 1..n : g[k] = step[<<g[k - 1], seq[k]>>]

LEMMA FoldSteps ==
    ASSUME NEW S, NEW base, NEW step, NEW seq, NEW n \in Nat,
           NEW f \in [SUBSET (1..n) -> S], Folds(seq, base, step, f, n)
    PROVE  \E g \in [0..n -> S] : Steps(seq, base, step, g, n, f[1..n])
<1> DEFINE g == [k \in 0..n |-> f[1..k]]
<1>1. g \in [0..n -> S]
  <2>1. \A k \in 0..n : 1..k \in SUBSET (1..n)
    OBVIOUS
  <2>2. QED
    BY <2>1
<1>2. g[0] = base /\ g[n] = f[1..n]
  <2>1. 1..0 = {} /\ {} \in SUBSET (1..n)
    OBVIOUS
  <2>2. f[1..0] = base
    BY <2>1 DEF Folds
  <2>3. QED
    BY <2>2
<1>3. ASSUME NEW k \in 1..n PROVE g[k] = step[<<g[k - 1], seq[k]>>]
  <2>1. /\ 1..k \in SUBSET (1..n) /\ 1..k # {}
        /\ Max(1..k) = k /\ (1..k) \ {k} = 1..(k - 1)
    BY FirstPositions
  <2>2. f[1..k] = step[<<f[(1..k) \ {k}], seq[k]>>]
    BY <2>1 DEF Folds
  <2>3. g[k] = f[1..k] /\ g[k - 1] = f[1..(k - 1)]
    OBVIOUS
  <2>4. QED
    BY <2>1, <2>2, <2>3
<1> HIDE DEF g
<1>4. QED
  BY <1>1, <1>2, <1>3 DEF Steps

\* The same, for a function of which only its turns are known.
LEMMA FoldRuns ==
    ASSUME NEW S, NEW C, NEW base \in S, NEW step \in [S \X C -> S], NEW seq \in Seq(C),
           NEW f, f = [s \in SUBSET (1..Len(seq)) |-> f[s]], f[{}] = base,
           \A s \in SUBSET (1..Len(seq)) :
              s # {} /\ f[s \ {Max(s)}] \in S => f[s] = step[<<f[s \ {Max(s)}], seq[Max(s)]>>]
    PROVE  \E g \in [0..Len(seq) -> S] :
              Steps(seq, base, step, g, Len(seq), f[1..Len(seq)])
<1> DEFINE n == Len(seq)
<1>1. n \in Nat
  BY LenProperties
<1>2. ASSUME NEW s \in SUBSET (1..n), s # {}, f[s \ {Max(s)}] \in S
      PROVE  f[s] \in S
  <2>1. seq[Max(s)] \in C
    <3>1. Max(s) \in 1..n
      BY <1>1, <1>2, MaxOfPositions
    <3>2. QED
      BY <3>1, ElementOfSeq
  <2>2. <<f[s \ {Max(s)}], seq[Max(s)]>> \in S \X C
    BY <1>2, <2>1
  <2>3. QED
    BY <1>2, <2>2
<1> HIDE DEF n
<1>3. \A s \in SUBSET (1..n) : f[s] \in S
  BY <1>1, <1>2, FoldTyped
<1>4. f \in [SUBSET (1..n) -> S]
  BY <1>3 DEF n
<1>5. Folds(seq, base, step, f, n)
  BY <1>3 DEF Folds, n
<1>6. \E g \in [0..n -> S] : Steps(seq, base, step, g, n, f[1..n])
  BY <1>1, <1>4, <1>5, FoldSteps
<1>7. QED
  BY <1>6 DEF n
=============================================================================
