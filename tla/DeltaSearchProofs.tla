-------------------------- MODULE DeltaSearchProofs --------------------------
(***************************************************************************)
(* What is proved of DeltaSearch, for any files and any queries: the       *)
(* tokenizer cuts where it should, and a file that the trigrams hide       *)
(* lacks a run of the pattern.                                             *)
(***************************************************************************)
EXTENDS DeltaSearch, FoldProofs

Text == Seq(Symbols)

-----------------------------------------------------------------------------
(***************************************************************************)
(* A word in a text, position by position.                                 *)
(***************************************************************************)
IsAt(word, text, n) ==
    /\ n \in Nat /\ n + Len(word) <= Len(text)
    /\ \A i \in 1..Len(word) : text[n + i] = word[i]

LEMMA SubSeqIsAt ==
    ASSUME NEW S, NEW word \in Seq(S), NEW text \in Seq(S), NEW n \in Nat,
           n + Len(word) <= Len(text)
    PROVE  SubSeq(text, n + 1, n + Len(word)) = word <=> IsAt(word, text, n)
<1> DEFINE len == Len(word)
           sub == SubSeq(text, n + 1, n + len)
<1>1. len \in Nat /\ Len(text) \in Nat /\ DOMAIN word = 1..len
  BY LenProperties
<1>2. /\ sub \in Seq(S) /\ Len(sub) = len
      /\ \A i \in 1..len : sub[i] = text[n + i]
  <2>1. n + 1 \in 1..(Len(text) + 1) /\ n + len \in ((n + 1) - 1)..Len(text)
    BY <1>1
  <2>2. /\ sub \in Seq(S)
        /\ Len(sub) = (n + len) - (n + 1) + 1
        /\ \A i \in 1..((n + len) - (n + 1) + 1) : sub[i] = text[(n + 1) + i - 1]
    BY <2>1, SubSeqProperties
  <2>3. (n + len) - (n + 1) + 1 = len
    BY <1>1
  <2>4. \A i \in 1..len : (n + 1) + i - 1 = n + i
    BY <1>1
  <2> HIDE DEF sub
  <2>5. QED
    BY <2>2, <2>3, <2>4
<1> HIDE DEF sub
<1>3. sub = word <=> \A i \in 1..len : sub[i] = word[i]
  BY <1>1, <1>2, SeqEqual
<1>4. QED
  BY <1>2, <1>3 DEF IsAt, sub

LEMMA OccursAt ==
    ASSUME NEW S, NEW word \in Seq(S), NEW text \in Seq(S)
    PROVE  Occurs(word, text) <=> \E n \in Nat : IsAt(word, text, n)
<1>1. Len(word) \in Nat /\ Len(text) \in Nat
  BY LenProperties
<1>2. ASSUME Occurs(word, text) PROVE \E n \in Nat : IsAt(word, text, n)
  <2>1. PICK i \in 0..(Len(text) - Len(word)) : SubSeq(text, i + 1, i + Len(word)) = word
    BY <1>2 DEF Occurs
  <2>2. i \in Nat /\ i + Len(word) <= Len(text)
    BY <1>1
  <2>3. QED
    BY <2>1, <2>2, SubSeqIsAt
<1>3. ASSUME NEW n \in Nat, IsAt(word, text, n) PROVE Occurs(word, text)
  <2>1. n + Len(word) <= Len(text) /\ n \in 0..(Len(text) - Len(word))
    BY <1>1, <1>3 DEF IsAt
  <2>2. SubSeq(text, n + 1, n + Len(word)) = word
    BY <1>3, <2>1, SubSeqIsAt
  <2>3. QED
    BY <2>1, <2>2 DEF Occurs
<1>4. QED
  BY <1>2, <1>3

LEMMA OccursWithin ==
    ASSUME NEW S, NEW u \in Seq(S), NEW v \in Seq(S), NEW w \in Seq(S),
           Occurs(u, v), Occurs(v, w)
    PROVE  Occurs(u, w)
<1>1. Len(u) \in Nat /\ Len(v) \in Nat /\ Len(w) \in Nat
  BY LenProperties
<1>2. PICK m \in Nat : IsAt(u, v, m)
  BY OccursAt
<1>3. PICK n \in Nat : IsAt(v, w, n)
  BY OccursAt
<1>4. m + n \in Nat /\ (m + n) + Len(u) <= Len(w)
  BY <1>1, <1>2, <1>3 DEF IsAt
<1>5. ASSUME NEW i \in 1..Len(u) PROVE w[(m + n) + i] = u[i]
  <2>1. m + i \in 1..Len(v) /\ n + (m + i) = (m + n) + i
    BY <1>1, <1>2 DEF IsAt
  <2>2. QED
    BY <1>2, <1>3, <2>1 DEF IsAt
<1>6. QED
  BY <1>4, <1>5, OccursAt DEF IsAt

LEMMA OccursInConcat ==
    ASSUME NEW S, NEW s \in Seq(S), NEW t \in Seq(S)
    PROVE  s \o t \in Seq(S) /\ Occurs(s, s \o t) /\ Occurs(t, s \o t)
<1>1. /\ Len(s) \in Nat /\ Len(t) \in Nat
      /\ s \o t \in Seq(S) /\ Len(s \o t) = Len(s) + Len(t)
      /\ \A i \in 1..(Len(s) + Len(t)) :
            (s \o t)[i] = IF i <= Len(s) THEN s[i] ELSE t[i - Len(s)]
  BY LenProperties, ConcatProperties
<1> DEFINE both == s \o t
<1> HIDE DEF both
<1>2. IsAt(s, both, 0)
  <2>1. \A i \in 1..Len(s) : 0 + i \in 1..(Len(s) + Len(t)) /\ 0 + i = i /\ i <= Len(s)
    BY <1>1
  <2>2. QED
    BY <1>1, <2>1 DEF IsAt, both
<1>3. IsAt(t, both, Len(s))
  <2>1. \A i \in 1..Len(t) : /\ Len(s) + i \in 1..(Len(s) + Len(t))
                             /\ ~(Len(s) + i <= Len(s)) /\ (Len(s) + i) - Len(s) = i
    BY <1>1
  <2>2. QED
    BY <1>1, <2>1 DEF IsAt, both
<1>4. both \in Seq(S)
  BY <1>1 DEF both
<1>5. Occurs(s, both) /\ Occurs(t, both)
  BY <1>1, <1>2, <1>3, <1>4, OccursAt
<1>6. QED
  BY <1>1, <1>5 DEF both

\* Each of the sequences is in the flat one.
LEMMA OccursInFlat ==
    ASSUME NEW S, NEW seqs \in Seq(Seq(S)), NEW i \in 1..Len(seqs)
    PROVE  Occurs(seqs[i], FlattenSeq(seqs))
<1>1. Len(seqs) \in Nat /\ \A k \in 1..Len(seqs) : seqs[k] \in Seq(S)
  BY LenProperties, ElementOfSeq
<1>2. PICK f \in [1..Len(seqs) -> Seq(S)] :
          Flat(seqs, f, Len(seqs)) /\ FlattenSeq(seqs) = f[Len(seqs)]
  BY <1>1, EmptySeq, FlattenTrace
<1> DEFINE I == {k \in 0..Len(seqs) : i <= k => Occurs(seqs[i], f[k])}
<1>3. 0 \in I
  BY <1>1
<1>4. ASSUME NEW k \in 1..Len(seqs), k - 1 \in I PROVE k \in I
  <2> SUFFICES ASSUME i <= k PROVE Occurs(seqs[i], f[k])
    BY <1>1
  <2>1. f[k] = IF k = 1 THEN seqs[k] ELSE f[k - 1] \o seqs[k]
    BY <1>2 DEF Flat
  <2>2. CASE k = 1
    <3>1. i = k /\ f[k] = seqs[i]
      BY <2>1, <2>2
    <3>2. <<>> \in Seq(S) /\ <<>> \o seqs[i] = seqs[i]
      BY <1>1, ConcatEmptySeq
    <3>3. Occurs(seqs[i], <<>> \o seqs[i])
      BY <1>1, <3>2, OccursInConcat
    <3>4. QED
      BY <3>1, <3>2, <3>3
  <2>3. CASE k # 1
    <3>1. k - 1 \in 1..Len(seqs) /\ f[k - 1] \in Seq(S) /\ seqs[k] \in Seq(S)
      <4>1. k - 1 \in 1..Len(seqs)
        BY <1>1, <2>3
      <4>2. QED
        BY <1>1, <1>2, <4>1
    <3>2. /\ f[k] \in Seq(S)
          /\ Occurs(f[k - 1], f[k]) /\ Occurs(seqs[k], f[k])
      BY <2>1, <2>3, <3>1, OccursInConcat
    <3>3. CASE i = k
      BY <3>2, <3>3
    <3>4. CASE i # k
      <4>1. Occurs(seqs[i], f[k - 1])
        BY <1>4, <3>4
      <4>2. QED
        BY <1>1, <3>1, <3>2, <4>1, OccursWithin
    <3>5. QED
      BY <3>3, <3>4
  <2>4. QED
    BY <2>2, <2>3
<1> HIDE DEF I
<1>5. \A k \in 0..Len(seqs) : k \in I
  BY <1>1, <1>3, <1>4, InductionUpTo
<1>6. Len(seqs) \in 0..Len(seqs) /\ i <= Len(seqs)
  BY <1>1
<1>7. QED
  BY <1>2, <1>5, <1>6 DEF I

LEMMA TrigramsOccur ==
    ASSUME NEW S, NEW text \in Seq(S), NEW data \in Seq(S), Occurs(text, data)
    PROVE  ExtractTrigrams(text) \subseteq ExtractTrigrams(data)
<1>1. Len(text) \in Nat /\ Len(data) \in Nat
  BY LenProperties
<1>2. SUFFICES ASSUME NEW i \in 1..(Len(text) - 2)
               PROVE  SubSeq(text, i, i + 2) \in ExtractTrigrams(data)
  BY DEF ExtractTrigrams
<1>3. PICK n \in Nat : IsAt(text, data, n)
  BY OccursAt
<1>4. n + Len(text) <= Len(data) /\ \A k \in 1..Len(text) : data[n + k] = text[k]
  BY <1>3 DEF IsAt
<1>5. n + i \in 1..(Len(data) - 2)
  BY <1>1, <1>4
<1>6. SubSeq(data, n + i, (n + i) + 2) = SubSeq(text, i, i + 2)
  <2> DEFINE a == SubSeq(data, n + i, (n + i) + 2)
             b == SubSeq(text, i, i + 2)
  <2>1. a \in Seq(S) /\ Len(a) = 3 /\ \A k \in 1..3 : a[k] = data[(n + i) + k - 1]
    <3>1. /\ n + i \in 1..(Len(data) + 1) /\ (n + i) + 2 \in ((n + i) - 1)..Len(data)
          /\ ((n + i) + 2) - (n + i) + 1 = 3
      BY <1>1, <1>5
    <3>2. QED
      BY <3>1, SubSeqProperties
  <2>2. b \in Seq(S) /\ Len(b) = 3 /\ \A k \in 1..3 : b[k] = text[i + k - 1]
    <3>1. /\ i \in 1..(Len(text) + 1) /\ i + 2 \in (i - 1)..Len(text)
          /\ (i + 2) - i + 1 = 3
      BY <1>1
    <3>2. QED
      BY <3>1, SubSeqProperties
  <2> HIDE DEF a, b
  <2>3. \A k \in 1..3 : i + k - 1 \in 1..Len(text) /\ (n + i) + k - 1 = n + (i + k - 1)
    BY <1>1
  <2>4. \A k \in 1..3 : a[k] = b[k]
    BY <1>4, <2>1, <2>2, <2>3
  <2>5. a = b
    BY <2>1, <2>2, <2>4, SeqEqual
  <2>6. QED
    BY <2>5 DEF a, b
<1>7. QED
  BY <1>5, <1>6 DEF ExtractTrigrams

-----------------------------------------------------------------------------
(***************************************************************************)
(* The folds of the model, step by step.                                   *)
(***************************************************************************)
Atom == [char : Symbols, literal : BOOLEAN]

ParseState == [atoms : Seq(Atom), escaped : BOOLEAN]

LEMMA ReadAtomTyped ==
    ASSUME NEW s \in ParseState, NEW c \in Symbols
    PROVE  ReadAtom(s, c) \in ParseState
<1>1. /\ s = [atoms |-> s.atoms, escaped |-> s.escaped]
      /\ s.atoms \in Seq(Atom) /\ s.escaped \in BOOLEAN
  BY DEF ParseState
<1>2. Char(c) \in Atom /\ [char |-> c, literal |-> c \notin {"?", "|"}] \in Atom
  BY DEF Atom, Char
<1>3. /\ Append(s.atoms, Char(c)) \in Seq(Atom)
      /\ Append(s.atoms, [char |-> c, literal |-> c \notin {"?", "|"}]) \in Seq(Atom)
  BY <1>1, <1>2, AppendProperties
<1>4. QED
  BY <1>1, <1>3 DEF ReadAtom, ParseState

LEMMA ParseSteps ==
    ASSUME NEW re \in Text
    PROVE  \E g \in [0..Len(re) -> ParseState] :
              /\ g[0] = [atoms |-> <<>>, escaped |-> FALSE]
              /\ g[Len(re)] = Parse(re)
              /\ \A k \in 1..Len(re) : g[k] = ReadAtom(g[k - 1], re[k])
<1> DEFINE n == Len(re)
           base == [atoms |-> <<>>, escaped |-> FALSE]
           step == [x \in ParseState \X Symbols |-> ReadAtom(x[1], x[2])]
           R(f) == f = [s \in SUBSET (DOMAIN re) |->
                           IF s = {} THEN base ELSE ReadAtom(f[s \ {Max(s)}], re[Max(s)])]
           iter == CHOOSE f : R(f)
<1>1. /\ n \in Nat /\ DOMAIN re = 1..n /\ \A k \in 1..n : re[k] \in Symbols
      /\ base \in ParseState /\ step \in [ParseState \X Symbols -> ParseState]
  <2>1. base \in ParseState
    BY EmptySeq DEF ParseState
  <2>2. QED
    BY <2>1, ReadAtomTyped, LenProperties, ElementOfSeq DEF Text
<1>2. Parse(re) = iter[1..n]
  BY <1>1 DEF Parse, FoldLeft, MapThenFoldSet
<1>3. \A p \in ParseState, c \in Symbols : step[<<p, c>>] = ReadAtom(p, c)
  OBVIOUS
<1> HIDE DEF n, base, step, iter
<1>4. \A s \in SUBSET (1..n) : s # {} => re[Max(s)] \in Symbols /\ s \ {Max(s)} \in SUBSET (1..n)
  BY <1>1, MaxOfPositions
<1>5. \E f : R(f)
  <2>1. PICK f \in [SUBSET (1..n) -> ParseState] : Folds(re, base, step, f, n)
    BY <1>1, FoldExists DEF n, Text
  <2>2. \A s \in SUBSET (1..n) :
           f[s] = IF s = {} THEN base ELSE ReadAtom(f[s \ {Max(s)}], re[Max(s)])
    BY <1>3, <1>4, <2>1 DEF Folds
  <2>3. QED
    BY <1>1, <2>1, <2>2
<1>6. R(iter)
  <2> HIDE DEF R
  <2>1. QED
    BY <1>5 DEF iter
<1>7. \A s \in SUBSET (1..n) :
         iter[s] = IF s = {} THEN base ELSE ReadAtom(iter[s \ {Max(s)}], re[Max(s)])
  BY <1>1, <1>6
<1>8. iter = [s \in SUBSET (1..n) |-> iter[s]]
  BY <1>1, <1>6
<1> HIDE DEF R
<1>9. \A s \in SUBSET (1..n) :
         s # {} /\ iter[s \ {Max(s)}] \in ParseState
            => iter[s] = step[<<iter[s \ {Max(s)}], re[Max(s)]>>]
  BY <1>3, <1>4, <1>7
<1>10. PICK g \in [0..n -> ParseState] : Steps(re, base, step, g, n, iter[1..n])
  <2>1. iter[{}] = base /\ re \in Seq(Symbols)
    BY <1>7 DEF Text
  <2>2. QED
    BY <1>1, <1>8, <1>9, <2>1, FoldRuns DEF n
<1>11. \A k \in 1..n : g[k - 1] \in ParseState
  BY <1>1, <1>10
<1>12. QED
  BY <1>1, <1>2, <1>3, <1>10, <1>11 DEF n, base, Steps

LiteralState == [literals : SUBSET Text, current : Text, escaped : BOOLEAN]

LEMMA EndLiteralTyped ==
    ASSUME NEW s \in LiteralState
    PROVE  EndLiteral(s) \in LiteralState
<1>1. /\ s = [literals |-> s.literals, current |-> s.current, escaped |-> s.escaped]
      /\ s.literals \in SUBSET Text /\ s.current \in Text /\ s.escaped \in BOOLEAN
  BY DEF LiteralState
<1>2. <<>> \in Text
  BY EmptySeq DEF Text
<1>3. QED
  BY <1>1, <1>2 DEF EndLiteral, LiteralState

LEMMA ReadPatternTyped ==
    ASSUME NEW s \in LiteralState, NEW c \in Symbols
    PROVE  ReadPattern(s, c) \in LiteralState
<1>1. /\ s = [literals |-> s.literals, current |-> s.current, escaped |-> s.escaped]
      /\ s.literals \in SUBSET Text /\ s.current \in Text /\ s.escaped \in BOOLEAN
  BY DEF LiteralState
<1>2. Append(s.current, c) \in Text /\ <<>> \in Text
  BY <1>1, AppendProperties, EmptySeq DEF Text
<1>3. QED
  BY <1>1, <1>2 DEF ReadPattern, EndLiteral, LiteralState

LEMMA LiteralSteps ==
    ASSUME NEW pattern \in Text
    PROVE  \E g \in [0..Len(pattern) -> LiteralState] :
              /\ g[0] = NoLiterals
              /\ ExtractLiterals(pattern) = EndLiteral(g[Len(pattern)]).literals
              /\ \A k \in 1..Len(pattern) : g[k] = ReadPattern(g[k - 1], pattern[k])
<1> DEFINE n == Len(pattern)
           base == NoLiterals
           step == [x \in LiteralState \X Symbols |-> ReadPattern(x[1], x[2])]
           R(f) == f = [s \in SUBSET (DOMAIN pattern) |->
                           IF s = {} THEN base ELSE ReadPattern(f[s \ {Max(s)}], pattern[Max(s)])]
           iter == CHOOSE f : R(f)
<1>1. /\ n \in Nat /\ DOMAIN pattern = 1..n /\ \A k \in 1..n : pattern[k] \in Symbols
      /\ base \in LiteralState /\ step \in [LiteralState \X Symbols -> LiteralState]
  <2>1. base \in LiteralState
    BY EmptySeq DEF LiteralState, NoLiterals, Text
  <2>2. QED
    BY <2>1, ReadPatternTyped, LenProperties, ElementOfSeq DEF Text
<1>2. ExtractLiterals(pattern) = EndLiteral(iter[1..n]).literals
  BY <1>1 DEF ExtractLiterals, FoldLeft, MapThenFoldSet
<1>3. \A p \in LiteralState, c \in Symbols : step[<<p, c>>] = ReadPattern(p, c)
  OBVIOUS
<1> HIDE DEF n, base, step, iter
<1>4. \A s \in SUBSET (1..n) : s # {} => pattern[Max(s)] \in Symbols /\ s \ {Max(s)} \in SUBSET (1..n)
  BY <1>1, MaxOfPositions
<1>5. \E f : R(f)
  <2>1. PICK f \in [SUBSET (1..n) -> LiteralState] : Folds(pattern, base, step, f, n)
    BY <1>1, FoldExists DEF n, Text
  <2>2. \A s \in SUBSET (1..n) :
           f[s] = IF s = {} THEN base ELSE ReadPattern(f[s \ {Max(s)}], pattern[Max(s)])
    BY <1>3, <1>4, <2>1 DEF Folds
  <2>3. QED
    BY <1>1, <2>1, <2>2
<1>6. R(iter)
  <2> HIDE DEF R
  <2>1. QED
    BY <1>5 DEF iter
<1>7. \A s \in SUBSET (1..n) :
         iter[s] = IF s = {} THEN base ELSE ReadPattern(iter[s \ {Max(s)}], pattern[Max(s)])
  BY <1>1, <1>6
<1>8. iter = [s \in SUBSET (1..n) |-> iter[s]]
  BY <1>1, <1>6
<1> HIDE DEF R
<1>9. \A s \in SUBSET (1..n) :
         s # {} /\ iter[s \ {Max(s)}] \in LiteralState
            => iter[s] = step[<<iter[s \ {Max(s)}], pattern[Max(s)]>>]
  BY <1>3, <1>4, <1>7
<1>10. PICK g \in [0..n -> LiteralState] : Steps(pattern, base, step, g, n, iter[1..n])
  <2>1. iter[{}] = base /\ pattern \in Seq(Symbols)
    BY <1>7 DEF Text
  <2>2. QED
    BY <1>1, <1>8, <1>9, <2>1, FoldRuns DEF n
<1>11. \A k \in 1..n : g[k - 1] \in LiteralState
  BY <1>1, <1>10
<1>12. QED
  BY <1>1, <1>2, <1>3, <1>10, <1>11 DEF n, base, Steps

Token == Text \ {<<>>}

TokenState == [tokens : Seq(Token), current : Text, inQuote : BOOLEAN]

LEMMA FlushTyped ==
    ASSUME NEW s \in TokenState
    PROVE  Flush(s) \in TokenState
<1>1. /\ s = [tokens |-> s.tokens, current |-> s.current, inQuote |-> s.inQuote]
      /\ s.tokens \in Seq(Token) /\ s.current \in Text /\ s.inQuote \in BOOLEAN
  BY DEF TokenState
<1>2. s.current # <<>> => Append(s.tokens, s.current) \in Seq(Token)
  <2>1. s.current # <<>> => s.current \in Token
    BY <1>1 DEF Token
  <2>2. QED
    BY <1>1, <2>1, AppendProperties
<1>3. <<>> \in Text
  BY EmptySeq DEF Text
<1>4. QED
  BY <1>1, <1>2, <1>3 DEF Flush, TokenState

LEMMA ReadSymbolTyped ==
    ASSUME NEW s \in TokenState, NEW c \in Symbols
    PROVE  ReadSymbol(s, c) \in TokenState
<1>1. /\ s = [tokens |-> s.tokens, current |-> s.current, inQuote |-> s.inQuote]
      /\ s.tokens \in Seq(Token) /\ s.current \in Text /\ s.inQuote \in BOOLEAN
  BY DEF TokenState
<1>2. Append(s.current, c) \in Text
  BY <1>1, AppendProperties DEF Text
<1>3. QED
  BY <1>1, <1>2, FlushTyped DEF ReadSymbol, TokenState

LEMMA TokenSteps ==
    ASSUME NEW q \in Text
    PROVE  \E g \in [0..Len(q) -> TokenState] :
              /\ g[0] = NoTokens
              /\ TokenizeQuery(q) = Flush(g[Len(q)]).tokens
              /\ \A k \in 1..Len(q) : g[k] = ReadSymbol(g[k - 1], q[k])
<1> DEFINE n == Len(q)
           base == NoTokens
           step == [x \in TokenState \X Symbols |-> ReadSymbol(x[1], x[2])]
           R(f) == f = [s \in SUBSET (DOMAIN q) |->
                           IF s = {} THEN base ELSE ReadSymbol(f[s \ {Max(s)}], q[Max(s)])]
           iter == CHOOSE f : R(f)
<1>1. /\ n \in Nat /\ DOMAIN q = 1..n /\ \A k \in 1..n : q[k] \in Symbols
      /\ base \in TokenState /\ step \in [TokenState \X Symbols -> TokenState]
  <2>1. base \in TokenState
    BY EmptySeq DEF TokenState, NoTokens, Text
  <2>2. QED
    BY <2>1, ReadSymbolTyped, LenProperties, ElementOfSeq DEF Text
<1>2. TokenizeQuery(q) = Flush(iter[1..n]).tokens
  BY <1>1 DEF TokenizeQuery, FoldLeft, MapThenFoldSet
<1>3. \A p \in TokenState, c \in Symbols : step[<<p, c>>] = ReadSymbol(p, c)
  OBVIOUS
<1> HIDE DEF n, base, step, iter
<1>4. \A s \in SUBSET (1..n) : s # {} => q[Max(s)] \in Symbols /\ s \ {Max(s)} \in SUBSET (1..n)
  BY <1>1, MaxOfPositions
<1>5. \E f : R(f)
  <2>1. PICK f \in [SUBSET (1..n) -> TokenState] : Folds(q, base, step, f, n)
    BY <1>1, FoldExists DEF n, Text
  <2>2. \A s \in SUBSET (1..n) :
           f[s] = IF s = {} THEN base ELSE ReadSymbol(f[s \ {Max(s)}], q[Max(s)])
    BY <1>3, <1>4, <2>1 DEF Folds
  <2>3. QED
    BY <1>1, <2>1, <2>2
<1>6. R(iter)
  <2> HIDE DEF R
  <2>1. QED
    BY <1>5 DEF iter
<1>7. \A s \in SUBSET (1..n) :
         iter[s] = IF s = {} THEN base ELSE ReadSymbol(iter[s \ {Max(s)}], q[Max(s)])
  BY <1>1, <1>6
<1>8. iter = [s \in SUBSET (1..n) |-> iter[s]]
  BY <1>1, <1>6
<1> HIDE DEF R
<1>9. \A s \in SUBSET (1..n) :
         s # {} /\ iter[s \ {Max(s)}] \in TokenState
            => iter[s] = step[<<iter[s \ {Max(s)}], q[Max(s)]>>]
  BY <1>3, <1>4, <1>7
<1>10. PICK g \in [0..n -> TokenState] : Steps(q, base, step, g, n, iter[1..n])
  <2>1. iter[{}] = base /\ q \in Seq(Symbols)
    BY <1>7 DEF Text
  <2>2. QED
    BY <1>1, <1>8, <1>9, <2>1, FoldRuns DEF n
<1>11. \A k \in 1..n : g[k - 1] \in TokenState
  BY <1>1, <1>10
<1>12. QED
  BY <1>1, <1>2, <1>3, <1>10, <1>11 DEF n, base, Steps

QueryState == [parts : Seq(Text), files : Seq(Text), repos : Seq(Text), caseSensitive : BOOLEAN]

LEMMA ReadTokenTyped ==
    ASSUME NEW s \in QueryState, NEW c \in Token
    PROVE  ReadToken(s, c) \in QueryState
<1>1. /\ s = [parts |-> s.parts, files |-> s.files, repos |-> s.repos,
              caseSensitive |-> s.caseSensitive]
      /\ s.parts \in Seq(Text) /\ s.files \in Seq(Text) /\ s.repos \in Seq(Text)
      /\ s.caseSensitive \in BOOLEAN
  BY DEF QueryState
<1>2. c \in Text /\ Tail(c) \in Text
  BY HeadTailProperties DEF Token, Text
<1>3. /\ Append(s.parts, c) \in Seq(Text) /\ Append(s.parts, Tail(c)) \in Seq(Text)
      /\ Append(s.files, Tail(c)) \in Seq(Text) /\ Append(s.repos, Tail(c)) \in Seq(Text)
  BY <1>1, <1>2, AppendProperties
<1>4. QED
  BY <1>1, <1>2, <1>3 DEF ReadToken, QueryState

LEMMA QuerySteps ==
    ASSUME NEW tokens \in Seq(Token)
    PROVE  \E g \in [0..Len(tokens) -> QueryState] :
              /\ g[0] = NoQuery
              /\ FoldLeft(ReadToken, NoQuery, tokens) = g[Len(tokens)]
              /\ \A k \in 1..Len(tokens) : g[k] = ReadToken(g[k - 1], tokens[k])
<1> DEFINE n == Len(tokens)
           base == NoQuery
           step == [x \in QueryState \X Token |-> ReadToken(x[1], x[2])]
           R(f) == f = [s \in SUBSET (DOMAIN tokens) |->
                           IF s = {} THEN base ELSE ReadToken(f[s \ {Max(s)}], tokens[Max(s)])]
           iter == CHOOSE f : R(f)
<1>1. /\ n \in Nat /\ DOMAIN tokens = 1..n /\ \A k \in 1..n : tokens[k] \in Token
      /\ base \in QueryState /\ step \in [QueryState \X Token -> QueryState]
  <2>1. base \in QueryState
    BY EmptySeq DEF QueryState, NoQuery, Text
  <2>2. QED
    BY <2>1, ReadTokenTyped, LenProperties, ElementOfSeq
<1>2. FoldLeft(ReadToken, NoQuery, tokens) = iter[1..n]
  BY <1>1 DEF FoldLeft, MapThenFoldSet
<1>3. \A p \in QueryState, c \in Token : step[<<p, c>>] = ReadToken(p, c)
  OBVIOUS
<1> HIDE DEF n, base, step, iter
<1>4. \A s \in SUBSET (1..n) : s # {} => tokens[Max(s)] \in Token /\ s \ {Max(s)} \in SUBSET (1..n)
  BY <1>1, MaxOfPositions
<1>5. \E f : R(f)
  <2>1. PICK f \in [SUBSET (1..n) -> QueryState] : Folds(tokens, base, step, f, n)
    BY <1>1, FoldExists DEF n
  <2>2. \A s \in SUBSET (1..n) :
           f[s] = IF s = {} THEN base ELSE ReadToken(f[s \ {Max(s)}], tokens[Max(s)])
    BY <1>3, <1>4, <2>1 DEF Folds
  <2>3. QED
    BY <1>1, <2>1, <2>2
<1>6. R(iter)
  <2> HIDE DEF R
  <2>1. QED
    BY <1>5 DEF iter
<1>7. \A s \in SUBSET (1..n) :
         iter[s] = IF s = {} THEN base ELSE ReadToken(iter[s \ {Max(s)}], tokens[Max(s)])
  BY <1>1, <1>6
<1>8. iter = [s \in SUBSET (1..n) |-> iter[s]]
  BY <1>1, <1>6
<1> HIDE DEF R
<1>9. \A s \in SUBSET (1..n) :
         s # {} /\ iter[s \ {Max(s)}] \in QueryState
            => iter[s] = step[<<iter[s \ {Max(s)}], tokens[Max(s)]>>]
  BY <1>3, <1>4, <1>7
<1>10. PICK g \in [0..n -> QueryState] : Steps(tokens, base, step, g, n, iter[1..n])
  <2>1. iter[{}] = base /\ tokens \in Seq(Token)
    BY <1>7
  <2>2. QED
    BY <1>1, <1>8, <1>9, <2>1, FoldRuns DEF n
<1>11. \A k \in 1..n : g[k - 1] \in QueryState
  BY <1>1, <1>10
<1>12. QED
  BY <1>1, <1>2, <1>3, <1>10, <1>11 DEF n, base, Steps

-----------------------------------------------------------------------------
(***************************************************************************)
(* The types of what is read from a query.                                 *)
(***************************************************************************)
LEMMA TokensTyped ==
    ASSUME NEW q \in Text
    PROVE  TokenizeQuery(q) \in Seq(Token)
<1>1. PICK g \in [0..Len(q) -> TokenState] : TokenizeQuery(q) = Flush(g[Len(q)]).tokens
  BY TokenSteps
<1>2. Len(q) \in 0..Len(q)
  BY LenProperties DEF Text
<1>3. Flush(g[Len(q)]) \in TokenState
  BY <1>1, <1>2, FlushTyped
<1>4. QED
  BY <1>1, <1>3 DEF TokenState

LEMMA JoinTyped ==
    ASSUME NEW parts \in Seq(Text)
    PROVE  Join(parts) \in Text
<1> DEFINE spaced == [i \in DOMAIN parts |-> IF i = 1 THEN parts[i] ELSE <<Space>> \o parts[i]]
<1>1. Len(parts) \in Nat /\ DOMAIN parts = 1..Len(parts)
  BY LenProperties
<1>2. ASSUME NEW i \in 1..Len(parts)
      PROVE  parts[i] \in Text /\ <<Space>> \o parts[i] \in Text
  <2>1. parts[i] \in Text
    BY <1>1, ElementOfSeq
  <2>2. <<Space>> \in Seq(Symbols)
    <3>1. Space \in Symbols
      BY DEF Symbols
    <3>2. QED
      BY <3>1
  <2>3. QED
    BY <2>1, <2>2, ConcatProperties DEF Text
<1>3. spaced \in [1..Len(parts) -> Text]
  BY <1>1, <1>2
<1>4. spaced \in Seq(Text)
  <2> HIDE DEF spaced
  <2>1. QED
    BY <1>1, <1>3, SeqDef
<1> HIDE DEF spaced
<1>5. FlattenSeq(spaced) \in Text
  BY <1>4, FlattenSeqLists DEF Text
<1>6. QED
  BY <1>5 DEF Join, spaced

LEMMA PatternTyped ==
    ASSUME NEW q \in Text
    PROVE  ParseZoektQuery(q).pattern \in Text
<1> DEFINE tokens == TokenizeQuery(q)
<1>1. tokens \in Seq(Token)
  BY TokensTyped
<1> HIDE DEF tokens
<1>2. PICK g \in [0..Len(tokens) -> QueryState] :
          FoldLeft(ReadToken, NoQuery, tokens) = g[Len(tokens)]
  BY <1>1, QuerySteps
<1>3. Len(tokens) \in 0..Len(tokens)
  BY <1>1, LenProperties
<1>4. g[Len(tokens)].parts \in Seq(Text)
  BY <1>2, <1>3 DEF QueryState
<1>5. ParseZoektQuery(q).pattern = Join(g[Len(tokens)].parts)
  BY <1>2 DEF ParseZoektQuery, tokens
<1>6. QED
  BY <1>4, <1>5, JoinTyped

LEMMA LinesTyped ==
    ASSUME NEW path \in Paths
    PROVE  /\ FileTexts[path] \in Seq(Text)
           /\ DOMAIN FileTexts[path] = 1..Len(FileTexts[path])
           /\ Len(FileTexts[path]) \in Nat
           /\ \A n \in DOMAIN FileTexts[path] : FileTexts[path][n] \in Text
<1>1. FileTexts[path] \in Seq(Text)
  BY DeltaSearchAssumption DEF Text
<1>2. QED
  BY <1>1, LenProperties, ElementOfSeq

LEMMA ScannedLinesExist ==
    ASSUME NEW path \in Paths
    PROVE  ScannedLines(FileTexts[path]) \subseteq DOMAIN FileTexts[path]
<1> DEFINE text == FileTexts[path]
           long == SelectInSeq(text, LAMBDA line : Contains(line, LongMark))
           I == {i \in 1..Len(text) : Contains(text[i], LongMark)}
<1>1. DOMAIN text = 1..Len(text) /\ Len(text) \in Nat
  BY LinesTyped
<1>2. long = 0 \/ long \in 1..Len(text)
  <2>1. long = IF I # {} THEN Min(I) ELSE 0
    BY DEF SelectInSeq
  <2>2. I \subseteq Nat /\ I \subseteq 1..Len(text)
    BY <1>1
  <2> HIDE DEF I, long
  <2>3. ASSUME I # {} PROVE Min(I) \in I
    BY <2>2, <2>3, LeastOfNumbers DEF Min
  <2>4. QED
    BY <2>1, <2>2, <2>3
<1>3. ScannedLines(text) = IF long = 0 THEN DOMAIN text ELSE 1..(long - 1)
  BY DEF ScannedLines
<1> HIDE DEF text, long
<1>4. ScannedLines(text) \subseteq DOMAIN text
  BY <1>1, <1>2, <1>3
<1>5. QED
  BY <1>4 DEF text

\* What a search finds are lines of the files.
LEMMA SearchFindsLines ==
    ASSUME NEW pq, NEW match \in Search(pq)
    PROVE  match[1] \in Paths /\ match[2] \in DOMAIN FileTexts[match[1]]
<1>1. PICK path \in Paths : match \in SearchInFile(path, pq.pattern, ~pq.caseSensitive)
  BY DEF Search, Candidates
<1>2. \E n \in ScannedLines(FileTexts[path]) : match = <<path, n>>
  BY <1>1 DEF SearchInFile
<1>3. QED
  BY <1>2, ScannedLinesExist

-----------------------------------------------------------------------------
(***************************************************************************)
(* extractLiterals reads a pattern as regexp does: what it takes for a     *)
(* literal are characters of the expression, one after the other.          *)
(***************************************************************************)
Spelled(text, atoms, m) ==
    /\ m \in Nat /\ m + Len(text) <= Len(atoms)
    /\ \A i \in 1..Len(text) : atoms[m + i] = Char(text[i])

LEMMA SpelledBefore ==
    ASSUME NEW text \in Text, NEW atoms \in Seq(Atom), NEW atom \in Atom, NEW m \in Nat,
           Spelled(text, atoms, m)
    PROVE  Spelled(text, Append(atoms, atom), m)
<1>1. /\ Len(Append(atoms, atom)) = Len(atoms) + 1
      /\ \A i \in 1..Len(atoms) : Append(atoms, atom)[i] = atoms[i]
      /\ Len(atoms) \in Nat /\ Len(text) \in Nat
  BY AppendProperties, LenProperties DEF Text
<1>2. m + Len(text) <= Len(atoms) /\ \A i \in 1..Len(text) : atoms[m + i] = Char(text[i])
  BY DEF Spelled
<1>3. \A i \in 1..Len(text) : m + i \in 1..Len(atoms)
  BY <1>1, <1>2
<1> DEFINE longer == Append(atoms, atom)
<1> HIDE DEF longer
<1>4. m + Len(text) <= Len(longer) /\ \A i \in 1..Len(text) : longer[m + i] = Char(text[i])
  BY <1>1, <1>2, <1>3 DEF longer
<1>5. QED
  BY <1>4 DEF Spelled, longer

LEMMA SpelledNext ==
    ASSUME NEW text \in Text, NEW atoms \in Seq(Atom), NEW c \in Symbols, NEW m \in Nat,
           Spelled(text, atoms, m), m + Len(text) = Len(atoms)
    PROVE  /\ Spelled(Append(text, c), Append(atoms, Char(c)), m)
           /\ m + Len(Append(text, c)) = Len(Append(atoms, Char(c)))
<1> DEFINE longer == Append(text, c)
           more   == Append(atoms, Char(c))
<1>1. /\ Len(more) = Len(atoms) + 1 /\ more[Len(atoms) + 1] = Char(c)
      /\ \A i \in 1..Len(atoms) : more[i] = atoms[i]
      /\ Len(longer) = Len(text) + 1 /\ longer[Len(text) + 1] = c
      /\ \A i \in 1..Len(text) : longer[i] = text[i]
      /\ Len(atoms) \in Nat /\ Len(text) \in Nat
  <2>1. Char(c) \in Atom
    BY DEF Atom, Char
  <2>2. QED
    BY <2>1, AppendProperties, LenProperties DEF Text
<1> HIDE DEF longer, more
<1>2. \A i \in 1..Len(text) : atoms[m + i] = Char(text[i]) /\ m + i \in 1..Len(atoms)
  BY <1>1 DEF Spelled
<1>3. ASSUME NEW i \in 1..Len(longer) PROVE more[m + i] = Char(longer[i])
  <2>1. CASE i = Len(text) + 1
    <3>1. m + i = Len(atoms) + 1
      <4>1. Len(text) \in Nat /\ Len(atoms) \in Nat
        BY <1>1
      <4>2. QED
        BY <2>1, <4>1
    <3>2. QED
      BY <1>1, <2>1, <3>1
  <2>2. CASE i # Len(text) + 1
    <3>1. i \in 1..Len(text)
      BY <1>1, <2>2
    <3>2. QED
      BY <1>1, <1>2, <3>1
  <2>3. QED
    BY <2>1, <2>2
<1>4. m + Len(longer) = Len(more)
  BY <1>1
<1>5. Spelled(longer, more, m)
  BY <1>1, <1>3, <1>4 DEF Spelled
<1>6. QED
  BY <1>4, <1>5 DEF longer, more

\* The two folds, over the same characters of the pattern.
Together(parsed, read) ==
    /\ parsed.escaped = read.escaped
    /\ \E m \in Nat : /\ Spelled(read.current, parsed.atoms, m)
                      /\ m + Len(read.current) = Len(parsed.atoms)
    /\ \A literal \in read.literals :
          Len(literal) >= 3 /\ \E m \in Nat : Spelled(literal, parsed.atoms, m)

LEMMA NothingSpelled ==
    ASSUME NEW atoms \in Seq(Atom)
    PROVE  \E m \in Nat : Spelled(<<>>, atoms, m) /\ m + Len(<<>>) = Len(atoms)
<1>1. Len(atoms) \in Nat /\ Len(<<>>) = 0
  BY LenProperties, EmptySeq
<1>2. Spelled(<<>>, atoms, Len(atoms))
  BY <1>1 DEF Spelled
<1>3. QED
  BY <1>1, <1>2

LEMMA EndLiteralTogether ==
    ASSUME NEW parsed \in ParseState, NEW read \in LiteralState, Together(parsed, read)
    PROVE  \A literal \in EndLiteral(read).literals :
              /\ literal \in Text /\ Len(literal) >= 3
              /\ \E m \in Nat : Spelled(literal, parsed.atoms, m)
<1>1. read = [literals |-> read.literals, current |-> read.current, escaped |-> read.escaped]
  BY DEF LiteralState
<1>2. /\ read.current \in Text /\ Len(read.current) \in Nat
      /\ read.literals \in SUBSET Text
  BY LenProperties DEF LiteralState, Text
<1>3. EndLiteral(read).literals =
        IF Len(read.current) < 3 THEN read.literals
        ELSE read.literals \union {read.current}
  BY <1>1 DEF EndLiteral
<1>4. QED
  BY <1>2, <1>3 DEF Together

LEMMA ReadTogether ==
    ASSUME NEW parsed \in ParseState, NEW read \in LiteralState, NEW c \in Symbols,
           Together(parsed, read)
    PROVE  Together(ReadAtom(parsed, c), ReadPattern(read, c))
<1> DEFINE parsed1 == ReadAtom(parsed, c)
           read1   == ReadPattern(read, c)
           operator == [char |-> c, literal |-> FALSE]
<1>1. /\ parsed = [atoms |-> parsed.atoms, escaped |-> parsed.escaped]
      /\ parsed.atoms \in Seq(Atom) /\ parsed.escaped \in BOOLEAN
      /\ read = [literals |-> read.literals, current |-> read.current,
                 escaped |-> read.escaped]
      /\ read.literals \in SUBSET Text /\ read.current \in Text
      /\ parsed.escaped = read.escaped
  BY DEF ParseState, LiteralState, Together
<1>2. Char(c) \in Atom /\ operator \in Atom
  BY DEF Atom, Char
<1>3. \A literal \in EndLiteral(read).literals :
         /\ literal \in Text /\ Len(literal) >= 3
         /\ \E m \in Nat : Spelled(literal, parsed.atoms, m)
  BY EndLiteralTogether
<1>4. EndLiteral(read) = [literals |-> EndLiteral(read).literals, current |-> <<>>,
                          escaped |-> read.escaped]
  <2>1. EndLiteral(read) \in LiteralState
    BY EndLiteralTyped
  <2>2. /\ EndLiteral(read).current = <<>>
        /\ EndLiteral(read).escaped = read.escaped
    BY <1>1 DEF EndLiteral
  <2>3. QED
    BY <2>1, <2>2 DEF LiteralState
\* What was spelled before stays spelled.
<1>5. ASSUME NEW atom \in Atom, NEW literals \in SUBSET Text,
             \A literal \in literals :
                Len(literal) >= 3 /\ \E m \in Nat : Spelled(literal, parsed.atoms, m)
      PROVE  \A literal \in literals :
                /\ Len(literal) >= 3
                /\ \E m \in Nat : Spelled(literal, Append(parsed.atoms, atom), m)
  <2> TAKE literal \in literals
  <2>1. PICK m \in Nat : Spelled(literal, parsed.atoms, m)
    BY <1>5
  <2>2. literal \in Text
    OBVIOUS
  <2>3. Spelled(literal, Append(parsed.atoms, atom), m)
    BY <1>1, <2>1, <2>2, SpelledBefore
  <2>4. QED
    BY <1>5, <2>3
\* A character of a literal.
<1>6. ASSUME parsed1 = [atoms |-> Append(parsed.atoms, Char(c)), escaped |-> FALSE],
             read1 = [literals |-> read.literals, current |-> Append(read.current, c),
                      escaped |-> FALSE]
      PROVE  Together(parsed1, read1)
  <2>1. PICK m \in Nat : /\ Spelled(read.current, parsed.atoms, m)
                         /\ m + Len(read.current) = Len(parsed.atoms)
    BY DEF Together
  <2>2. /\ Spelled(Append(read.current, c), Append(parsed.atoms, Char(c)), m)
        /\ m + Len(Append(read.current, c)) = Len(Append(parsed.atoms, Char(c)))
    BY <1>1, <2>1, SpelledNext
  <2>3. \A literal \in read.literals :
           /\ Len(literal) >= 3
           /\ \E k \in Nat : Spelled(literal, Append(parsed.atoms, Char(c)), k)
    BY <1>1, <1>2, <1>5 DEF Together
  <2> HIDE DEF parsed1, read1
  <2>4. QED
    BY <1>6, <2>2, <2>3 DEF Together
\* An atom that ends a literal.
<1>7. ASSUME NEW atom \in Atom,
             parsed1 = [atoms |-> Append(parsed.atoms, atom), escaped |-> FALSE],
             read1 = [EndLiteral(read) EXCEPT !.escaped = FALSE]
      PROVE  Together(parsed1, read1)
  <2>1. /\ read1.literals = EndLiteral(read).literals
        /\ read1.current = <<>> /\ read1.escaped = FALSE
    <3> HIDE DEF read1
    <3>1. QED
      BY <1>4, <1>7
  <2>2. parsed1.atoms = Append(parsed.atoms, atom) /\ parsed1.escaped = FALSE
    <3> HIDE DEF parsed1
    <3>1. QED
      BY <1>7
  <2>3. Append(parsed.atoms, atom) \in Seq(Atom)
    BY <1>1, AppendProperties
  <2>4. \E m \in Nat : /\ Spelled(<<>>, Append(parsed.atoms, atom), m)
                       /\ m + Len(<<>>) = Len(Append(parsed.atoms, atom))
    BY <2>3, NothingSpelled
  <2>5. \A literal \in EndLiteral(read).literals :
           /\ Len(literal) >= 3
           /\ \E k \in Nat : Spelled(literal, Append(parsed.atoms, atom), k)
    <3>1. EndLiteral(read).literals \in SUBSET Text
      BY <1>3
    <3>2. QED
      BY <1>3, <1>5, <3>1
  <2> HIDE DEF parsed1, read1
  <2>6. QED
    BY <2>1, <2>2, <2>4, <2>5 DEF Together
<1>8. CASE read.escaped /\ c \in Meta
  <2>1. parsed1 = [atoms |-> Append(parsed.atoms, Char(c)), escaped |-> FALSE]
    BY <1>1, <1>8 DEF ReadAtom
  <2>2. read1 = [literals |-> read.literals, current |-> Append(read.current, c),
                 escaped |-> FALSE]
    BY <1>1, <1>8 DEF ReadPattern
  <2>3. QED
    BY <1>6, <2>1, <2>2
<1>9. CASE read.escaped /\ c \notin Meta
  <2>1. parsed1 = [atoms |-> Append(parsed.atoms, Char(c)), escaped |-> FALSE]
    BY <1>1, <1>9 DEF ReadAtom
  <2>2. read1 = [EndLiteral(read) EXCEPT !.escaped = FALSE]
    BY <1>1, <1>9 DEF ReadPattern
  <2>3. QED
    BY <1>2, <1>7, <2>1, <2>2
<1>10. CASE ~read.escaped /\ c = "\\"
  <2>1. parsed1 = [atoms |-> parsed.atoms, escaped |-> TRUE]
    BY <1>1, <1>10 DEF ReadAtom
  <2>2. read1 = [literals |-> read.literals, current |-> read.current, escaped |-> TRUE]
    BY <1>1, <1>10 DEF ReadPattern
  <2> HIDE DEF parsed1, read1
  <2>3. Together(parsed1, read1)
    BY <2>1, <2>2 DEF Together
  <2>4. QED
    BY <2>3 DEF parsed1, read1
<1>11. CASE ~read.escaped /\ c \in Meta
  <2>1. c # "\\" /\ c \in {"?", "|"}
    BY <1>11 DEF Meta
  <2>2. parsed1 = [atoms |-> Append(parsed.atoms, operator), escaped |-> FALSE]
    BY <1>1, <1>11, <2>1 DEF ReadAtom
  <2>3. read1 = [EndLiteral(read) EXCEPT !.escaped = FALSE]
    BY <1>1, <1>11, <2>1 DEF ReadPattern
  <2>4. QED
    BY <1>2, <1>7, <2>2, <2>3
<1>12. CASE ~read.escaped /\ c # "\\" /\ c \notin Meta
  <2>1. c \notin {"?", "|"}
    BY <1>12 DEF Meta
  <2>2. parsed1 = [atoms |-> Append(parsed.atoms, Char(c)), escaped |-> FALSE]
    BY <1>1, <1>12, <2>1 DEF ReadAtom, Char
  <2>3. read1 = [literals |-> read.literals, current |-> Append(read.current, c),
                 escaped |-> FALSE]
    BY <1>1, <1>12 DEF ReadPattern
  <2>4. QED
    BY <1>6, <2>2, <2>3
<1>13. QED
  BY <1>8, <1>9, <1>10, <1>11, <1>12

LEMMA LiteralsAreSpelled ==
    ASSUME NEW pattern \in Text
    PROVE  /\ Parse(pattern).atoms \in Seq(Atom)
           /\ \A literal \in ExtractLiterals(pattern) :
                 /\ literal \in Text /\ Len(literal) >= 3
                 /\ \E m \in Nat : Spelled(literal, Parse(pattern).atoms, m)
<1> DEFINE n == Len(pattern)
<1>1. n \in Nat /\ \A k \in 1..n : pattern[k] \in Symbols
  BY LenProperties, ElementOfSeq DEF Text
<1>2. PICK parsed \in [0..n -> ParseState] :
          /\ parsed[0] = [atoms |-> <<>>, escaped |-> FALSE]
          /\ parsed[n] = Parse(pattern)
          /\ \A k \in 1..n : parsed[k] = ReadAtom(parsed[k - 1], pattern[k])
  BY ParseSteps
<1>3. PICK read \in [0..n -> LiteralState] :
          /\ read[0] = NoLiterals
          /\ ExtractLiterals(pattern) = EndLiteral(read[n]).literals
          /\ \A k \in 1..n : read[k] = ReadPattern(read[k - 1], pattern[k])
  BY LiteralSteps
<1> DEFINE I == {k \in 0..n : Together(parsed[k], read[k])}
<1> HIDE DEF n
<1>4. 0 \in I
  <2>1. \E m \in Nat : Spelled(<<>>, <<>>, m) /\ m + Len(<<>>) = Len(<<>>)
    BY EmptySeq, NothingSpelled
  <2>2. Together([atoms |-> <<>>, escaped |-> FALSE], NoLiterals)
    BY <2>1 DEF Together, NoLiterals
  <2>3. Together(parsed[0], read[0])
    BY <1>2, <1>3, <2>2
  <2>4. 0 \in 0..n
    BY <1>1
  <2>5. QED
    BY <2>3, <2>4
<1>5. ASSUME NEW k \in 1..n, k - 1 \in I PROVE k \in I
  <2>1. k - 1 \in 0..n /\ k \in 0..n /\ pattern[k] \in Symbols
    BY <1>1
  <2>2. parsed[k - 1] \in ParseState /\ read[k - 1] \in LiteralState
    BY <2>1
  <2>3. Together(ReadAtom(parsed[k - 1], pattern[k]), ReadPattern(read[k - 1], pattern[k]))
    BY <1>5, <2>1, <2>2, ReadTogether
  <2>4. QED
    BY <1>2, <1>3, <2>1, <2>3
<1> HIDE DEF I
<1>6. n \in I
  <2>1. \A k \in 0..n : k \in I
    BY <1>1, <1>4, <1>5, InductionUpTo
  <2>2. QED
    BY <1>1, <2>1
<1>7. /\ parsed[n] \in ParseState /\ read[n] \in LiteralState
      /\ Together(parsed[n], read[n])
  BY <1>1, <1>6 DEF I
<1>8. \A literal \in EndLiteral(read[n]).literals :
         /\ literal \in Text /\ Len(literal) >= 3
         /\ \E m \in Nat : Spelled(literal, parsed[n].atoms, m)
  BY <1>7, EndLiteralTogether
<1>9. QED
  BY <1>2, <1>3, <1>7, <1>8 DEF ParseState

-----------------------------------------------------------------------------
(***************************************************************************)
(* A literal is in a run between two operators, and a file that has the    *)
(* run has the trigrams of the literal.                                    *)
(***************************************************************************)
\* The cuts next to a position that is not one.
Around(ends, m, i, j) ==
    /\ i <= m /\ m < j
    /\ \A k \in ends : ~(i < k /\ k < j)

LEMMA CutsAround ==
    ASSUME NEW n \in Nat, NEW ends \in SUBSET (0..n), 0 \in ends, n \in ends,
           NEW m \in Nat, m < n
    PROVE  \E i, j \in ends : Around(ends, m, i, j)
<1> DEFINE D == {d \in Nat : d <= m /\ m - d \in ends}
           U == {j \in ends : m < j}
<1>1. PICK d \in D : \A e \in D : d <= e
  <2>1. m \in D
    OBVIOUS
  <2>2. D \subseteq Nat /\ D # {}
    BY <2>1
  <2> HIDE DEF D
  <2>3. QED
    BY <2>2, LeastOfNumbers
<1>2. PICK j \in U : \A e \in U : j <= e
  <2>1. U \subseteq Nat
    <3>1. \A e \in 0..n : e \in Nat
      OBVIOUS
    <3>2. QED
      BY <3>1, Zenon
  <2>2. n \in U
    OBVIOUS
  <2> HIDE DEF U
  <2>3. QED
    BY <2>1, <2>2, LeastOfNumbers
<1>3. m - d \in ends /\ m - d <= m /\ j \in ends /\ m < j
  BY <1>1, <1>2
<1>4. ASSUME NEW k \in ends, m - d < k, k < j PROVE FALSE
  <2>1. k \in Nat
    OBVIOUS
  <2>2. CASE m < k
    <3>1. k \in U
      BY <2>2
    <3>2. QED
      BY <1>2, <1>4, <2>1, <3>1
  <2>3. CASE k <= m
    <3>1. m - k \in D
      BY <2>1, <2>3
    <3>2. d <= m - k
      BY <1>1, <3>1
    <3>3. QED
      BY <1>1, <1>4, <2>1, <2>3, <3>2
  <2>4. QED
    BY <2>1, <2>2, <2>3
<1> HIDE DEF D, U
<1>5. Around(ends, m, m - d, j)
  BY <1>3, <1>4 DEF Around
<1>6. QED
  BY <1>3, <1>5

LEMMA LiteralIsInRun ==
    ASSUME NEW pattern \in Text, NEW literal \in ExtractLiterals(pattern)
    PROVE  \E run \in Runs(pattern) :
              run \in Text /\ Len(run) >= 3 /\ Occurs(literal, run)
<1> DEFINE atoms == Parse(pattern).atoms
           cuts  == At(atoms, Alt) \union At(atoms, Opt)
           ends  == cuts \union {0, Len(atoms) + 1}
<1>1. atoms \in Seq(Atom) /\ literal \in Text /\ Len(literal) >= 3
  BY LiteralsAreSpelled
<1>2. PICK m \in Nat : Spelled(literal, atoms, m)
  BY LiteralsAreSpelled
<1>3. /\ Len(atoms) \in Nat /\ DOMAIN atoms = 1..Len(atoms) /\ Len(literal) \in Nat
      /\ \A k \in 1..Len(atoms) : atoms[k] \in Atom
  BY <1>1, LenProperties, ElementOfSeq DEF Text
<1>4. /\ m + Len(literal) <= Len(atoms)
      /\ \A i \in 1..Len(literal) : atoms[m + i] = Char(literal[i])
  BY <1>2 DEF Spelled
<1>5. \A k \in cuts : k \in 1..Len(atoms) /\ (atoms[k] = Alt \/ atoms[k] = Opt)
  BY <1>3 DEF At
<1>6. \A c : Char(c) # Alt /\ Char(c) # Opt /\ Char(c).char = c
  BY DEF Char, Alt, Opt
<1>7. Runs(pattern) = {[x \in DOMAIN run |-> run[x].char] : run \in Segments(atoms, cuts)}
  BY DEF Runs
<1>8. Segments(atoms, cuts) =
        {SubSeq(atoms, ij[1] + 1, ij[2] - 1) :
            ij \in {xy \in ends \X ends :
                /\ xy[1] < xy[2]
                /\ \A k \in ends : ~(xy[1] < k /\ k < xy[2])}}
  BY DEF Segments
<1>9. ends \in SUBSET (0..(Len(atoms) + 1)) /\ 0 \in ends /\ Len(atoms) + 1 \in ends
  BY <1>3, <1>5
<1> HIDE DEF atoms, cuts
<1>10. \A k \in ends : ~(m < k /\ k <= m + Len(literal))
  <2>1. SUFFICES ASSUME NEW k \in cuts, m < k, k <= m + Len(literal) PROVE FALSE
    BY <1>3, <1>4
  <2>2. k - m \in 1..Len(literal) /\ m + (k - m) = k
    BY <1>3, <1>5, <2>1
  <2>3. atoms[k] = Char(literal[k - m])
    BY <1>4, <2>2
  <2>4. QED
    BY <1>5, <1>6, <2>1, <2>3
<1> HIDE DEF ends
<1>11. PICK i, j \in ends : Around(ends, m, i, j)
  <2> DEFINE top == Len(atoms) + 1
  <2>1. top \in Nat /\ m < top
    BY <1>3, <1>4
  <2>2. ends \in SUBSET (0..top) /\ 0 \in ends /\ top \in ends
    BY <1>9
  <2> HIDE DEF top
  <2>3. QED
    BY <2>1, <2>2, CutsAround
<1>12. /\ i \in Nat /\ j \in Nat /\ j <= Len(atoms) + 1 /\ i < j
       /\ m + Len(literal) < j
  <2>1. i \in 0..(Len(atoms) + 1) /\ j \in 0..(Len(atoms) + 1)
    BY <1>9
  <2>2. QED
    BY <1>3, <1>10, <1>11, <2>1 DEF Around
<1> DEFINE segment == SubSeq(atoms, i + 1, j - 1)
           run     == [x \in DOMAIN segment |-> segment[x].char]
<1>13. segment \in Segments(atoms, cuts)
  <2>1. <<i, j>> \in {xy \in ends \X ends :
                         /\ xy[1] < xy[2]
                         /\ \A k \in ends : ~(xy[1] < k /\ k < xy[2])}
    BY <1>11, <1>12 DEF Around
  <2>2. SubSeq(atoms, <<i, j>>[1] + 1, <<i, j>>[2] - 1) \in Segments(atoms, cuts)
    BY <1>8, <2>1, Zenon
  <2>3. QED
    BY <2>2
<1>14. /\ segment \in Seq(Atom) /\ Len(segment) = (j - 1) - i
       /\ \A x \in 1..((j - 1) - i) : segment[x] = atoms[i + x]
  <2>1. i + 1 \in 1..(Len(atoms) + 1) /\ j - 1 \in ((i + 1) - 1)..Len(atoms)
    BY <1>3, <1>12
  <2>2. /\ segment \in Seq(Atom)
        /\ Len(segment) = (j - 1) - (i + 1) + 1
        /\ \A x \in 1..((j - 1) - (i + 1) + 1) : segment[x] = atoms[(i + 1) + x - 1]
    BY <1>1, <2>1, SubSeqProperties
  <2>3. (j - 1) - (i + 1) + 1 = (j - 1) - i
    BY <1>12
  <2>4. \A x \in 1..((j - 1) - i) : (i + 1) + x - 1 = i + x
    BY <1>12
  <2> HIDE DEF segment
  <2>5. QED
    BY <2>2, <2>3, <2>4
<1>15. run \in Runs(pattern)
  <2> HIDE DEF segment
  <2>1. QED
    BY <1>7, <1>13
<1> HIDE DEF segment
<1>16. DOMAIN segment = 1..((j - 1) - i) /\ (j - 1) - i \in Nat
  BY <1>12, <1>14, LenProperties
<1>17. run \in Text /\ Len(run) = (j - 1) - i
  <2>1. \A x \in 1..((j - 1) - i) : segment[x] \in Atom
    BY <1>14, <1>16, ElementOfSeq
  <2>2. run \in [1..((j - 1) - i) -> Symbols]
    BY <1>16, <2>1 DEF Atom
  <2> HIDE DEF run
  <2>3. QED
    BY <1>16, <2>2, SeqDef, LenProperties DEF Text
<1>18. IsAt(literal, run, m - i)
  <2>1. m - i \in Nat /\ (m - i) + Len(literal) <= (j - 1) - i
    BY <1>3, <1>11, <1>12 DEF Around
  <2>2. ASSUME NEW x \in 1..Len(literal) PROVE run[(m - i) + x] = literal[x]
    <3>1. (m - i) + x \in 1..((j - 1) - i) /\ i + ((m - i) + x) = m + x
      BY <1>3, <1>12, <2>1
    <3>2. run[(m - i) + x] = segment[(m - i) + x].char
      BY <1>16, <3>1
    <3>3. segment[(m - i) + x] = atoms[m + x]
      BY <1>14, <3>1
    <3>4. QED
      BY <1>4, <1>6, <3>2, <3>3
  <2> HIDE DEF run
  <2>3. QED
    BY <1>17, <2>1, <2>2 DEF IsAt
<1> HIDE DEF run
<1>19. Occurs(literal, run)
  <2>1. m - i \in Nat
    BY <1>18 DEF IsAt
  <2>2. QED
    BY <1>1, <1>17, <1>18, <2>1, OccursAt DEF Text
<1>20. Len(run) >= 3
  BY <1>1, <1>3, <1>11, <1>12, <1>17 DEF Around
<1>21. QED
  BY <1>15, <1>17, <1>19, <1>20

LEMMA OccursInLine ==
    ASSUME NEW line \in Text, NEW c \in Symbols
    PROVE  Append(line, c) \in Text /\ Occurs(line, Append(line, c))
<1>1. Append(line, c) = line \o <<c>> /\ <<c>> \in Seq(Symbols)
  BY AppendIsConcat DEF Text
<1>2. QED
  BY <1>1, OccursInConcat DEF Text

LEMMA LineInData ==
    ASSUME NEW path \in Paths, NEW n \in DOMAIN FileTexts[path]
    PROVE  Data(path) \in Text /\ Occurs(FileTexts[path][n], Data(path))
<1> DEFINE text  == FileTexts[path]
           lines == [i \in DOMAIN text |-> Append(text[i], NewLine)]
<1>1. /\ DOMAIN text = 1..Len(text) /\ Len(text) \in Nat
      /\ \A i \in DOMAIN text : text[i] \in Text
  BY LinesTyped
<1>2. NewLine \in Symbols
  BY DEF Symbols
<1>3. \A i \in DOMAIN text : Append(text[i], NewLine) \in Text /\ Occurs(text[i], Append(text[i], NewLine))
  BY <1>1, <1>2, OccursInLine
<1>4. lines \in [1..Len(text) -> Text] /\ lines[n] = Append(text[n], NewLine)
  BY <1>1, <1>3
<1> HIDE DEF lines, text
<1>5. lines \in Seq(Text) /\ Len(lines) = Len(text)
  BY <1>1, <1>4, SeqDef, LenProperties
<1>6. n \in 1..Len(lines)
  BY <1>1, <1>5 DEF text
<1>7. FlattenSeq(lines) \in Text /\ Occurs(lines[n], FlattenSeq(lines))
  BY <1>5, <1>6, FlattenSeqLists, OccursInFlat DEF Text
<1>8. /\ text[n] \in Text /\ lines[n] \in Text
      /\ Occurs(text[n], lines[n])
  <2>1. n \in DOMAIN text
    BY DEF text
  <2>2. QED
    BY <1>1, <1>3, <1>4, <2>1
<1>9. Occurs(text[n], FlattenSeq(lines))
  BY <1>7, <1>8, OccursWithin DEF Text
<1>10. QED
  BY <1>7, <1>9 DEF Data, lines, text

\* A file with a run has the trigrams of the literals in the run.
LEMMA RunHasTrigrams ==
    ASSUME NEW path \in Paths, NEW run \in Text, Within(run, path),
           NEW literal \in Text, Occurs(literal, run)
    PROVE  ExtractTrigrams(literal) \subseteq ExtractTrigrams(Data(path))
<1>1. PICK n \in DOMAIN FileTexts[path] : Occurs(run, FileTexts[path][n])
  BY DEF Within
<1>2. FileTexts[path][n] \in Text
  BY LinesTyped
<1>3. Data(path) \in Text /\ Occurs(FileTexts[path][n], Data(path))
  BY LineInData
<1>4. Occurs(literal, FileTexts[path][n])
  BY <1>1, <1>2, OccursWithin DEF Text
<1>5. Occurs(literal, Data(path))
  BY <1>2, <1>3, <1>4, OccursWithin DEF Text
<1>6. QED
  BY <1>3, <1>5, TrigramsOccur DEF Text

\* The trigrams hide a file only for a run that it lacks.
LEMMA HiddenLacksRun ==
    ASSUME NEW pattern \in Text, NEW path \in Paths,
           path \notin Candidates(QueryTrigrams(pattern))
    PROVE  \E run \in Runs(pattern) : Len(run) >= 3 /\ ~Within(run, path)
<1>1. PICK t \in QueryTrigrams(pattern) : t \notin ExtractTrigrams(Data(path))
  BY DEF Candidates, Postings
<1>2. PICK literal \in ExtractLiterals(pattern) : t \in ExtractTrigrams(literal)
  BY <1>1 DEF QueryTrigrams
<1>3. literal \in Text
  BY LiteralsAreSpelled
<1>4. PICK run \in Runs(pattern) : run \in Text /\ Len(run) >= 3 /\ Occurs(literal, run)
  BY LiteralIsInRun
<1>5. ASSUME Within(run, path) PROVE FALSE
  BY <1>1, <1>2, <1>3, <1>4, <1>5, RunHasTrigrams
<1>6. QED
  BY <1>4, <1>5

LEMMA MissedForARun ==
    ASSUME query \in Text
    PROVE  MissedOnlyForARun
<1> DEFINE pq == ParseZoektQuery(query)
           pattern == pq.pattern
           text(path) == FileTexts[path]
<1>1. pattern \in Text
  BY PatternTyped
<1> HIDE DEF pq
<1>2. SUFFICES ASSUME Compiles(pattern), pattern # <<>>,
                      NEW path \in Paths, NEW n \in ScannedLines(FileTexts[path]),
                      MatchesFileFilter(pq, path),
                      Matches(pattern, ~pq.caseSensitive, FileTexts[path][n]),
                      <<path, n>> \notin Search(pq)
               PROVE  \E run \in Runs(pattern) : Len(run) >= 3 /\ ~Within(run, path)
  BY DEF MissedOnlyForARun, pq
<1>3. <<path, n>> \in SearchInFile(path, pattern, ~pq.caseSensitive)
  BY <1>2 DEF SearchInFile
<1>4. path \notin Candidates(QueryTrigrams(pattern))
  <2>1. ASSUME path \in Candidates(QueryTrigrams(pattern)) PROVE FALSE
    BY <1>2, <1>3, <2>1 DEF Search
  <2>2. QED
    BY <2>1
<1>5. QED
  BY <1>1, <1>4, HiddenLacksRun

-----------------------------------------------------------------------------
(***************************************************************************)
(* Sequences that grow at their end.                                       *)
(***************************************************************************)
LEMMA SubSeqNext ==
    ASSUME NEW S, NEW seq \in Seq(S), NEW k \in 1..Len(seq), NEW e \in 0..(k - 1)
    PROVE  /\ SubSeq(seq, e + 1, k - 1) \in Seq(S)
           /\ SubSeq(seq, e + 1, k) = Append(SubSeq(seq, e + 1, k - 1), seq[k])
<1>1. /\ Len(seq) \in Nat /\ e + 1 \in 1..Len(seq) /\ k \in (e + 1)..Len(seq)
      /\ \A i \in (e + 1)..(k - 1) : i \in 1..Len(seq)
  BY LenProperties
<1>2. SubSeq(seq, e + 1, k) = SubSeq(seq, e + 1, k - 1) \o <<seq[k]>>
  BY <1>1, SubSeqRecursiveSecond
<1>3. SubSeq(seq, e + 1, k - 1) \in Seq(S) /\ seq[k] \in S
  <2>1. \A i \in (e + 1)..(k - 1) : seq[i] \in S
    BY <1>1, ElementOfSeq
  <2>2. e + 1 \in Int /\ k - 1 \in Int
    BY <1>1
  <2>3. QED
    BY <2>1, <2>2, ElementOfSeq, SubSeqProperties
<1>4. QED
  BY <1>2, <1>3, AppendIsConcat

Kept(c) == IF c = Quote THEN <<>> ELSE <<c>>

LEMMA UnquoteNothing == Unquote(<<>>) = <<>>
<1>1. Len(<<>>) = 0 /\ DOMAIN <<>> = {}
  BY EmptySeq
<1>2. [i \in DOMAIN <<>> |-> IF <<>>[i] = Quote THEN <<>> ELSE <<<<>>[i]>>] = <<>>
  BY <1>1
<1>3. QED
  BY <1>1, <1>2 DEF Unquote, FlattenSeq

LEMMA UnquoteNext ==
    ASSUME NEW S, NEW s \in Seq(S), NEW c \in S
    PROVE  /\ Unquote(s) \in Seq(S)
           /\ Unquote(Append(s, c)) = Unquote(s) \o Kept(c)
<1> DEFINE n == Len(s)
           longer == Append(s, c)
           each(t) == [i \in DOMAIN t |-> IF t[i] = Quote THEN <<>> ELSE <<t[i]>>]
<1>1. /\ n \in Nat /\ DOMAIN s = 1..n /\ \A i \in 1..n : s[i] \in S
      /\ longer \in Seq(S) /\ Len(longer) = n + 1 /\ DOMAIN longer = 1..(n + 1)
      /\ \A i \in 1..n : longer[i] = s[i]
      /\ longer[n + 1] = c
  BY LenProperties, ElementOfSeq, AppendProperties
<1> HIDE DEF longer, n
<1>2. ASSUME NEW x \in S PROVE Kept(x) \in Seq(S)
  BY EmptySeq DEF Kept
<1>3. /\ each(s) \in [1..n -> Seq(S)]
      /\ \A i \in 1..n : each(s)[i] = Kept(s[i])
  BY <1>1, <1>2 DEF Kept
<1>4. /\ DOMAIN each(longer) = 1..(n + 1)
      /\ \A i \in 1..(n + 1) : each(longer)[i] = Kept(longer[i])
  BY <1>1 DEF Kept
<1>5. \A t : Unquote(t) = FlattenSeq(each(t))
  BY DEF Unquote
<1>6. each(longer) = [i \in 1..(n + 1) |-> Kept(longer[i])]
  BY <1>1 DEF Kept
<1> DEFINE words == each(s)
           more  == each(longer)
<1>7. /\ words \in [1..n -> Seq(S)] /\ \A i \in 1..n : words[i] = Kept(s[i])
      /\ more = [i \in 1..(n + 1) |-> Kept(longer[i])]
      /\ Unquote(s) = FlattenSeq(words) /\ Unquote(longer) = FlattenSeq(more)
  BY <1>3, <1>5, <1>6
<1> HIDE DEF words, more
<1>8. words \in Seq(Seq(S)) /\ Len(words) = n
  BY <1>1, <1>7, SeqDef, LenProperties
<1>9. more = Append(words, Kept(c))
  <2>1. /\ Append(words, Kept(c)) \in Seq(Seq(S)) /\ Len(Append(words, Kept(c))) = n + 1
        /\ \A i \in 1..n : Append(words, Kept(c))[i] = words[i]
        /\ Append(words, Kept(c))[n + 1] = Kept(c)
    BY <1>2, <1>8, AppendProperties
  <2>2. more \in [1..(n + 1) -> Seq(S)]
    <3>1. \A i \in 1..(n + 1) : longer[i] \in S
      BY <1>1, ElementOfSeq
    <3>2. QED
      BY <1>2, <1>7, <3>1
  <2>3. more \in Seq(Seq(S)) /\ Len(more) = n + 1
    <3>1. n + 1 \in Nat
      BY <1>1
    <3>2. QED
      BY <2>2, <3>1, SeqDef, LenProperties
  <2>4. ASSUME NEW i \in 1..(n + 1) PROVE more[i] = Append(words, Kept(c))[i]
    <3>1. more[i] = Kept(longer[i])
      BY <1>7
    <3>2. CASE i = n + 1
      BY <1>1, <2>1, <3>1, <3>2
    <3>3. CASE i # n + 1
      <4>1. i \in 1..n
        BY <1>1, <3>3
      <4>2. QED
        BY <1>1, <1>7, <2>1, <3>1, <4>1
    <3>4. QED
      BY <3>2, <3>3
  <2>5. QED
    BY <2>1, <2>3, <2>4, SeqEqual
<1>10. Kept(c) \in Seq(S)
  BY <1>2
<1>11. FlattenSeq(more) = FlattenSeq(words) \o Kept(c)
  BY <1>8, <1>9, <1>10, FlattenOfAppend
<1>12. FlattenSeq(words) \in Seq(S)
  BY <1>8, FlattenSeqLists
<1>13. QED
  BY <1>7, <1>11, <1>12 DEF longer

-----------------------------------------------------------------------------
(***************************************************************************)
(* The tokenizer is inside quotes where it has read an odd number of them. *)
(***************************************************************************)
LEMMA QuotesNext ==
    ASSUME NEW q \in Text, NEW k \in 1..Len(q)
    PROVE  /\ Quotes(q, k) \in Nat
           /\ Quotes(q, k + 1) = IF q[k] = Quote THEN Quotes(q, k) + 1 ELSE Quotes(q, k)
<1> DEFINE before == {j \in At(q, Quote) : j < k}
           upTo   == {j \in At(q, Quote) : j < k + 1}
<1>1. Len(q) \in Nat /\ DOMAIN q = 1..Len(q)
  BY LenProperties DEF Text
<1>2. \A j \in At(q, Quote) : j \in 1..Len(q) /\ q[j] = Quote
  BY <1>1 DEF At
<1>3. before \subseteq 1..Len(q)
  BY <1>2
<1>4. IsFiniteSet(before)
  <2>1. IsFiniteSet(1..Len(q))
    BY <1>1, FS_Interval
  <2> HIDE DEF before
  <2>2. QED
    BY <1>3, <2>1, FS_Subset
<1>5. upTo = IF q[k] = Quote THEN before \union {k} ELSE before
  BY <1>1, <1>2 DEF At
<1>6. k \notin before
  BY <1>1
<1>7. /\ Quotes(q, k) = Cardinality(before)
      /\ Quotes(q, k + 1) = Cardinality(upTo)
  BY DEF Quotes
<1> HIDE DEF before, upTo
<1>8. Cardinality(before) \in Nat
  BY <1>4, FS_CardinalityType
<1>9. Cardinality(before \union {k}) = Cardinality(before) + 1
  BY <1>4, <1>6, FS_AddElement
<1>10. QED
  BY <1>5, <1>7, <1>8, <1>9

LEMMA NoQuotesBefore ==
    ASSUME NEW q \in Text
    PROVE  Quotes(q, 1) = 0
<1>1. {j \in At(q, Quote) : j < 1} = {}
  <2>1. DOMAIN q = 1..Len(q) /\ Len(q) \in Nat
    BY LenProperties DEF Text
  <2>2. QED
    BY <2>1 DEF At
<1>2. QED
  BY <1>1, FS_EmptySet DEF Quotes

LEMMA Parity ==
    ASSUME NEW x \in Nat
    PROVE  x % 2 \in {0, 1} /\ (x + 1) % 2 = 1 - (x % 2)
OBVIOUS

LEMMA ReadSymbolCases ==
    ASSUME NEW s \in TokenState, NEW c \in Symbols
    PROVE  /\ c = Quote =>
                 /\ ReadSymbol(s, c).tokens = s.tokens
                 /\ ReadSymbol(s, c).current = s.current
                 /\ ReadSymbol(s, c).inQuote = ~s.inQuote
           /\ c = Space /\ ~s.inQuote =>
                 /\ ReadSymbol(s, c).tokens =
                       IF s.current = <<>> THEN s.tokens ELSE Append(s.tokens, s.current)
                 /\ ReadSymbol(s, c).current = <<>>
                 /\ ReadSymbol(s, c).inQuote = s.inQuote
           /\ c # Quote /\ ~(c = Space /\ ~s.inQuote) =>
                 /\ ReadSymbol(s, c).tokens = s.tokens
                 /\ ReadSymbol(s, c).current = Append(s.current, c)
                 /\ ReadSymbol(s, c).inQuote = s.inQuote
<1>1. s = [tokens |-> s.tokens, current |-> s.current, inQuote |-> s.inQuote]
  BY DEF TokenState
<1>2. Quote # Space
  BY DEF Quote, Space
<1>3. CASE c = Quote
  BY <1>1, <1>2, <1>3 DEF ReadSymbol
<1>4. CASE c = Space /\ ~s.inQuote
  BY <1>1, <1>2, <1>4 DEF ReadSymbol, Flush
<1>5. CASE c # Quote /\ ~(c = Space /\ ~s.inQuote)
  BY <1>1, <1>5 DEF ReadSymbol
<1>6. QED
  BY <1>2, <1>3, <1>4, <1>5

LEMMA InQuoteIsOdd ==
    ASSUME NEW q \in Text, NEW g \in [0..Len(q) -> TokenState],
           g[0] = NoTokens, \A k \in 1..Len(q) : g[k] = ReadSymbol(g[k - 1], q[k])
    PROVE  \A k \in 0..Len(q) : g[k].inQuote <=> Quotes(q, k + 1) % 2 = 1
<1> DEFINE n == Len(q)
           I == {k \in 0..n : g[k].inQuote <=> Quotes(q, k + 1) % 2 = 1}
<1>1. n \in Nat /\ \A k \in 1..n : q[k] \in Symbols
  BY LenProperties, ElementOfSeq DEF Text
<1>2. 0 \in I
  <2>1. g[0].inQuote = FALSE
    BY DEF NoTokens
  <2>2. Quotes(q, 0 + 1) = 0
    BY NoQuotesBefore
  <2>3. QED
    BY <1>1, <2>1, <2>2
<1>3. ASSUME NEW k \in 1..n, k - 1 \in I PROVE k \in I
  <2>1. k \in 0..n /\ k - 1 \in 0..n /\ (k - 1) + 1 = k
    BY <1>1
  <2> DEFINE s == g[k - 1]
  <2>2. s \in TokenState /\ q[k] \in Symbols /\ g[k] = ReadSymbol(s, q[k])
    BY <1>1, <2>1
  <2>3. s.inQuote <=> Quotes(q, k) % 2 = 1
    BY <1>3, <2>1
  <2>4. s.inQuote \in BOOLEAN
    BY <2>2 DEF TokenState
  <2>5. /\ Quotes(q, k) \in Nat
        /\ Quotes(q, k + 1) = IF q[k] = Quote THEN Quotes(q, k) + 1 ELSE Quotes(q, k)
    BY QuotesNext
  <2>6. /\ Quotes(q, k) % 2 \in {0, 1}
        /\ (Quotes(q, k) + 1) % 2 = 1 - (Quotes(q, k) % 2)
    BY <2>5, Parity
  <2> HIDE DEF s
  <2>7. g[k].inQuote = IF q[k] = Quote THEN ~s.inQuote ELSE s.inQuote
    BY <2>2, ReadSymbolCases
  <2>8. g[k].inQuote <=> Quotes(q, k + 1) % 2 = 1
    <3>1. CASE q[k] = Quote
      <4>1. Quotes(q, k + 1) % 2 = 1 - (Quotes(q, k) % 2)
        BY <2>5, <2>6, <3>1
      <4>2. Quotes(q, k + 1) % 2 = 1 <=> ~(Quotes(q, k) % 2 = 1)
        BY <2>6, <4>1
      <4>3. g[k].inQuote <=> ~s.inQuote
        BY <2>7, <3>1, Zenon
      <4>4. QED
        BY <2>3, <4>2, <4>3, Zenon
    <3>2. CASE q[k] # Quote
      BY <2>3, <2>5, <2>7, <3>2
    <3>3. QED
      BY <3>1, <3>2
  <2>9. QED
    BY <2>1, <2>8
<1> HIDE DEF I, n
<1>4. \A k \in 0..n : k \in I
  BY <1>1, <1>2, <1>3, InductionUpTo
<1>5. QED
  BY <1>4 DEF I, n

\* A space ends a token where it is open.
LEMMA OpenIsRead ==
    ASSUME NEW q \in Text, NEW g \in [0..Len(q) -> TokenState],
           g[0] = NoTokens, \A k \in 1..Len(q) : g[k] = ReadSymbol(g[k - 1], q[k]),
           NEW k \in 1..Len(q)
    PROVE  k \in OpenSpaces(q) <=> q[k] = Space /\ ~g[k - 1].inQuote
<1>1. Len(q) \in Nat /\ DOMAIN q = 1..Len(q)
  BY LenProperties DEF Text
<1>2. k - 1 \in 0..Len(q) /\ (k - 1) + 1 = k
  BY <1>1
<1>3. g[k - 1].inQuote <=> Quotes(q, k) % 2 = 1
  BY <1>2, InQuoteIsOdd
<1>4. Quotes(q, k) % 2 \in {0, 1}
  BY QuotesNext, Parity
<1>5. QED
  BY <1>1, <1>3, <1>4 DEF OpenSpaces, At

-----------------------------------------------------------------------------
(***************************************************************************)
(* What lies between neighbouring ends, and how a new last end adds to it. *)
(***************************************************************************)
Neighbours(ends) ==
    {xy \in ends \X ends : xy[1] < xy[2] /\ \A k \in ends : ~(xy[1] < k /\ k < xy[2])}

Piece(q, x, y) == Unquote(SubSeq(q, x + 1, y - 1))

Pieces(q, ends) == {Piece(q, xy[1], xy[2]) : xy \in Neighbours(ends)}

NextTo(ends, u, v) == u < v /\ \A k \in ends : ~(u < k /\ k < v)

LEMMA NeighboursAre ==
    ASSUME NEW ends
    PROVE  /\ \A uv \in Neighbours(ends) :
                 \E u, v \in ends : uv = <<u, v>> /\ NextTo(ends, u, v)
           /\ \A u, v \in ends : NextTo(ends, u, v) => <<u, v>> \in Neighbours(ends)
<1>1. ASSUME NEW uv \in Neighbours(ends)
      PROVE  \E u, v \in ends : uv = <<u, v>> /\ NextTo(ends, u, v)
  <2>1. /\ uv \in ends \X ends
        /\ uv[1] < uv[2] /\ \A k \in ends : ~(uv[1] < k /\ k < uv[2])
    BY DEF Neighbours
  <2>2. uv = <<uv[1], uv[2]>> /\ uv[1] \in ends /\ uv[2] \in ends
    BY <2>1
  <2>3. NextTo(ends, uv[1], uv[2])
    BY <2>1 DEF NextTo
  <2>4. QED
    BY <2>2, <2>3
<1>2. ASSUME NEW u \in ends, NEW v \in ends, NextTo(ends, u, v)
      PROVE  <<u, v>> \in Neighbours(ends)
  BY <1>2 DEF NextTo, Neighbours
<1>3. QED
  BY <1>1, <1>2

LastOf(ends, e) == ends \subseteq Nat /\ e \in ends /\ \A x \in ends : x <= e

LEMMA PieceAdded ==
    ASSUME NEW q, NEW ends, NEW e, LastOf(ends, e), NEW y \in Nat, e < y
    PROVE  Pieces(q, ends \union {y}) = Pieces(q, ends) \union {Piece(q, e, y)}
<1> DEFINE more == ends \union {y}
<1>1. e \in ends /\ \A x \in ends : x \in Nat /\ x <= e /\ x < y
  BY DEF LastOf
<1>2. ASSUME NEW uv \in Neighbours(more) PROVE uv \in Neighbours(ends) \union {<<e, y>>}
  <2>0. PICK u \in more, v \in more : uv = <<u, v>> /\ NextTo(more, u, v)
    BY NeighboursAre
  <2>1. uv = <<u, v>> /\ u < v /\ \A k \in more : ~(u < k /\ k < v)
    BY <2>0 DEF NextTo
  <2>2. u # y
    <3>1. v = y \/ v < y
      BY <1>1
    <3>2. v \in Nat
      BY <1>1
    <3>3. QED
      BY <2>1, <3>1, <3>2
  <2>3. CASE v \in ends
    <3>1. u \in ends /\ v \in ends /\ NextTo(ends, u, v)
      BY <2>1, <2>2, <2>3 DEF NextTo
    <3>2. QED
      BY <2>1, <3>1, NeighboursAre
  <2>4. CASE v = y
    <3>1. ~(u < e /\ e < v) /\ e < v
      BY <1>1, <2>1, <2>4
    <3>2. u \in ends /\ u \in Nat /\ u <= e /\ e \in Nat
      BY <1>1, <2>2
    <3>3. u = e
      BY <3>1, <3>2
    <3>4. QED
      BY <2>1, <2>4, <3>3
  <2>5. QED
    BY <2>3, <2>4
<1>3. ASSUME NEW uv \in Neighbours(ends) PROVE uv \in Neighbours(more)
  <2>0. PICK u \in ends, v \in ends : uv = <<u, v>> /\ NextTo(ends, u, v)
    BY NeighboursAre
  <2>1. uv = <<u, v>> /\ u < v /\ \A k \in ends : ~(u < k /\ k < v)
    BY <2>0 DEF NextTo
  <2>2. v \in Nat /\ v < y
    BY <1>1
  <2>3. ~(y < v)
    BY <2>2
  <2>4. u \in more /\ v \in more /\ NextTo(more, u, v)
    BY <2>1, <2>3 DEF NextTo
  <2>5. QED
    BY <2>1, <2>4, NeighboursAre
<1>4. <<e, y>> \in Neighbours(more)
  <2>1. \A k \in more : ~(e < k /\ k < y)
    BY <1>1
  <2>2. <<e, y>> \in more \X more
    BY <1>1
  <2>3. QED
    BY <2>1, <2>2 DEF Neighbours
<1>5. Neighbours(more) = Neighbours(ends) \union {<<e, y>>}
  BY <1>2, <1>3, <1>4
<1> HIDE DEF more
<1>6. Pieces(q, more) = Pieces(q, ends) \union {Piece(q, e, y)}
  <2>1. <<e, y>>[1] = e /\ <<e, y>>[2] = y
    OBVIOUS
  <2>2. QED
    BY <1>5, <2>1 DEF Pieces
<1>7. QED
  BY <1>6 DEF more

LEMMA PiecesAreSegments ==
    ASSUME NEW q
    PROVE  {Unquote(seg) : seg \in Segments(q, OpenSpaces(q))} =
              Pieces(q, OpenSpaces(q) \union {0, Len(q) + 1})
BY DEF Segments, Pieces, Piece, Neighbours

\* The ends of tokens up to position k.
Ends(q, k) == {0} \union {x \in OpenSpaces(q) : x <= k}

LEMMA EndsNext ==
    ASSUME NEW q \in Text, NEW k \in 1..Len(q)
    PROVE  /\ Ends(q, k) = IF k \in OpenSpaces(q) THEN Ends(q, k - 1) \union {k}
                           ELSE Ends(q, k - 1)
           /\ Ends(q, k - 1) \in SUBSET (0..(k - 1))
<1>1. OpenSpaces(q) \subseteq 1..Len(q) /\ Len(q) \in Nat
  BY LenProperties DEF OpenSpaces, At, Text
<1>2. \A x \in OpenSpaces(q) : x \in 1..Len(q)
  BY <1>1
<1>3. \A x \in OpenSpaces(q) : x <= k <=> x <= k - 1 \/ x = k
  BY <1>1, <1>2
<1>4. Ends(q, k - 1) \in SUBSET (0..(k - 1))
  BY <1>1, <1>2 DEF Ends
<1>5. Ends(q, k) = IF k \in OpenSpaces(q) THEN Ends(q, k - 1) \union {k} ELSE Ends(q, k - 1)
  BY <1>3 DEF Ends
<1>6. QED
  BY <1>4, <1>5

LEMMA AllEnds ==
    ASSUME NEW q \in Text
    PROVE  /\ Ends(q, 0) = {0}
           /\ Ends(q, Len(q)) = {0} \union OpenSpaces(q)
           /\ Ends(q, Len(q)) \in SUBSET (0..Len(q))
<1>1. OpenSpaces(q) \subseteq 1..Len(q) /\ Len(q) \in Nat
  BY LenProperties DEF OpenSpaces, At, Text
<1>2. \A x \in OpenSpaces(q) : x \in 1..Len(q)
  BY <1>1
<1>3. \A x \in OpenSpaces(q) : x <= Len(q) /\ ~(x <= 0) /\ x \in 0..Len(q)
  BY <1>1, <1>2
<1>4. Ends(q, Len(q)) = {0} \union OpenSpaces(q) /\ Ends(q, 0) = {0}
  BY <1>3 DEF Ends
<1>5. QED
  BY <1>1, <1>3, <1>4

-----------------------------------------------------------------------------
(***************************************************************************)
(* What the tokenizer has read up to position k.                           *)
(***************************************************************************)
Cut(q, k, s) ==
    \E e \in Ends(q, k) :
        /\ \A x \in Ends(q, k) : x <= e
        /\ s.current = Unquote(SubSeq(q, e + 1, k))
        /\ ToSet(s.tokens) = Pieces(q, Ends(q, k)) \ {<<>>}

LEMMA ToSetOfAppend ==
    ASSUME NEW S, NEW seq \in Seq(S), NEW x \in S
    PROVE  ToSet(Append(seq, x)) = ToSet(seq) \union {x}
<1>1. /\ Len(seq) \in Nat /\ DOMAIN seq = 1..Len(seq)
      /\ DOMAIN Append(seq, x) = 1..(Len(seq) + 1)
      /\ \A i \in 1..Len(seq) : Append(seq, x)[i] = seq[i]
      /\ Append(seq, x)[Len(seq) + 1] = x
  BY LenProperties, AppendProperties
<1>2. 1..(Len(seq) + 1) = 1..Len(seq) \union {Len(seq) + 1}
  BY <1>1
<1>3. ToSet(Append(seq, x)) = {Append(seq, x)[i] : i \in 1..Len(seq)} \union {x}
  BY <1>1, <1>2 DEF ToSet
<1>4. {Append(seq, x)[i] : i \in 1..Len(seq)} = ToSet(seq)
  BY <1>1 DEF ToSet
<1>5. QED
  BY <1>3, <1>4

\* A token ends, or the query does.
LEMMA FlushAdds ==
    ASSUME NEW q \in Text, NEW k \in 0..Len(q), NEW s \in TokenState, Cut(q, k, s),
           Ends(q, k) \in SUBSET (0..k), NEW tokens,
           tokens = IF s.current = <<>> THEN s.tokens ELSE Append(s.tokens, s.current)
    PROVE  ToSet(tokens) = Pieces(q, Ends(q, k) \union {k + 1}) \ {<<>>}
<1>1. PICK e \in Ends(q, k) :
          /\ \A x \in Ends(q, k) : x <= e
          /\ s.current = Unquote(SubSeq(q, e + 1, k))
          /\ ToSet(s.tokens) = Pieces(q, Ends(q, k)) \ {<<>>}
  BY DEF Cut
<1>2. /\ Len(q) \in Nat /\ k + 1 \in Nat /\ e < k + 1 /\ (k + 1) - 1 = k
      /\ Ends(q, k) \in SUBSET Nat
  BY LenProperties DEF Text
<1>3. Pieces(q, Ends(q, k) \union {k + 1}) = Pieces(q, Ends(q, k)) \union {s.current}
  <2> DEFINE ends == Ends(q, k)
             y == k + 1
  <2>1. Piece(q, e, y) = s.current
    BY <1>1, <1>2 DEF Piece
  <2>2. LastOf(ends, e) /\ y \in Nat /\ e < y
    BY <1>1, <1>2 DEF LastOf
  <2> HIDE DEF ends, y
  <2>3. Pieces(q, ends \union {y}) = Pieces(q, ends) \union {Piece(q, e, y)}
    <3>1. LastOf(ends, e)
      BY <2>2
    <3>2. ASSUME NEW z \in Nat, e < z
          PROVE  Pieces(q, ends \union {z}) = Pieces(q, ends) \union {Piece(q, e, z)}
      BY <3>1, <3>2, PieceAdded
    <3>3. QED
      BY <2>2, <3>2
  <2>4. QED
    BY <2>1, <2>3 DEF ends, y
<1>4. s.tokens \in Seq(Token) /\ s.current \in Text
  BY DEF TokenState
<1>5. CASE s.current = <<>>
  BY <1>1, <1>3, <1>5
<1>6. CASE s.current # <<>>
  <2>1. s.current \in Token
    BY <1>4, <1>6 DEF Token
  <2>2. ToSet(tokens) = ToSet(s.tokens) \union {s.current}
    BY <1>4, <1>6, <2>1, ToSetOfAppend
  <2>3. QED
    BY <1>1, <1>3, <1>6, <2>2
<1>7. QED
  BY <1>5, <1>6

LEMMA ReadCuts ==
    ASSUME NEW q \in Text, NEW k \in 1..Len(q), NEW s \in TokenState,
           k \in OpenSpaces(q) <=> q[k] = Space /\ ~s.inQuote,
           Cut(q, k - 1, s)
    PROVE  Cut(q, k, ReadSymbol(s, q[k]))
<1> DEFINE t == ReadSymbol(s, q[k])
           old == Ends(q, k - 1)
<1>1. /\ Len(q) \in Nat /\ k - 1 \in 0..Len(q) /\ q[k] \in Symbols /\ (k - 1) + 1 = k
      /\ k \in 0..Len(q)
  BY LenProperties, ElementOfSeq DEF Text
<1>2. /\ Ends(q, k) = IF k \in OpenSpaces(q) THEN old \union {k} ELSE old
      /\ old \in SUBSET (0..(k - 1))
  BY EndsNext
<1>3. CASE k \in OpenSpaces(q)
  <2>1. /\ t.tokens = IF s.current = <<>> THEN s.tokens ELSE Append(s.tokens, s.current)
        /\ t.current = <<>>
    BY <1>1, <1>3, ReadSymbolCases
  <2>2. ToSet(t.tokens) = Pieces(q, old \union {(k - 1) + 1}) \ {<<>>}
    <3> HIDE DEF t
    <3>1. QED
      BY <1>1, <1>2, <2>1, FlushAdds
  <2>3. SubSeq(q, k + 1, k) = <<>>
    BY <1>1, SubSeqEmpty
  <2>4. k \in Ends(q, k) /\ \A x \in Ends(q, k) : x <= k
    BY <1>1, <1>2, <1>3
  <2> HIDE DEF t, old
  <2>5. Cut(q, k, t)
    BY <1>1, <1>2, <1>3, <2>1, <2>2, <2>3, <2>4, UnquoteNothing DEF Cut
  <2>6. QED
    BY <2>5 DEF t
<1>4. CASE k \notin OpenSpaces(q)
  <2>1. PICK e \in old :
            /\ \A x \in old : x <= e
            /\ s.current = Unquote(SubSeq(q, e + 1, k - 1))
            /\ ToSet(s.tokens) = Pieces(q, old) \ {<<>>}
    BY DEF Cut
  <2>2. e \in 0..(k - 1)
    BY <1>2
  <2> DEFINE short == SubSeq(q, e + 1, k - 1)
  <2>3. short \in Seq(Symbols) /\ SubSeq(q, e + 1, k) = Append(short, q[k])
    BY <2>2, SubSeqNext DEF Text
  <2> HIDE DEF short
  <2>4. /\ Unquote(short) \in Seq(Symbols)
        /\ Unquote(SubSeq(q, e + 1, k)) = Unquote(short) \o Kept(q[k])
    BY <1>1, <2>3, UnquoteNext
  <2>5. s.current = Unquote(short)
    BY <2>1 DEF short
  <2>6. t.tokens = s.tokens /\ t.current = s.current \o Kept(q[k])
    <3>1. CASE q[k] = Quote
      <4>1. t.tokens = s.tokens /\ t.current = s.current
        BY <1>1, <3>1, ReadSymbolCases
      <4>2. s.current \o <<>> = s.current
        BY <2>4, <2>5, ConcatEmptySeq
      <4> HIDE DEF t
      <4>3. QED
        BY <3>1, <4>1, <4>2 DEF Kept
    <3>2. CASE q[k] # Quote
      <4>1. t.tokens = s.tokens /\ t.current = Append(s.current, q[k])
        BY <1>1, <1>4, <3>2, ReadSymbolCases
      <4>2. Append(s.current, q[k]) = s.current \o <<q[k]>>
        BY <1>1, <2>4, <2>5, AppendIsConcat
      <4> HIDE DEF t
      <4>3. QED
        BY <3>2, <4>1, <4>2 DEF Kept
    <3>3. QED
      BY <3>1, <3>2
  <2> HIDE DEF t, old
  <2>7. Ends(q, k) = old
    BY <1>2, <1>4
  <2>8. Cut(q, k, t)
    BY <2>1, <2>4, <2>5, <2>6, <2>7 DEF Cut
  <2>9. QED
    BY <2>8 DEF t
<1>5. QED
  BY <1>3, <1>4

\* What has been read, without open spaces and quotes.
KeptText(q) == [i \in DOMAIN q |-> IF i \in OpenSpaces(q) THEN Quote ELSE q[i]]

Whole(q, k, s) == FlattenSeq(s.tokens) \o s.current = Unquote(SubSeq(KeptText(q), 1, k))

LEMMA KeptTextTyped ==
    ASSUME NEW q \in Text
    PROVE  KeptText(q) \in Seq(Symbols \union {Quote}) /\ Len(KeptText(q)) = Len(q)
<1>1. Len(q) \in Nat /\ DOMAIN q = 1..Len(q) /\ \A i \in 1..Len(q) : q[i] \in Symbols
  BY LenProperties, ElementOfSeq DEF Text
<1>2. KeptText(q) \in [1..Len(q) -> Symbols \union {Quote}]
  BY <1>1 DEF KeptText
<1>3. QED
  BY <1>1, <1>2, SeqDef, LenProperties

LEMMA TokensFlatten ==
    ASSUME NEW s \in TokenState
    PROVE  /\ s.tokens \in Seq(Text) /\ s.current \in Text
           /\ FlattenSeq(s.tokens) \in Text
           /\ FlattenSeq(Append(s.tokens, s.current)) = FlattenSeq(s.tokens) \o s.current
           /\ FlattenSeq(s.tokens) \o <<>> = FlattenSeq(s.tokens)
<1>1. s.tokens \in Seq(Token) /\ s.current \in Text /\ Token \subseteq Text
  BY DEF TokenState, Token
<1>2. s.tokens \in Seq(Text)
  BY <1>1, SeqMonotonic
<1>3. FlattenSeq(s.tokens) \in Text
  BY <1>2, FlattenSeqLists DEF Text
<1>4. QED
  BY <1>1, <1>2, <1>3, FlattenOfAppend, ConcatEmptySeq DEF Text

LEMMA ReadKeeps ==
    ASSUME NEW q \in Text, NEW k \in 1..Len(q), NEW s \in TokenState,
           k \in OpenSpaces(q) <=> q[k] = Space /\ ~s.inQuote,
           Whole(q, k - 1, s)
    PROVE  Whole(q, k, ReadSymbol(s, q[k]))
<1> DEFINE t     == ReadSymbol(s, q[k])
           kept  == KeptText(q)
           short == SubSeq(kept, 1, k - 1)
           all   == FlattenSeq(s.tokens)
<1>1. /\ Len(q) \in Nat /\ k - 1 \in 0..Len(q) /\ q[k] \in Symbols
      /\ DOMAIN q = 1..Len(q)
  BY LenProperties, ElementOfSeq DEF Text
<1>2. kept[k] = IF k \in OpenSpaces(q) THEN Quote ELSE q[k]
  BY <1>1 DEF KeptText
<1>3. short \in Seq(Symbols \union {Quote}) /\ SubSeq(kept, 1, k) = Append(short, kept[k])
  <2>1. kept \in Seq(Symbols \union {Quote}) /\ Len(kept) = Len(q)
    BY KeptTextTyped
  <2> HIDE DEF kept
  <2>2. k \in 1..Len(kept) /\ 0 \in 0..(k - 1) /\ 0 + 1 = 1
    BY <1>1, <2>1
  <2>3. /\ SubSeq(kept, 0 + 1, k - 1) \in Seq(Symbols \union {Quote})
        /\ SubSeq(kept, 0 + 1, k) = Append(SubSeq(kept, 0 + 1, k - 1), kept[k])
    BY <2>1, <2>2, SubSeqNext
  <2>4. QED
    BY <2>2, <2>3
<1>4. all \o s.current = Unquote(short)
  BY DEF Whole
<1>5. /\ all \in Text /\ s.current \in Text
      /\ FlattenSeq(Append(s.tokens, s.current)) = all \o s.current
      /\ all \o <<>> = all
  BY TokensFlatten
<1> HIDE DEF kept, short, all
<1>6. Unquote(SubSeq(kept, 1, k)) = Unquote(short) \o Kept(kept[k])
  <2>1. kept[k] \in Symbols \union {Quote}
    BY <1>1, <1>2
  <2>2. QED
    BY <1>3, <2>1, UnquoteNext
<1>7. FlattenSeq(t.tokens) \o t.current = (all \o s.current) \o Kept(kept[k])
  <2>1. all \o s.current \in Text /\ (all \o s.current) \o <<>> = all \o s.current
    BY <1>5, ConcatProperties, ConcatEmptySeq DEF Text
  <2>2. CASE k \in OpenSpaces(q)
    <3>1. /\ t.tokens = IF s.current = <<>> THEN s.tokens ELSE Append(s.tokens, s.current)
          /\ t.current = <<>>
      BY <1>1, <2>2, ReadSymbolCases
    <3>2. Kept(kept[k]) = <<>>
      BY <1>2, <2>2 DEF Kept
    <3> HIDE DEF t
    <3>3. FlattenSeq(t.tokens) = all \o s.current
      <4>1. CASE s.current = <<>>
        BY <1>5, <3>1, <4>1 DEF all
      <4>2. CASE s.current # <<>>
        BY <1>5, <3>1, <4>2
      <4>3. QED
        BY <4>1, <4>2
    <3>4. QED
      BY <2>1, <3>1, <3>2, <3>3
  <2>3. CASE q[k] = Quote
    <3>1. t.tokens = s.tokens /\ t.current = s.current
      BY <1>1, <2>3, ReadSymbolCases
    <3>2. Kept(kept[k]) = <<>>
      BY <1>2, <2>3 DEF Kept
    <3> HIDE DEF t
    <3>3. QED
      BY <2>1, <3>1, <3>2 DEF all
  <2>4. CASE k \notin OpenSpaces(q) /\ q[k] # Quote
    <3>1. t.tokens = s.tokens /\ t.current = Append(s.current, q[k])
      BY <1>1, <2>4, ReadSymbolCases
    <3>2. Kept(kept[k]) = <<q[k]>>
      BY <1>2, <2>4 DEF Kept
    <3>3. Append(s.current, q[k]) = s.current \o <<q[k]>> /\ <<q[k]>> \in Text
      BY <1>1, <1>5, AppendIsConcat DEF Text
    <3>4. all \o (s.current \o <<q[k]>>) = (all \o s.current) \o <<q[k]>>
      <4>1. all \in Seq(Symbols) /\ s.current \in Seq(Symbols) /\ <<q[k]>> \in Seq(Symbols)
        BY <1>5, <3>3 DEF Text
      <4>2. ASSUME NEW u \in Seq(Symbols), NEW v \in Seq(Symbols), NEW w \in Seq(Symbols)
            PROVE  (u \o v) \o w = u \o (v \o w)
        BY ConcatAssociative
      <4>3. QED
        BY <4>1, <4>2, Zenon
    <3> HIDE DEF t
    <3>5. QED
      BY <3>1, <3>2, <3>3, <3>4 DEF all
  <2>5. QED
    BY <2>2, <2>3, <2>4
<1> HIDE DEF t
<1>8. Whole(q, k, t)
  BY <1>4, <1>6, <1>7 DEF Whole, kept
<1>9. QED
  BY <1>8 DEF t

LEMMA TokensAreCut ==
    ASSUME query \in Text
    PROVE  TokensAreCutAtOpenSpaces
<1> DEFINE n == Len(query)
<1>1. n \in Nat
  BY LenProperties DEF Text
<1>2. PICK g \in [0..n -> TokenState] :
          /\ g[0] = NoTokens
          /\ TokenizeQuery(query) = Flush(g[n]).tokens
          /\ \A k \in 1..n : g[k] = ReadSymbol(g[k - 1], query[k])
  BY TokenSteps
<1> DEFINE I == {k \in 0..n : Cut(query, k, g[k]) /\ Whole(query, k, g[k])}
<1>3. 0 \in I
  <2>1. g[0].tokens = <<>> /\ g[0].current = <<>>
    BY <1>2 DEF NoTokens
  <2>2. Ends(query, 0) = {0}
    BY AllEnds
  <2>3. SubSeq(query, 0 + 1, 0) = <<>> /\ SubSeq(KeptText(query), 1, 0) = <<>>
    BY SubSeqEmpty
  <2>4. Pieces(query, {0}) = {}
    BY DEF Pieces, Neighbours
  <2>5. ToSet(<<>>) = {} /\ FlattenSeq(<<>>) = <<>> /\ <<>> \o <<>> = <<>>
    <3>1. Len(<<>>) = 0 /\ DOMAIN <<>> = {} /\ <<>> \in Seq({})
      BY EmptySeq
    <3>2. QED
      BY <3>1, ConcatEmptySeq DEF ToSet, FlattenSeq
  <2>6. Cut(query, 0, g[0])
    <3>1. 0 \in Ends(query, 0) /\ \A x \in Ends(query, 0) : x <= 0
      BY <2>2
    <3>2. g[0].current = Unquote(SubSeq(query, 0 + 1, 0))
      BY <2>1, <2>3, UnquoteNothing
    <3>3. ToSet(g[0].tokens) = Pieces(query, Ends(query, 0)) \ {<<>>}
      BY <2>1, <2>2, <2>4, <2>5
    <3>4. QED
      BY <3>1, <3>2, <3>3 DEF Cut
  <2>7. Whole(query, 0, g[0])
    BY <2>1, <2>3, <2>5, UnquoteNothing DEF Whole
  <2>8. QED
    BY <1>1, <2>6, <2>7
<1>4. ASSUME NEW k \in 1..n, k - 1 \in I PROVE k \in I
  <2>1. k \in 0..n /\ k - 1 \in 0..n /\ g[k] = ReadSymbol(g[k - 1], query[k])
    BY <1>1, <1>2
  <2>2. g[k - 1] \in TokenState
    BY <1>2, <2>1
  <2>3. k \in OpenSpaces(query) <=> query[k] = Space /\ ~g[k - 1].inQuote
    BY <1>2, OpenIsRead
  <2>4. Cut(query, k, g[k])
    BY <1>4, <2>1, <2>2, <2>3, ReadCuts
  <2>5. Whole(query, k, g[k])
    BY <1>4, <2>1, <2>2, <2>3, ReadKeeps
  <2>6. QED
    BY <2>1, <2>4, <2>5
<1> HIDE DEF I
<1>5. Cut(query, n, g[n]) /\ Whole(query, n, g[n])
  <2>1. \A k \in 0..n : k \in I
    BY <1>1, <1>3, <1>4, InductionUpTo
  <2>2. n \in 0..n
    BY <1>1
  <2>3. QED
    BY <2>1, <2>2 DEF I
<1> DEFINE s == g[n]
           tokens == TokenizeQuery(query)
<1>6. s \in TokenState /\ n \in 0..Len(query)
  BY <1>1, <1>2
<1>7. tokens = IF s.current = <<>> THEN s.tokens ELSE Append(s.tokens, s.current)
  <2>1. s = [tokens |-> s.tokens, current |-> s.current, inQuote |-> s.inQuote]
    BY <1>6 DEF TokenState
  <2>2. tokens = Flush(s).tokens
    BY <1>2
  <2> HIDE DEF s, tokens
  <2>3. QED
    BY <2>1, <2>2 DEF Flush
<1> HIDE DEF tokens, s
<1>8. /\ Ends(query, n) = {0} \union OpenSpaces(query)
      /\ Ends(query, n) \in SUBSET (0..n)
  BY AllEnds
<1>9. ToSet(tokens) = Pieces(query, Ends(query, n) \union {n + 1}) \ {<<>>}
  BY <1>5, <1>6, <1>7, <1>8, FlushAdds DEF s
<1>10. Ends(query, n) \union {n + 1} = OpenSpaces(query) \union {0, Len(query) + 1}
  BY <1>8
<1>11. {Unquote(seg) : seg \in Segments(query, OpenSpaces(query))} =
          Pieces(query, OpenSpaces(query) \union {0, Len(query) + 1})
  BY PiecesAreSegments
<1>12. ToSet(tokens) =
          {Unquote(seg) : seg \in Segments(query, OpenSpaces(query))} \ {<<>>}
  BY <1>9, <1>10, <1>11
<1>13. FlattenSeq(tokens) = Unquote(KeptText(query))
  <2>1. /\ FlattenSeq(Append(s.tokens, s.current)) = FlattenSeq(s.tokens) \o s.current
        /\ FlattenSeq(s.tokens) \o <<>> = FlattenSeq(s.tokens)
    BY <1>6, TokensFlatten
  <2>2. FlattenSeq(tokens) = FlattenSeq(s.tokens) \o s.current
    <3>1. CASE s.current = <<>>
      BY <1>7, <2>1, <3>1
    <3>2. CASE s.current # <<>>
      BY <1>7, <2>1, <3>2
    <3>3. QED
      BY <3>1, <3>2
  <2>3. SubSeq(KeptText(query), 1, n) = KeptText(query)
    BY KeptTextTyped, SubSeqFull
  <2>4. QED
    BY <1>5, <2>2, <2>3 DEF Whole, s
<1>14. QED
  BY <1>12, <1>13 DEF TokensAreCutAtOpenSpaces, KeptText, tokens

-----------------------------------------------------------------------------
(***************************************************************************)
(* The theorems.                                                           *)
(***************************************************************************)
\* A query is made of symbols, after any number of strokes.
TypedText == query \in Text /\ strokes \in 0..MaxStrokes

LEMMA TypedTextInvariant == Spec => []TypedText
<1>1. Init => TypedText
  BY DeltaSearchAssumption, EmptySeq DEF Init, TypedText, Text
<1>2. TypedText /\ [Next]_vars => TypedText'
  <2> SUFFICES ASSUME TypedText, [Next]_vars PROVE TypedText'
    OBVIOUS
  <2>1. CASE Next
    <3>1. PICK stroke \in Strokes : Type(stroke)
      BY <2>1 DEF Next
    <3>2. stroke \in Seq(Symbols) /\ query \in Seq(Symbols)
      BY DeltaSearchAssumption DEF TypedText, Text
    <3>3. query' \in Text
      BY <3>1, <3>2, ConcatProperties DEF Type, Text
    <3>4. strokes' \in 0..MaxStrokes
      BY <3>1, DeltaSearchAssumption DEF Type, TypedText
    <3>5. QED
      BY <3>3, <3>4 DEF TypedText
  <2>2. CASE UNCHANGED vars
    BY <2>2 DEF vars, TypedText
  <2>3. QED
    BY <2>1, <2>2
<1>3. QED
  BY <1>1, <1>2, PTL DEF Spec

LEMMA QueryTyped ==
    ASSUME TypedText
    PROVE  QueryType
<1>1. query \in Seq(Symbols) /\ strokes \in 0..MaxStrokes
  BY DEF TypedText, Text
<1>2. \A token \in ToSet(TokenizeQuery(query)) : token # <<>>
  <2>1. TokenizeQuery(query) \in Seq(Token)
    BY TokensTyped DEF TypedText
  <2> DEFINE tokens == TokenizeQuery(query)
  <2> HIDE DEF tokens
  <2>2. \A i \in DOMAIN tokens : tokens[i] \in Token
    BY <2>1, LenProperties, ElementOfSeq DEF tokens
  <2>3. \A token \in ToSet(tokens) : token # <<>>
    BY <2>2 DEF ToSet, Token
  <2>4. QED
    BY <2>3 DEF tokens
<1>3. \A match \in Search(ParseZoektQuery(query)) :
         match[1] \in Paths /\ match[2] \in DOMAIN FileTexts[match[1]]
  BY SearchFindsLines
<1>4. QED
  BY <1>1, <1>2, <1>3 DEF QueryType

\* Whatever is typed, tokens are not empty and what is found are lines of the
\* files (tokenizeQuery and DeltaIndex.Search).
THEOREM QueriesTyped == Spec => []QueryType
<1>1. TypedText => QueryType
  BY QueryTyped
<1>2. QED
  BY <1>1, TypedTextInvariant, PTL

\* tokenizeQuery cuts at the spaces outside quotes, and only there, and drops
\* nothing but these and the quotes.
THEOREM TokensCut == Spec => []TokensAreCutAtOpenSpaces
<1>1. TypedText => TokensAreCutAtOpenSpaces
  BY TokensAreCut DEF TypedText
<1>2. QED
  BY <1>1, TypedTextInvariant, PTL

\* The trigram filter hides a matching line only in a file that lacks a run of
\* three or more characters of the pattern (extractLiterals, Candidates).
THEOREM HiddenForARun == Spec => []MissedOnlyForARun
<1>1. TypedText => MissedOnlyForARun
  BY MissedForARun DEF TypedText
<1>2. QED
  BY <1>1, TypedTextInvariant, PTL
=============================================================================
