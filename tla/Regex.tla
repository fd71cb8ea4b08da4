------------------------------- MODULE Regex -------------------------------
(***************************************************************************)
(* What delta.go and query.go ask of Go's regexp package, for the regular  *)
(* expressions made of characters, "?", "|" and escapes of these: such an  *)
(* expression stands for a finite set of words.  A text or an expression   *)
(* is a sequence of characters.                                            *)
(***************************************************************************)
EXTENDS Naturals, SequencesExt

\* The letters of the instances are "a" and "A".
Lower(text) == [i \in DOMAIN text |-> IF text[i] = "A" THEN "a" ELSE text[i]]

Occurs(word, text) ==
    \E i \in 0..(Len(text) - Len(word)) :
        SubSeq(text, i + 1, i + Len(word)) = word

\* The maximal runs of a sequence between the positions in cuts.
Segments(seq, cuts) ==
    LET ends == cuts \union {0, Len(seq) + 1}
    IN  {SubSeq(seq, ij[1] + 1, ij[2] - 1) :
            ij \in {xy \in ends \X ends :
                /\ xy[1] < xy[2]
                /\ \A k \in ends : ~(xy[1] < k /\ k < xy[2])}}

At(seq, symbol) == {i \in DOMAIN seq : seq[i] = symbol}

Char(c) == [char |-> c, literal |-> TRUE]
Opt     == [char |-> "?", literal |-> FALSE]
Alt     == [char |-> "|", literal |-> FALSE]

\* An expression as characters and operators; a backslash makes a character
\* of the operator that follows.
ReadAtom(s, c) ==
    IF s.escaped THEN [atoms |-> Append(s.atoms, Char(c)), escaped |-> FALSE]
    ELSE IF c = "\\" THEN [s EXCEPT !.escaped = TRUE]
    ELSE [s EXCEPT !.atoms = Append(@, [char |-> c, literal |-> c \notin {"?", "|"}])]

Parse(re) == FoldLeft(ReadAtom, [atoms |-> <<>>, escaped |-> FALSE], re)

\* An escape is complete, and "?" does not follow the start of an
\* alternative or "??".  (x?? is x?, as far as it matters what matches.)
Compiles(re) ==
    LET atoms == Parse(re).atoms
    IN  /\ ~Parse(re).escaped
        /\ \A i \in At(atoms, Opt) :
              /\ i > 1 /\ atoms[i - 1] # Alt
              /\ atoms[i - 1] = Opt => atoms[i - 2] # Opt

Extend(words, atoms, i) ==
    LET longer == {Append(word, atoms[i].char) : word \in words}
    IN  IF atoms[i] = Opt THEN words
        ELSE IF i < Len(atoms) /\ atoms[i + 1] = Opt THEN words \union longer
        ELSE longer

WordsOf(alternative) ==
    FoldLeftDomain(LAMBDA words, i : Extend(words, alternative, i),
                   {<<>>}, alternative)

Language(re) ==
    LET atoms == Parse(re).atoms
    IN  UNION {WordsOf(alt) : alt \in Segments(atoms, At(atoms, Alt))}

\* re.MatchString; fold is what the prefix (?i) asks for.
Matches(re, fold, text) ==
    \E word \in Language(re) :
        IF fold THEN Occurs(Lower(word), Lower(text)) ELSE Occurs(word, text)
=============================================================================
