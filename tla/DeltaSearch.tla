---------------------------- MODULE DeltaSearch ----------------------------
(***************************************************************************)
(* DeltaIndex.Search of internal/rapid/delta.go and the trigram index of   *)
(* trigram.go that chooses the files to search, on a delta of fixed files, *)
(* for every query that a user can type in a few strokes.                  *)
(***************************************************************************)
EXTENDS Query

CONSTANTS
    FileTexts, \* the delta's Files: per path the lines of its text
    LongMark,  \* the first symbol of a line of more than 64 KB
    Strokes,   \* the sequences of symbols that are typed at once
    MaxStrokes \* bound: strokes of a query

VARIABLES query, strokes

vars == <<query, strokes>>

Paths == DOMAIN FileTexts

NewLine == "\n"

Symbols ==
    {Space, NewLine} \union
    UNION {ToSet(seq) : seq \in Strokes \union UNION {ToSet(FileTexts[p]) : p \in Paths}}

ASSUME DeltaSearchAssumption ==
    /\ \A path \in Paths : FileTexts[path] \in Seq(Seq(Symbols))
    /\ Strokes \subseteq Seq(Symbols)
    /\ MaxStrokes \in Nat

Data(path) ==
    FlattenSeq([i \in DOMAIN FileTexts[path] |->
                   Append(FileTexts[path][i], NewLine)])

-----------------------------------------------------------------------------
(***************************************************************************)
(* trigram.go                                                              *)
(***************************************************************************)
ExtractTrigrams(data) == {SubSeq(data, i, i + 2) : i \in 1..(Len(data) - 2)}

\* TrigramIndex.Add, for each file: the files that contain a trigram.
Postings(trigram) == {path \in Paths : trigram \in ExtractTrigrams(Data(path))}

\* The postings of one trigram, less those that another trigram does not have.
Candidates(trigrams) ==
    {path \in Paths : \A t \in trigrams : path \in Postings(t)}

-----------------------------------------------------------------------------
(***************************************************************************)
(* extractLiterals and Search                                              *)
(***************************************************************************)
Meta == {"?", "|"}

NoLiterals == [literals |-> {}, current |-> <<>>, escaped |-> FALSE]

\* A run of fewer than three characters has no trigram.
EndLiteral(s) ==
    [s EXCEPT !.literals = IF Len(s.current) < 3 THEN @ ELSE @ \union {s.current},
              !.current = <<>>]

\* Mutant: what precedes and follows an operator is one run.
ReadJoined(s, c) ==
    IF c \in Meta THEN s ELSE [s EXCEPT !.current = Append(@, c)]

ReadPattern(s, c) ==
    LET add == [s EXCEPT !.current = Append(@, c), !.escaped = FALSE]
        end == [EndLiteral(s) EXCEPT !.escaped = FALSE]
    IN  IF s.escaped THEN IF c \in Meta THEN add ELSE end
        ELSE IF c = "\\" THEN [s EXCEPT !.escaped = TRUE]
        ELSE IF c \in Meta THEN end
        ELSE add

ExtractLiterals(pattern) ==
    EndLiteral(FoldLeft(ReadPattern, NoLiterals, pattern)).literals

QueryTrigrams(pattern) ==
    UNION {ExtractTrigrams(literal) : literal \in ExtractLiterals(pattern)}

\* bufio.Scanner ends at a line that is longer than its buffer.
ScannedLines(text) ==
    LET tooLong == SelectInSeq(text, LAMBDA line : Contains(line, LongMark))
    IN  IF tooLong = 0 THEN DOMAIN text ELSE 1..(tooLong - 1)

SearchInFile(path, re, fold) ==
    {<<path, n>> : n \in {m \in ScannedLines(FileTexts[path]) :
                             Matches(re, fold, FileTexts[path][m])}}

Search(pq) ==
    LET trigrams == QueryTrigrams(pq.pattern)
        candidates == IF trigrams = {} THEN Paths ELSE Candidates(trigrams)
    IN  IF pq.pattern = <<>> \/ ~Compiles(pq.pattern) THEN {}
        ELSE UNION {SearchInFile(path, pq.pattern, ~pq.caseSensitive) :
                       path \in {p \in candidates : MatchesFileFilter(pq, p)}}

-----------------------------------------------------------------------------
(***************************************************************************)
(* A user types a query.  A key is typed where a token starts, and letters *)
(* are not escaped: Regex has no \a, and no key inside a text.             *)
(***************************************************************************)
Letters == {"a", "A"}

Plain(re) == \A i \in DOMAIN re : re[i] \in Letters => i = 1 \/ re[i - 1] # "\\"

Typed(q) == FoldLeft(ReadSymbol, NoTokens, q)

Type(stroke) ==
    /\ strokes < MaxStrokes
    /\ strokes' = strokes + 1
    /\ stroke[1] \in Filters \union PatternKeys => Typed(query).current = <<>>
    /\ query' = query \o stroke
    /\ LET pq == ParseZoektQuery(query')
       IN  \A re \in {pq.pattern} \union ToSet(pq.files) : Plain(re)

Init == query = <<>> /\ strokes = 0

Next == \E stroke \in Strokes : Type(stroke)

Spec == Init /\ [][Next]_vars

-----------------------------------------------------------------------------
(***************************************************************************)
(* Properties.                                                             *)
(***************************************************************************)
QueryType ==
    /\ query \in Seq(Symbols) /\ strokes \in 0..MaxStrokes
    /\ \A token \in ToSet(TokenizeQuery(query)) : token # <<>>
    /\ \A match \in Search(ParseZoektQuery(query)) :
          match[1] \in Paths /\ match[2] \in DOMAIN FileTexts[match[1]]

Quotes(q, i) == Cardinality({j \in At(q, Quote) : j < i})

\* The spaces that are outside quotes, where an open quote never closes.
OpenSpaces(q) == {i \in At(q, Space) : Quotes(q, i) % 2 = 0}

Unquote(q) == FlattenSeq([i \in DOMAIN q |-> IF q[i] = Quote THEN <<>> ELSE <<q[i]>>])

\* The tokenizer, which reads from left to right, cuts a query at exactly the
\* spaces outside quotes and loses nothing but these and the quotes.
TokensAreCutAtOpenSpaces ==
    LET tokens == TokenizeQuery(query)
        open   == OpenSpaces(query)
        kept   == [i \in DOMAIN query |-> IF i \in open THEN Quote ELSE query[i]]
    IN  /\ ToSet(tokens) =
               {Unquote(seg) : seg \in Segments(query, open)} \ {<<>>}
        /\ FlattenSeq(tokens) = Unquote(kept)

\* The runs of a pattern between its operators.
Runs(pattern) ==
    LET atoms == Parse(pattern).atoms
        runs  == Segments(atoms, At(atoms, Alt) \union At(atoms, Opt))
    IN  {[i \in DOMAIN run |-> run[i].char] : run \in runs}

Within(run, path) == \E n \in DOMAIN FileTexts[path] : Occurs(run, FileTexts[path][n])

\* The trigrams of a pattern may hide a file that matches it, but only one
\* that lacks a run of three or more of its characters as it was typed: the
\* run is optional, belongs to one alternative, or is there in other letters.
\* A line that is not found is otherwise below one of more than 64 KB.
MissedOnlyForARun ==
    LET pq == ParseZoektQuery(query)
    IN  Compiles(pq.pattern) /\ pq.pattern # <<>> =>
        \A path \in Paths : \A n \in ScannedLines(FileTexts[path]) :
            /\ MatchesFileFilter(pq, path)
            /\ Matches(pq.pattern, ~pq.caseSensitive, FileTexts[path][n])
            /\ <<path, n>> \notin Search(pq)
            => \E run \in Runs(pq.pattern) : Len(run) >= 3 /\ ~Within(run, path)
=============================================================================
