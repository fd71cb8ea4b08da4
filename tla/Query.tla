------------------------------- MODULE Query -------------------------------
(***************************************************************************)
(* internal/rapid/query.go: what the delta search takes from a zoekt       *)
(* query.  A query is a sequence of symbols: characters, and the keys      *)
(* "file:", "repo:", "case:" and so on, each one symbol.                   *)
(***************************************************************************)
EXTENDS Regex

Space == " "
Quote == "\""

-----------------------------------------------------------------------------
(***************************************************************************)
(* tokenizeQuery                                                           *)
(***************************************************************************)
NoTokens == [tokens |-> <<>>, current |-> <<>>, inQuote |-> FALSE]

\* Mutant: empty tokens between two spaces.
FlushEmpty(s) == [s EXCEPT !.tokens = Append(@, s.current), !.current = <<>>]

Flush(s) ==
    IF s.current = <<>> THEN s
    ELSE [s EXCEPT !.tokens = Append(@, s.current), !.current = <<>>]

\* Mutant: a space ends a token inside quotes too.
ReadUnquoted(s, c) ==
    IF c = Quote THEN [s EXCEPT !.inQuote = ~@]
    ELSE IF c = Space THEN Flush(s)
    ELSE [s EXCEPT !.current = Append(@, c)]

ReadSymbol(s, c) ==
    IF c = Quote THEN [s EXCEPT !.inQuote = ~@]
    ELSE IF c = Space /\ ~s.inQuote THEN Flush(s)
    ELSE [s EXCEPT !.current = Append(@, c)]

TokenizeQuery(q) == Flush(FoldLeft(ReadSymbol, NoTokens, q)).tokens

-----------------------------------------------------------------------------
(***************************************************************************)
(* ParseZoektQuery and MatchesFileFilter                                   *)
(***************************************************************************)
\* The filters that a delta search does not apply.
Skipped == {"-repo:", "-file:", "lang:", "-lang:"}

Filters == Skipped \union {"file:", "repo:", "case:"}

\* What follows these is a part of the pattern.
PatternKeys == {"sym:", "content:"}

NoQuery == [parts |-> <<>>, files |-> <<>>, repos |-> <<>>, caseSensitive |-> FALSE]

ReadToken(pq, token) ==
    LET key   == token[1]
        value == Tail(token)
    IN  CASE key \in Skipped     -> pq
          [] key = "file:"       -> [pq EXCEPT !.files = Append(@, value)]
          [] key = "repo:"       -> [pq EXCEPT !.repos = Append(@, value)]
          [] key = "case:"       -> [pq EXCEPT !.caseSensitive = (value = <<"yes">>)]
          [] key \in PatternKeys -> [pq EXCEPT !.parts = Append(@, value)]
          [] OTHER               -> [pq EXCEPT !.parts = Append(@, token)]

\* strings.Join, with a space
Join(parts) ==
    FlattenSeq([i \in DOMAIN parts |-> IF i = 1 THEN parts[i] ELSE <<Space>> \o parts[i]])

ParseZoektQuery(q) ==
    LET read == FoldLeft(ReadToken, NoQuery, TokenizeQuery(q))
    IN  [pattern |-> Join(read.parts), files |-> read.files, repos |-> read.repos,
         caseSensitive |-> read.caseSensitive]

MatchesFileFilter(pq, path) ==
    \/ pq.files = <<>>
    \/ \E i \in DOMAIN pq.files :
          Compiles(pq.files[i]) /\ Matches(pq.files[i], FALSE, path)
=============================================================================
