----------------------------- MODULE MCWorktree -----------------------------
(***************************************************************************)
(* An instance of Worktree for TLC: "a", "b", "a b", "d/a" and a path that *)
(* git quotes.                                                             *)
(***************************************************************************)
EXTENDS Worktree

CONSTANTS w, x, u, d, text, other, bin

Plain    == [dir |-> NoDir, name |-> <<w>>, quoted |-> FALSE]
Second   == [dir |-> NoDir, name |-> <<x>>, quoted |-> FALSE]
Spaced   == [dir |-> NoDir, name |-> <<w, x>>, quoted |-> FALSE]
InDir    == [dir |-> d, name |-> <<w>>, quoted |-> FALSE]
Escaped  == [dir |-> NoDir, name |-> <<u>>, quoted |-> FALSE]

AllPaths   == {Plain, Second, Spaced, InDir, Escaped}
Names      == {w, x, u}
QuotedName == {u}
OneDir     == {d}
Texts      == {text, other, bin}
Binary     == {bin}

\* "a" and "a b" are committed.
Committed == [p \in Paths |-> IF p.dir = NoDir /\ p.name[1] = w
                              THEN text ELSE Absent]
=============================================================================
