----------------------------- MODULE Porcelain -----------------------------
(***************************************************************************)
(* ParsePorcelainV2 of internal/rapid/git.go: the lines that               *)
(* git status --porcelain=v2 prints, made into a list of dirty files.      *)
(*                                                                         *)
(* A path is a directory, or none, and the words of a name, the spaces     *)
(* being between them.  A path that git prints in quotes and with escapes  *)
(* is the name of no file.                                                 *)
(***************************************************************************)
EXTENDS SequencesExt

CONSTANTS
    Dirs,  \* directories below the repository's root
    NoDir, \* the root
    Words  \* words of file names

Path == [dir : Dirs \union {NoDir}, name : BoundedSeq(Words, 2), quoted : BOOLEAN]

\* A line of the output, by its first character; "!" is not asked for.
Line(kind, xy, path, orig) ==
    [kind |-> kind, xy |-> xy, path |-> path, orig |-> orig]

DirtyFile(path, status) == [path |-> path, status |-> status]

\* X is the status in the index and Y in the working tree.
ClassifyXY(xy) ==
    IF "D" \in {xy[1], xy[2]} THEN "deleted"
    ELSE IF xy[1] = "A" THEN "added"
    ELSE "modified"

\* bytes.Fields splits at the spaces of the path as at those before it.
FirstField(path) == [path EXCEPT !.name = <<Head(@)>>]

ParseOrdinaryEntry(line) ==
    <<DirtyFile(FirstField(line.path), ClassifyXY(line.xy))>>

ParseUnmergedEntry(line) == <<DirtyFile(FirstField(line.path), "unmerged")>>

\* Mutant: the old path of a rename is not in the list.
ParseRenameNewOnly(line) == <<DirtyFile(FirstField(line.path), "renamed")>>

ParseRenameEntry(line) ==
    LET new == FirstField(line.path)
        old == IF line.orig = new THEN <<>> ELSE <<DirtyFile(line.orig, "deleted")>>
    IN  <<DirtyFile(new, "renamed")>> \o old

ParseLine(line) ==
    CASE line.kind = "1" -> ParseOrdinaryEntry(line)
      [] line.kind = "2" -> ParseRenameEntry(line)
      [] line.kind = "u" -> ParseUnmergedEntry(line)
      [] line.kind = "?" -> <<DirtyFile(line.path, "added")>>

ParsePorcelainV2(lines) ==
    FlattenSeq([i \in DOMAIN lines |-> ParseLine(lines[i])])

-----------------------------------------------------------------------------
(***************************************************************************)
(* dirtySetChanged of state.go, on lists that may name a path twice.       *)
(***************************************************************************)
PathsIn(dirty) == {dirty[i].path : i \in DOMAIN dirty}

\* The map made of a list: the last entry of a path counts.
StatusIn(dirty, path) ==
    dirty[SelectLastInSeq(dirty, LAMBDA d : d.path = path)].status

\* A missing key reads as the first FileStatus.
LookUp(dirty, path) ==
    IF path \in PathsIn(dirty) THEN StatusIn(dirty, path) ELSE "modified"

\* Mutant: only the lengths are compared.
LengthChanged(old, new) == Len(old) # Len(new)

DirtySetChanged(old, new) ==
    \/ Len(old) # Len(new)
    \/ \E i \in DOMAIN new : LookUp(old, new[i].path) # new[i].status
=============================================================================
