------------------------------ MODULE Worktree ------------------------------
(***************************************************************************)
(* One repository between HEAD, the index and the working tree, and the    *)
(* delta index that a poll (poller.go) or a reindex (reindex.go) makes of  *)
(* what git status prints.  Vanzelf has git name each file that differs    *)
(* from HEAD, once and by its name; here it names them as git does: with   *)
(* renames, conflicts, untracked directories and unusual names.  HEAD      *)
(* stays where it is, and each poll is one step.                           *)
(***************************************************************************)
EXTENDS Naturals, FiniteSets, Porcelain

CONSTANTS
    Paths,          \* the paths of the repository
    Unusual,        \* the words that make git quote a path
    Contents, BinaryContents,
    Absent,         \* no such file
    NoDelta,        \* the nil *DeltaIndex
    FirstTree,      \* the tree of HEAD
    MaxSteps        \* bound: steps of the user

Tree == [Paths -> Contents \union {Absent}]

ASSUME WorktreeAssumption ==
    /\ Paths \subseteq Path /\ IsFiniteSet(Paths)
    /\ \A p \in Paths : ~p.quoted /\ p.name # <<>>
    /\ Unusual \subseteq Words
    /\ BinaryContents \subseteq Contents /\ Absent \notin Contents
    /\ FirstTree \in Tree
    /\ MaxSteps \in Nat

VARIABLES
    index,    \* what git add has staged
    wt,       \* the working tree
    conflict, \* the paths that a merge left in conflict
    dirty,    \* the table's DirtyFiles
    delta,    \* the table's DeltaIndex
    steps     \* steps of the user so far

user == <<index, wt, conflict, steps>>
vars == <<user, dirty, delta>>

head == FirstTree

-----------------------------------------------------------------------------
(***************************************************************************)
(* git status --porcelain=v2.                                              *)
(***************************************************************************)
Tracked(p) == index[p] # Absent \/ p \in conflict

Untracked(p) == ~Tracked(p) /\ wt[p] # Absent

Change(from, to) ==
    CASE from = to                    -> "."
      [] from = Absent /\ to # Absent -> "A"
      [] from # Absent /\ to = Absent -> "D"
      [] OTHER                        -> "M"

X(p) == Change(head[p], index[p])
Y(p) == IF index[p] = Absent THEN "." ELSE Change(index[p], wt[p])

\* A path staged as deleted and one staged as added with the same content.
RenamePairs ==
    {pair \in (Paths \ conflict) \X (Paths \ conflict) :
        /\ X(pair[1]) = "D" /\ X(pair[2]) = "A"
        /\ head[pair[1]] = index[pair[2]]}

Matching(pairs) ==
    \A m, n \in pairs : m[1] = n[1] \/ m[2] = n[2] => m = n

Renames ==
    CHOOSE pairs \in SUBSET RenamePairs :
        /\ Matching(pairs)
        /\ \A other \in SUBSET RenamePairs :
              Matching(other) => Cardinality(other) <= Cardinality(pairs)

Printed(p) == [p EXCEPT !.quoted = \E w \in Unusual : Contains(p.name, w)]

HasTracked(dir) == dir = NoDir \/ \E p \in Paths : p.dir = dir /\ Tracked(p)

\* A directory that holds no tracked file is printed instead of its files.
PrintedUntracked(p) ==
    IF HasTracked(p.dir) THEN Printed(p)
    ELSE [dir |-> p.dir, name |-> <<>>, quoted |-> FALSE]

GitStatus ==
    LET none   == <<".", ".">>
        pairs  == Renames
        paired == UNION {{m[1], m[2]} : m \in pairs}
        single == {p \in Paths \ (conflict \union paired) :
                      <<X(p), Y(p)>> # none}
        tracked ==
            {Line("1", <<X(p), Y(p)>>, Printed(p), Printed(p)) : p \in single}
            \union
            {Line("2", <<"R", Y(m[2])>>, Printed(m[2]), Printed(m[1])) : m \in pairs}
            \union
            {Line("u", none, Printed(p), Printed(p)) : p \in conflict}
        untracked ==
            {Line("?", none, PrintedUntracked(p), PrintedUntracked(p)) :
                p \in {q \in Paths : Untracked(q)}}
    IN  SetToSeq(tracked) \o SetToSeq(untracked)

-----------------------------------------------------------------------------
(***************************************************************************)
(* The user.                                                               *)
(***************************************************************************)
UserMoves == steps < MaxSteps /\ steps' = steps + 1

Write(p, content) ==
    /\ UserMoves
    /\ wt[p] # content
    /\ wt' = [wt EXCEPT ![p] = content]
    /\ UNCHANGED <<index, conflict>>

\* git add, which also marks a conflict as resolved.
Stage(p) ==
    /\ UserMoves
    /\ index[p] # wt[p] \/ p \in conflict
    /\ index' = [index EXCEPT ![p] = wt[p]]
    /\ conflict' = conflict \ {p}
    /\ UNCHANGED wt

\* git rm --cached
Untrack(p) ==
    /\ UserMoves
    /\ index[p] # Absent /\ p \notin conflict
    /\ index' = [index EXCEPT ![p] = Absent]
    /\ UNCHANGED <<wt, conflict>>

\* git merge stops at a path that both sides have changed.
Merge(p, content) ==
    /\ UserMoves
    /\ p \notin conflict
    /\ head[p] # Absent /\ index[p] = head[p] /\ wt[p] = head[p]
    /\ conflict' = conflict \union {p}
    /\ wt' = [wt EXCEPT ![p] = content]
    /\ UNCHANGED index

User ==
    /\ \E p \in Paths :
          \/ \E content \in Contents \union {Absent} : Write(p, content)
          \/ Stage(p)
          \/ Untrack(p)
          \/ \E content \in Contents : Merge(p, content)
    /\ UNCHANGED <<dirty, delta>>

-----------------------------------------------------------------------------
(***************************************************************************)
(* BuildDeltaIndex, and the two places that call it.                       *)
(***************************************************************************)
EmptyDelta == [files |-> <<>>, tombstones |-> {}, dirtyPaths |-> {}]

DeltaIndex == [files      : UNION {[ps -> Contents \ BinaryContents] :
                                      ps \in SUBSET Paths},
               tombstones : SUBSET Path,
               dirtyPaths : SUBSET Path]

ASSUME NilAssumption == NoDelta \notin DeltaIndex

\* os.ReadFile of a name as printed.
ReadFile(path) == IF path \in Paths THEN wt[path] ELSE Absent

Text(content) == IF content \in BinaryContents THEN Absent ELSE content

Assign(files, path, content) ==
    [p \in DOMAIN files \union {path} |-> IF p = path THEN content ELSE files[p]]

\* Mutant: a file that cannot be read is indexed as if it were empty.
AddUnread(built, file) ==
    [built EXCEPT !.files = Assign(@, file.path, ReadFile(file.path)),
                  !.dirtyPaths = @ \union {file.path}]

AddFile(built, file) ==
    LET content == ReadFile(file.path)
        gone    == file.status = "deleted" \/ content = Absent
    IN  [files      |-> IF gone \/ content \in BinaryContents THEN built.files
                        ELSE Assign(built.files, file.path, content),
         tombstones |-> IF gone THEN built.tombstones \union {file.path}
                        ELSE built.tombstones,
         dirtyPaths |-> built.dirtyPaths \union {file.path}]

BuildDeltaIndex(list) == FoldLeft(AddFile, EmptyDelta, list)

\* GetDirtyFiles
List == ParsePorcelainV2(GitStatus)

Rebuilt(list) == IF list = <<>> THEN NoDelta ELSE BuildDeltaIndex(list)

\* The delta of a poll that finds neither the branch nor HEAD changed.
Polled(list) ==
    IF list = <<>> THEN NoDelta
    ELSE IF DirtySetChanged(dirty, list) THEN BuildDeltaIndex(list)
    ELSE delta

\* pollRepo, when neither the branch nor HEAD has changed.
Poll ==
    LET new == List
    IN  /\ dirty' = new
        /\ delta' = Polled(new)
        /\ UNCHANGED user

\* The end of a reindex.
Rebuild ==
    /\ delta' = Rebuilt(List)
    /\ UNCHANGED <<user, dirty>>

Init ==
    /\ index = head /\ wt = head /\ conflict = {}
    /\ dirty = <<>> /\ delta = NoDelta
    /\ steps = 0

Next == User \/ Poll \/ Rebuild

Spec == Init /\ [][Next]_vars

-----------------------------------------------------------------------------
(***************************************************************************)
(* Properties.                                                             *)
(***************************************************************************)
WorktreeType ==
    /\ {index, wt} \subseteq Tree
    /\ conflict \subseteq Paths
    /\ \A i \in DOMAIN dirty :
          dirty[i] \in [path : Path, status : {"modified", "added", "deleted",
                                               "renamed", "unmerged"}]
    /\ delta \in DeltaIndex \union {NoDelta}
    /\ steps \in 0..MaxSteps

\* What a search shows of a path with delta d, when zoekt has indexed HEAD.
Shown(d, p) ==
    IF d # NoDelta /\ p \in d.dirtyPaths
    THEN IF p \in DOMAIN d.files THEN d.files[p] ELSE Absent
    ELSE Text(head[p])

Clean(p) == p \notin conflict /\ {index[p], wt[p]} = {head[p]}

\* p has no entry of git's, but at most the line of an untracked path.
Unlisted(p) == Clean(p) \/ (~Tracked(p) /\ head[p] = Absent)

\* The parser gets the path's own name, which is printed as it is, has no
\* space in an entry and is no file of a new directory, and takes no other
\* path's entry for p's.
Nameable(p) ==
    /\ ~Printed(p).quoted
    /\ Len(p.name) = 1 \/ Unlisted(p)
    /\ Untracked(p) => HasTracked(p.dir)
    /\ \A q \in Paths \ {p} : FirstField(Printed(q)) = p => Unlisted(q)

(***************************************************************************)
(* The next three say what the delta of a reindex, or of a poll, would be  *)
(* in each state: a poll that changes nothing can be as wrong as another.  *)
(***************************************************************************)

\* After a reindex the delta shows each file that has such a name as it is in
\* the working tree, through every combination of staged and unstaged
\* changes, renames, conflicts and files dropped from the index, whatever the
\* names of the other files.
RebuildIsExact ==
    LET built == Rebuilt(List)
    IN  \A p \in Paths : Nameable(p) => Shown(built, p) = Text(wt[p])

Entry(list, p) == IF p \in PathsIn(list) THEN StatusIn(list, p) ELSE "clean"

\* A poll shows a file wrongly in three cases only: git lists it with the same
\* status as at the poll before (it was dirty already and edited again); git
\* lists it at neither poll, and the delta of a reindex between them names it
\* (an edit that has been undone); or as many files are listed as before, and
\* this one became clean or became modified.
PollLagsBehindEdits ==
    LET list  == List
        after == Polled(list)
    IN  \A p \in Paths :
            LET old == Entry(dirty, p)
                new == Entry(list, p)
            IN  Nameable(p) /\ Shown(after, p) # Text(wt[p]) =>
                    \/ old = new /\ old # "clean"
                    \/ /\ old = "clean" /\ new = "clean"
                       /\ delta # NoDelta /\ p \in delta.dirtyPaths
                    \/ /\ Len(dirty) = Len(list)
                       /\ \/ old # "clean" /\ new = "clean"
                          \/ old = "clean" /\ new = "modified"
=============================================================================
