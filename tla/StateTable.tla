----------------------------- MODULE StateTable -----------------------------
(***************************************************************************)
(* The repo state table of internal/rapid/state.go and the delta value it  *)
(* holds for each repo (the result of BuildDeltaIndex, delta.go), as       *)
(* operators on a table value.  The Go table is a map guarded by one       *)
(* RWMutex and every method is a single critical section, so a method is   *)
(* one operator and a caller applies it in one atomic step.                *)
(*                                                                         *)
(* A commit id is a natural number, 0 being Go's empty string.  A file     *)
(* content is one value; Absent means that the path does not exist.        *)
(***************************************************************************)
EXTENDS Naturals, FiniteSets

CONSTANTS
    Repos,          \* repository paths
    Branches,       \* branch names git can report
    Files,          \* repo-relative file paths
    Contents,       \* contents a file can have
    BinaryContents, \* the contents that hold a NUL byte in their first 8 KB
    Absent,         \* "no such file"
    NotTracked,     \* the nil *RepoState of a path the table does not hold
    NoDelta,        \* the nil *DeltaIndex
    NoBranch        \* the empty OldBranch of a repo seen for the first time

ASSUME BinaryAssumption == BinaryContents \subseteq Contents
ASSUME FilesAssumption == IsFiniteSet(Files)
ASSUME NilAssumption ==
    /\ Absent \notin Contents
    /\ NoBranch \notin Branches

NoSHA == 0
SHA   == Nat

Status     == {"idle", "indexing", "stale", "error"}
FileStatus == {"modified", "added", "deleted", "renamed", "copied", "unmerged"}

\* Go's zero FileStatus, which a map lookup of a missing path yields.
ZeroFileStatus == "modified"

\* A []DirtyFile: each dirty path with its status.
DirtyLists == UNION {[paths -> FileStatus] : paths \in SUBSET Files}
Clean      == [f \in {} |-> ZeroFileStatus]

DeltaIndex == [files      : [Files -> Contents \union {Absent}],
               tombstones : SUBSET Files,
               dirtyPaths : SUBSET Files]

RepoState == [branch  : Branches,
              head    : SHA,
              indexed : SHA,
              dirty   : DirtyLists,
              delta   : DeltaIndex \union {NoDelta},
              status  : Status]

Table == [Repos -> RepoState \union {NotTracked}]

EmptyTable == [r \in Repos |-> NotTracked]

Tracked(table, r) == table[r] # NotTracked

Paths(table) == {r \in Repos : Tracked(table, r)}

-----------------------------------------------------------------------------
(***************************************************************************)
(* Setters: each one does nothing for a path the table does not hold.      *)
(***************************************************************************)
SetDelta(table, r, delta) ==
    IF Tracked(table, r) THEN [table EXCEPT ![r] = [@ EXCEPT !.delta = delta]]
                         ELSE table

SetStatus(table, r, status) ==
    IF Tracked(table, r) THEN [table EXCEPT ![r] = [@ EXCEPT !.status = status]]
                         ELSE table

SetIndexed(table, r, sha) ==
    IF Tracked(table, r) THEN [table EXCEPT ![r] = [@ EXCEPT !.indexed = sha]]
                         ELSE table

Remove(table, r) == [table EXCEPT ![r] = NotTracked]

-----------------------------------------------------------------------------
(***************************************************************************)
(* Update and the StateChange it returns.                                  *)
(***************************************************************************)

\* The lengths are compared first, then each new entry with what the map of
\* the old entries answers for its path: the zero status when it has none.
DirtySetChanged(old, new) ==
    \/ Cardinality(DOMAIN old) # Cardinality(DOMAIN new)
    \/ \E f \in DOMAIN new :
          (IF f \in DOMAIN old THEN old[f] ELSE ZeroFileStatus) # new[f]

NewRepoState(bh, dirty) ==
    [branch |-> bh.branch, head |-> bh.sha, indexed |-> NoSHA,
     dirty |-> dirty, delta |-> NoDelta, status |-> "stale"]

Update(table, r, bh, dirty) ==
    [table EXCEPT ![r] =
        IF Tracked(table, r)
        THEN [@ EXCEPT !.branch = bh.branch, !.head = bh.sha, !.dirty = dirty]
        ELSE NewRepoState(bh, dirty)]

StateChange(table, r, bh, dirty) ==
    IF Tracked(table, r)
    THEN [branchChanged |-> table[r].branch # bh.branch,
          oldBranch     |-> IF table[r].branch # bh.branch
                            THEN table[r].branch ELSE NoBranch,
          headChanged   |-> table[r].head # bh.sha,
          dirtyChanged  |-> DirtySetChanged(table[r].dirty, dirty)]
    ELSE [branchChanged |-> TRUE, oldBranch |-> NoBranch,
          headChanged |-> TRUE, dirtyChanged |-> TRUE]

-----------------------------------------------------------------------------
(***************************************************************************)
(* BuildDeltaIndex, one dirty path at a time: content is what the working  *)
(* tree held when the path was read.                                       *)
(***************************************************************************)
EmptyDelta == [files |-> [f \in Files |-> Absent],
               tombstones |-> {}, dirtyPaths |-> {}]

AddFile(delta, f, status, content) ==
    LET gone == status = "deleted" \/ content = Absent
        text == ~gone /\ content \notin BinaryContents
    IN  [files      |-> IF text THEN [delta.files EXCEPT ![f] = content]
                                ELSE delta.files,
         tombstones |-> IF gone THEN delta.tombstones \union {f}
                                ELSE delta.tombstones,
         dirtyPaths |-> delta.dirtyPaths \union {f}]

IndexedFiles(delta) == {f \in Files : delta.files[f] # Absent}
=============================================================================
