----------------------------- MODULE Discovery -----------------------------
(***************************************************************************)
(* internal/rapid/discovery.go: which repositories a walk of the roots     *)
(* finds.  A directory is the sequence of the names on its absolute path.  *)
(* What is on disk is a set of directories and the subset of those that    *)
(* have a .git directory (the .git directories themselves are left out).   *)
(***************************************************************************)
EXTENDS Naturals, SequencesExt

CONSTANTS
    Roots,        \* config: the directories to scan
    ScanDepth,    \* config: how deep to look below a root
    ExcludedNames \* the names in config's patterns of the form */name/*

ASSUME DiscoveryAssumption == ScanDepth \in Nat

Below(dirs, d)    == {e \in dirs : IsPrefix(d, e)}
Children(dirs, d) == {e \in Below(dirs, d) : Len(e) = Len(d) + 1}

Depth(root, d) == Len(d) - Len(root)

\* matchesAny: an excluded name anywhere on the absolute path, the part above
\* the root included.
Excluded(d) == Range(d) \intersect ExcludedNames # {}

\* Mutant: the walk goes on below a repository.
WalkIntoRepos(dirs, gits, root) ==
    LET walk[d \in Below(dirs, root)] ==
            IF Depth(root, d) > ScanDepth THEN {}
            ELSE {e \in {d} \intersect gits : ~Excluded(e)} \union
                 UNION {walk[e] : e \in Children(dirs, d)}
    IN  walk[root]

WalkForRepos(dirs, gits, root) ==
    LET walk[d \in Below(dirs, root)] ==
            IF Depth(root, d) > ScanDepth THEN {}
            ELSE IF d \in gits THEN {e \in {d} : ~Excluded(e)}
            ELSE UNION {walk[e] : e \in Children(dirs, d)}
    IN  walk[root]

\* A root that does not exist is skipped; a repo below two roots is seen once.
DiscoverRepos(dirs, gits) ==
    UNION {WalkForRepos(dirs, gits, root) : root \in Roots \intersect dirs}
=============================================================================
