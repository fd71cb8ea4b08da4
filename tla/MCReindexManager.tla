-------------------------- MODULE MCReindexManager --------------------------
(***************************************************************************)
(* Instances of ReindexManager for TLC.  What varies is who runs when; the *)
(* contents of the working trees play no part in these properties.         *)
(***************************************************************************)
EXTENDS ReindexManager, TLC

CONSTANTS r1, r2, w1, w2, c1, c2, main_branch

TwoRepos     == {r1, r2}
OneBranch    == {main_branch}
OneHead      == {1}
OneCaller    == {c1}
TwoCallers   == {c1, c2}
TwoWorkers   == {w1, w2}

\* Workers and callers are interchangeable, and so are the repos.
Symmetric == Permutations(Workers) \union Permutations(Callers)
                 \union Permutations(Repos)

(***************************************************************************)
(* For liveness: every repo is tracked from the start and the poller only  *)
(* triggers.  What else it writes to the table has no part in who waits    *)
(* for whom.                                                               *)
(***************************************************************************)
TrackedInit ==
    /\ JobsInit
    /\ repos = [r \in Repos |->
                  NewRepoState([branch |-> main_branch, sha |-> 1], Clean)]

TrackedSpec ==
    /\ TrackedInit
    /\ [][(main # "exited" /\ ManagerNext) \/ Terminated]_vars
    /\ Fairness
=============================================================================
