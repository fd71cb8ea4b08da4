------------------------------ MODULE Restarts ------------------------------
(***************************************************************************)
(* zoekt-vanzelf killed at any moment and started again, as launchd does   *)
(* (README.md: RunAtLoad and KeepAlive).  The table, the claims, the locks *)
(* and the watches are lost; the shards stay, and a zoekt-git-index of the *)
(* old process may live on and publish its shard later.                    *)
(***************************************************************************)
EXTENDS Vanzelf

CONSTANT MaxCrashes \* bound: crashes of the program

ASSUME RestartAssumption == MaxCrashes \in Nat

VARIABLES
    orphan, \* per repo: the commit that a surviving zoekt-git-index indexes
    crashes \* crashes so far

crashVars == <<orphan, crashes>>

RestartInit ==
    /\ SystemInit
    /\ orphan = [r \in Repos |-> NoSHA]
    /\ crashes = 0

\* The commit a run has resolved or is about to resolve.
Target(w) ==
    CASE run[w].stage = "resolved"               -> run[w].sha
      [] At(w, "index") /\ run[w].stage = "none" -> HeadOf(worker[w].repo)
      [] OTHER                                   -> NoSHA

\* Mutant: the new process starts on the table of the old one.
KeptManager ==
    /\ busy' = {} /\ sem' = 0 /\ wg' = 0
    /\ claimed' = [c \in Callers |-> NoRepo]
    /\ sweep' = [c \in Callers |-> {}]
    /\ worker' = [w \in Workers |-> IdleWorker]
    /\ UNCHANGED <<repos, main>>

FreshManager ==
    /\ repos' = EmptyTable
    /\ busy' = {} /\ sem' = 0 /\ wg' = 0
    /\ claimed' = [c \in Callers |-> NoRepo]
    /\ sweep' = [c \in Callers |-> {}]
    /\ worker' = [w \in Workers |-> IdleWorker]
    /\ UNCHANGED main

Restart ==
    /\ crashes < MaxCrashes
    /\ crashes' = crashes + 1
    /\ FreshManager
    /\ lock' = AllFree /\ poll' = FreshPollers
    /\ watched' = {} /\ pending' = {}
    /\ run' = NoRuns /\ listing' = NoListings
    /\ pathToSHA' \in {shard, EmptyMap}
    /\ \E alive \in SUBSET {w \in Workers : Target(w) # NoSHA} :
          orphan' = [r \in Repos |->
              IF \E w \in alive : worker[w].repo = r
              THEN Target(CHOOSE w \in alive : worker[w].repo = r)
              ELSE orphan[r]]
    /\ UNCHANGED <<world, shard>>

\* The process that lost its parent ends.
OrphanPublishes(r) ==
    /\ orphan[r] # NoSHA
    /\ shard' = [shard EXCEPT ![r] = orphan[r]]
    /\ orphan' = [orphan EXCEPT ![r] = NoSHA]
    /\ UNCHANGED <<vars, pollVars, watchVars, world, run, listing, crashes>>

RestartNext ==
    \/ SystemNext /\ UNCHANGED crashVars
    \/ Restart
    \/ \E r \in Repos : OrphanPublishes(r)

RestartSpec == RestartInit /\ [][RestartNext]_<<allVars, crashVars>>

\* A process that lives on ends; crashes are no one's duty.
FairRestartSpec ==
    /\ RestartSpec
    /\ PollerFairness
    /\ JobFairness
    /\ SchedulerFairness
    /\ \A r \in Repos : WF_<<allVars, crashVars>>(OrphanPublishes(r))

-----------------------------------------------------------------------------
(***************************************************************************)
(* Properties.                                                             *)
(***************************************************************************)
RestartType ==
    /\ SystemType
    /\ orphan \in [Repos -> SHA]
    /\ crashes \in 0..MaxCrashes

\* The poller and the jobs use the manager as its own module describes, from
\* each start of the program to its end, so that what is proved of
\* ReindexManager holds in the program.
UsesManager == Init /\ [][Next \/ Init']_vars
=============================================================================
