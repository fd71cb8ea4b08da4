----------------------------- MODULE RestartsProofs -----------------------------
(***************************************************************************)
(* Proofs about the program over any number of crashes and starts: what    *)
(* holds from a start to an end also holds from one process to the next,   *)
(* although the shards, and a zoekt-git-index, outlive the process.        *)
(*                                                                         *)
(* What VanzelfProofs shows of one step of a process is used as it stands; *)
(* the two steps that are new are a restart, after which the process has   *)
(* the state of a start, and the end of an orphan, which adds a shard.     *)
(***************************************************************************)
EXTENDS Restarts, VanzelfProofs

OrphansSound ==
    /\ orphan \in [Repos -> Heads]
    /\ crashes \in 0..MaxCrashes

RestartSound == SystemSound /\ IdleSound /\ OrphansSound

restartVars == <<allVars, crashVars>>

LEMMA RestartInitSound == RestartInit => RestartSound /\ Init
<1> SUFFICES ASSUME RestartInit PROVE RestartSound /\ Init
  OBVIOUS
<1>1. SystemSound
  BY SystemInitSound DEF RestartInit
<1>2. IdleSound /\ Init
  <2>1. Started
    BY DEF RestartInit, SystemInit, Started
  <2>2. QED
    BY <2>1, StartedIdle DEF Started
<1>3. OrphansSound
  BY PollerAssumption, RestartAssumption DEF RestartInit, OrphansSound
<1>4. QED
  BY <1>1, <1>2, <1>3 DEF RestartSound

-----------------------------------------------------------------------------
(***************************************************************************)
(* A restart.                                                              *)
(***************************************************************************)
\* main.go: the new process has an empty table, no jobs, no polls and no maps
\* but those it fetches.
LEMMA RestartStarts ==
    ASSUME Serving, Restart
    PROVE  Started'
BY DEF Serving, Restart, FreshManager, Started, Init, JobsInit, PollerInit

\* The commits that a surviving zoekt-git-index may be about to publish.
LEMMA TargetType ==
    ASSUME SystemSound, NEW w \in Workers
    PROVE  Target(w) \in Heads
<1>1. NoSHA \in Heads
  BY PollerAssumption
<1>2. run[w].sha \in Heads
  BY DEF SystemSound, ShardsSound
<1>3. ASSUME At(w, "index")
      PROVE  HeadOf(worker[w].repo) \in Heads
  <2>1. worker[w].repo \in Repos
    BY <1>3 DEF SystemSound, Shape, JobsHaveRepo, Live, At
  <2>2. QED
    BY <2>1, HeadOfAnswer DEF SystemSound
<1>4. CASE run[w].stage = "resolved"
  BY <1>2, <1>4 DEF Target
<1>5. CASE run[w].stage # "resolved" /\ At(w, "index") /\ run[w].stage = "none"
  BY <1>3, <1>5 DEF Target
<1>6. CASE run[w].stage # "resolved" /\ ~(At(w, "index") /\ run[w].stage = "none")
  BY <1>1, <1>6 DEF Target
<1>7. QED
  BY <1>4, <1>5, <1>6

LEMMA RestartOrphans ==
    ASSUME SystemSound, OrphansSound, Restart
    PROVE  OrphansSound'
<1>1. PICK alive \in SUBSET {w \in Workers : Target(w) # NoSHA} :
          orphan' = [r \in Repos |->
              IF \E w \in alive : worker[w].repo = r
              THEN Target(CHOOSE w \in alive : worker[w].repo = r)
              ELSE orphan[r]]
  BY DEF Restart
<1>2. ASSUME NEW r \in Repos
      PROVE  orphan'[r] \in Heads
  <2> DEFINE v == CHOOSE w \in alive : worker[w].repo = r
  <2>1. CASE \E w \in alive : worker[w].repo = r
    <3>1. v \in alive
      BY <2>1
    <3>2. v \in Workers
      BY <3>1
    <3> HIDE DEF v
    <3>3. Target(v) \in Heads
      BY <3>2, TargetType
    <3>4. orphan'[r] = Target(v)
      BY <1>1, <2>1 DEF v
    <3>5. QED
      BY <3>3, <3>4
  <2>2. CASE ~\E w \in alive : worker[w].repo = r
    BY <1>1, <2>2 DEF OrphansSound
  <2>3. QED
    BY <2>1, <2>2
<1>3. orphan' \in [Repos -> Heads]
  BY <1>1, <1>2
<1>4. crashes' \in 0..MaxCrashes
  BY RestartAssumption DEF OrphansSound, Restart
<1>5. QED
  BY <1>3, <1>4 DEF OrphansSound

LEMMA RestartKeepsSound ==
    ASSUME RestartSound, Restart
    PROVE  RestartSound' /\ Init'
<1>1. SystemSound /\ Serving /\ OrphansSound
  BY DEF RestartSound, SystemSound
<1>2. Started'
  BY <1>1, RestartStarts
<1>3. (Shape /\ Counts /\ Serving /\ PollersSound)'
  BY <1>2, StartedSound, PTL
<1>4. IdleSound'
  BY <1>2, StartedIdle, PTL
<1>5. WatcherType'
  BY DEF Restart, WatcherType
<1>6. WorldShape'
  BY <1>1 DEF Restart, world, SystemSound, WorldShape, WorldType, Bounds,
     BranchesPointBack
<1>7. ShardsSound'
  <2>1. EmptyMap \in [Repos -> Heads]
    BY PollerAssumption DEF EmptyMap
  <2>2. shard \in [Repos -> Heads] /\ UNCHANGED shard
    BY <1>1 DEF Restart, SystemSound, ShardsSound
  <2>3. pathToSHA' \in {shard, EmptyMap} /\ run' = NoRuns /\ listing' = NoListings
    BY DEF Restart
  <2>4. QED
    BY <2>1, <2>2, <2>3, NoRunsSound DEF ShardsSound, NoListings
<1>8. OrphansSound'
  BY <1>1, RestartOrphans
<1>9. QED
  BY <1>2, <1>3, <1>4, <1>5, <1>6, <1>7, <1>8
     DEF RestartSound, SystemSound, Started

-----------------------------------------------------------------------------
(***************************************************************************)
(* The end of an orphan, and the steps of a process.                       *)
(***************************************************************************)
LEMMA OrphanKeepsSound ==
    ASSUME RestartSound, NEW r \in Repos, OrphanPublishes(r)
    PROVE  RestartSound' /\ UNCHANGED vars
<1>1. SystemSound /\ IdleSound /\ OrphansSound
  BY DEF RestartSound
<1>2. /\ orphan[r] # NoSHA /\ orphan[r] \in Heads
      /\ shard' = [shard EXCEPT ![r] = orphan[r]]
      /\ orphan' = [orphan EXCEPT ![r] = NoSHA]
      /\ UNCHANGED <<vars, pollVars, watchVars, world, run, listing, crashes>>
  BY <1>1 DEF OrphanPublishes, OrphansSound
<1>3. shard \in [Repos -> Heads]
  BY <1>1 DEF SystemSound, ShardsSound
<1>4. Shape' /\ Counts' /\ Serving'
  <2>1. Shape /\ Counts /\ Serving
    BY <1>1 DEF SystemSound
  <2>2. [Next]_vars
    BY <1>2
  <2>3. Shape' /\ Counts'
    BY <2>1, <2>2, NextShape
  <2>4. QED
    BY <1>2, <2>1, <2>3 DEF vars, Serving
<1>5. PollersSound' /\ WatcherType'
  BY <1>1, <1>2 DEF pollVars, watchVars, SystemSound, PollersSound, Exclusive,
     WatcherType
<1>6. WorldShape'
  BY <1>1, <1>2 DEF world, SystemSound, WorldShape, WorldType, Bounds,
     BranchesPointBack
<1>7. ShardsSound'
  BY <1>1, <1>2, <1>3 DEF SystemSound, ShardsSound, pollVars
<1>8. OrphansSound'
  BY <1>1, <1>2, PollerAssumption DEF OrphansSound
<1>9. \A q \in Repos : shard[q] # NoSHA => shard'[q] # NoSHA
  BY <1>2, <1>3
<1>10. UNCHANGED <<repos, worker, poll, pathToSHA, run, listing>>
  BY <1>2 DEF vars, jobVars, pollVars
<1>11. RunsPublish'
  <2>1. ASSUME NEW w \in Workers, worker[w].pc # "idle"
        PROVE  worker[w].repo \in Repos
    BY <1>1, <2>1 DEF SystemSound, Shape, JobsHaveRepo, Live
  <2>2. SUFFICES ASSUME NEW w \in Workers
                 PROVE  /\ run[w].stage # "none" => worker[w].pc = "index"
                        /\ run[w].stage = "resolved" => run[w].sha # NoSHA
                        /\ run[w].stage = "published" =>
                               shard'[worker[w].repo] # NoSHA
                        /\ worker[w].pc \in {"head", "record", "settle"} =>
                               shard'[worker[w].repo] # NoSHA
    BY <1>10 DEF RunsPublish, Published, At
  <2>3. QED
    BY <1>1, <1>9, <2>1 DEF IdleSound, RunsPublish, Published, At
<1>12. KnownIsPublished'
  BY <1>1, <1>9, <1>10 DEF IdleSound, KnownIsPublished, Published
<1>13. PollsTrust'
  <2>1. \A p \in Pollers : poll[p].pc \in InPoll => poll[p].repo \in Repos
    BY <1>1 DEF SystemSound, PollersSound, SoundPoll
  <2>2. {"current", "settle"} \subseteq InPoll
    BY DEF InPoll
  <2>3. SUFFICES ASSUME NEW p \in Pollers
                 PROVE  /\ poll[p].pc \in ForNew /\ Tracked(repos, poll[p].repo) =>
                               repos[poll[p].repo].head = poll[p].bh.sha
                        /\ poll[p].pc \in {"current", "settle"} =>
                               \/ poll[p].bh.sha = NoSHA
                               \/ shard'[poll[p].repo] # NoSHA
    BY <1>10 DEF PollsTrust, Published
  <2>4. QED
    BY <1>1, <1>9, <2>1, <2>2 DEF IdleSound, PollsTrust, Published
<1>14. IdleNeedsShard'
  BY <1>1, <1>9, <1>10 DEF IdleSound, IdleNeedsShard, Published, Polls
<1>15. QED
  BY <1>2, <1>4, <1>5, <1>6, <1>7, <1>8, <1>11, <1>12, <1>13, <1>14
     DEF RestartSound, SystemSound, IdleSound

LEMMA RestartStep ==
    ASSUME RestartSound, [RestartNext]_restartVars
    PROVE  RestartSound' /\ [Next \/ Init']_vars
<1>1. SystemSound /\ IdleSound /\ OrphansSound
  BY DEF RestartSound
<1>2. CASE [SystemNext]_allVars /\ UNCHANGED crashVars
  BY <1>1, <1>2, SystemStepSound, StepIdleSound
     DEF RestartSound, OrphansSound, crashVars
<1>3. CASE Restart
  BY <1>3, RestartKeepsSound
<1>4. ASSUME NEW r \in Repos, OrphanPublishes(r)
      PROVE  RestartSound' /\ [Next \/ Init']_vars
  BY <1>4, OrphanKeepsSound
<1>5. QED
  BY <1>2, <1>3, <1>4 DEF RestartNext, restartVars

LEMMA RestartInvariance == RestartSpec => []RestartSound
<1>1. RestartSound /\ [RestartNext]_restartVars => RestartSound'
  BY RestartStep
<1>2. QED
  BY RestartInitSound, <1>1, PTL DEF RestartSpec, restartVars

-----------------------------------------------------------------------------
(***************************************************************************)
(* What holds whenever the program is killed and started again.            *)
(***************************************************************************)
\* No crash, and no shard that an orphan publishes later, leaves a variable
\* with a value that its statements do not expect.
THEOREM RestartTyped == RestartSpec => []RestartType
<1>1. RestartSound => RestartType
  <2> SUFFICES ASSUME RestartSound PROVE RestartType
    OBVIOUS
  <2>1. SystemType
    BY SoundIsTyped DEF RestartSound
  <2>2. QED
    BY <2>1, HeadAssumption DEF RestartSound, OrphansSound, RestartType
<1>2. QED
  BY RestartInvariance, <1>1, PTL

\* Crashes included, a repo that shows idle between two polls has a shard, or
\* nothing to index: a process never inherits trust in a shard that there is not.
THEOREM IdleAfterRestart == RestartSpec => []IdleHasShard
<1>1. RestartSound => IdleHasShard
  BY SoundHasShard DEF RestartSound
<1>2. QED
  BY RestartInvariance, <1>1, PTL

\* Between two starts every step of the program, of whichever goroutine, is one
\* that ReindexManager allows or none of its business, so that the theorems of
\* ReindexManagerProofs speak of the program.
THEOREM ManagerIsUsed == RestartSpec => UsesManager
<1>1. RestartSound /\ [RestartNext]_restartVars => [Next \/ Init']_vars
  BY RestartStep
<1>2. QED
  BY RestartInitSound, RestartInvariance, <1>1, PTL
     DEF RestartSpec, restartVars, UsesManager

\* Where the repositories only advance, so does each HEAD that the table shows,
\* for as long as a process lives: a start begins with an empty table, and what
\* survives it, shards and runs of the index, tells no poll about a HEAD.
THEOREM HeadAfterRestart ==
    ASSUME SingleBranch, MaxMoves = 0, ~GitMayFail
    PROVE  RestartSpec => HeadNeverGoesBack
<1> DEFINE Advances == \A r \in Paths(repos) :
                           Tracked(repos', r) => repos'[r].head >= repos[r].head
<1>1. OnlyAdvance
  BY DEF OnlyAdvance
<1>2. ASSUME RestartSound, HeadSound, [SystemNext]_allVars
      PROVE  HeadSound' /\ Advances
  BY <1>1, <1>2, StepHeadSound DEF RestartSound
<1>3. ASSUME RestartSound, HeadSound, Restart
      PROVE  HeadSound' /\ Advances
  <2>1. repos' = EmptyTable /\ UNCHANGED world
    BY <1>3 DEF Restart, FreshManager
  <2>2. PollerInit' /\ WatcherInit'
    BY <1>3 DEF Restart, PollerInit, WatcherInit
  <2>3. HeadIsLast'
    BY <1>3, <2>1 DEF HeadSound, HeadIsLast, HeadOf, world
  <2>4. (PollerInit /\ WatcherInit /\ repos = EmptyTable /\ HeadIsLast)'
    BY <2>1, <2>2, <2>3
  <2>5. HeadSound'
    BY <2>4, HeadStarts, PTL
  <2>6. Advances
    BY <2>1 DEF Tracked, EmptyTable, Paths
  <2>7. QED
    BY <2>5, <2>6
<1>4. ASSUME RestartSound, HeadSound, NEW r \in Repos, OrphanPublishes(r)
      PROVE  HeadSound' /\ Advances
  <2>1. UNCHANGED <<vars, pollVars, watchVars, world>>
    BY <1>4 DEF OrphanPublishes
  <2>2. HeadSound'
    BY <1>4, <2>1 DEF vars, pollVars, watchVars, world, HeadSound, HeadIsLast, HeadOf,
       OnDisk, TableBehind, AnswerBetween, Paths, Tracked
  <2>3. Advances
    <3>1. \A q \in Paths(repos) : repos[q].head \in Nat
      BY <1>4, TrackedRepo DEF RestartSound, SystemSound, Shape, TypeOK, Paths,
         RepoState, SHA
    <3>2. repos' = repos
      BY <2>1 DEF vars
    <3>3. QED
      BY <3>1, <3>2
  <2>4. QED
    BY <2>2, <2>3
<1>5. RestartSound /\ HeadSound /\ [RestartNext]_restartVars =>
          HeadSound' /\ [Advances]_allVars
  <2> SUFFICES ASSUME RestartSound, HeadSound, [RestartNext]_restartVars
               PROVE  HeadSound' /\ Advances
    OBVIOUS
  <2>1. CASE RestartNext
    BY <1>2, <1>3, <1>4, <2>1 DEF RestartNext
  <2>2. CASE UNCHANGED restartVars
    BY <1>2, <2>2 DEF restartVars
  <2>3. QED
    BY <2>1, <2>2
<1>6. SystemInit => HeadSound
  BY SystemHeadStarts
<1>7. QED
  BY RestartInitSound, RestartInvariance, <1>5, <1>6, PTL
     DEF RestartSpec, RestartInit, restartVars, HeadNeverGoesBack

ManagerHolds == SlotBound /\ WaitCoversJobs /\ BusyIsOwned /\ IndexingHasJob

\* So the slots are bounded, a busy repo has one owner and a repo that shows
\* indexing a job, in the whole program: polls, watches, handlers and restarts
\* do nothing that the manager's own module leaves out.
THEOREM ManagerInProgram == RestartSpec => []ManagerHolds
<1>1. RestartSound => Shape /\ Counts
  BY DEF RestartSound, SystemSound
<1>2. RestartSound /\ [RestartNext]_restartVars => [Next \/ Init']_vars
  BY RestartStep
<1>3. BusyIsOwned /\ Shape /\ [Next]_vars => BusyIsOwned'
  BY NextOwned
<1>4. IndexingHasJob /\ Shape /\ [Next]_vars => IndexingHasJob'
  BY NextIndexing
<1>5. [Next \/ Init']_vars => [Next]_vars \/ Init'
  OBVIOUS
<1>6. QED
  BY RestartInitSound, RestartInvariance, InitOwned, InitIndexing, SoundCounts,
     <1>1, <1>2, <1>3, <1>4, <1>5, PTL
     DEF RestartSpec, restartVars, ManagerHolds
=============================================================================
