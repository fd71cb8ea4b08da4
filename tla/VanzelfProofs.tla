----------------------------- MODULE VanzelfProofs -----------------------------
(***************************************************************************)
(* Proofs about the program from a start to its end, for any repositories, *)
(* any finite number of goroutines, whatever the user does, git, zoekt and *)
(* zoekt-git-index answer and whichever of them fail.                      *)
(*                                                                         *)
(* The first part is about Poller alone, whatever git and the file system  *)
(* answer: the locals of a polling goroutine are what the statements that  *)
(* use them expect, one goroutine at a time polls a repository, and what a *)
(* poll does to the table and to the jobs is what ReindexManager lets its  *)
(* poller do.  PollerActs(p) is any step of p as a polling goroutine.      *)
(*                                                                         *)
(* SystemSound, in the second part, is the inductive invariant of the      *)
(* program.  Beyond the types it says that every commit in a local, a map  *)
(* or a shard is one that git may answer, which makes each step of the     *)
(* pollers and the jobs one that ReindexManager allows, so that Shape and  *)
(* Counts hold of the program.                                             *)
(***************************************************************************)
EXTENDS Vanzelf, ReindexManagerProofs, SequenceTheorems

\* A file that the delta holds is one of the paths it hides in zoekt's answer.
Listed(delta) == IndexedFiles(delta) \subseteq delta.dirtyPaths

\* The locals are set before the statements that use them.
SoundPoll(s) ==
    /\ s \in PollState
    /\ s.bh.sha \in Heads /\ s.indexed \in Heads
    /\ s.pc \in {"lock"} \union InPoll => s.repo \in Repos
    /\ s.pc \in {"head", "status", "update"} => s.bh.branch \in Branches
    /\ s.pc \in {"scan", "delta"} => s.built \in DeltaIndex /\ Listed(s.built)
    /\ s.pc = "delta" => s.built.dirtyPaths # {}

\* The goroutine that polls a repo holds its lock.
Exclusive == \A p \in Pollers :
                 poll[p].pc \in InPoll => lock[poll[p].repo] = p

PollersSound ==
    /\ lock \in [Repos -> Pollers \union {NoPoller}]
    /\ poll \in [Pollers -> PollState]
    /\ \A p \in Pollers : SoundPoll(poll[p])
    /\ Exclusive

\* The steps of Run, discoverAndPoll, pollAll and the flush goroutine.
LoopActs(p) ==
    \/ PollAll /\ p = Ticker
    \/ StartDiscovery(p)
    \/ \E found \in SUBSET Repos : Discover(p, found)
    \/ DiscoveryFails(p)
    \/ TrackedPaths(p)
    \/ \E r \in Repos : RemoveGone(p, r)
    \/ \E r \in Repos : NextRepo(p, r)
    \/ EndOfList(p)

\* The steps of pollRepo that ask git and the file system, or only decide.
ReadActs(p, r) ==
    \/ \E b \in Branches : PollBranch(p, r, b)
    \/ \E sha \in Heads : PollHead(p, r, sha)
    \/ \E dirty \in DirtyLists : PollStatus(p, r, dirty)
    \/ PollFails(p, r)
    \/ LookUpShard(p, r)
    \/ \E f \in Files, content \in Contents \union {Absent} :
          PollFile(p, r, f, content)

\* Those that write to the table.
WriteActs(p, r) ==
    \/ UpdateTable(p, r)
    \/ RecordShard(p, r)
    \/ SettleNew(p, r)
    \/ PublishPolled(p, r)
    \/ ClearDelta(p, r)
    \/ MarkStale(p, r)
    \/ DropDelta(p, r)

TriggerActs(p, r) == PollTriggers(p, r) \/ PollSpawns(p, r)

PollerActs(p) ==
    \/ LoopActs(p)
    \/ \E r \in Repos :
          Lock(p, r) \/ ReadActs(p, r) \/ WriteActs(p, r) \/ TriggerActs(p, r)

\* What they all do to the pollers and their locks.
Takes(p, r)  == /\ lock[r] = NoPoller
                /\ lock' = [lock EXCEPT ![r] = p]
                /\ poll'[p].repo = r
Leaves(p)    == /\ poll[p].pc \in InPoll /\ poll'[p].pc \notin InPoll
                /\ lock' = [lock EXCEPT ![poll[p].repo] = NoPoller]
Stays(p)     == /\ lock' = lock
                /\ poll'[p].pc \in InPoll =>
                       poll[p].pc \in InPoll /\ poll'[p].repo = poll[p].repo

PollMoves(p) ==
    /\ poll' = [poll EXCEPT ![p] = poll'[p]]
    /\ SoundPoll(poll'[p])
    /\ Stays(p) \/ Leaves(p) \/ \E r \in Repos : Takes(p, r)

-----------------------------------------------------------------------------
(***************************************************************************)
(* One goroutine at a time polls a repository.                             *)
(***************************************************************************)
LEMMA MovesKeepSound ==
    ASSUME PollersSound, NEW p \in Pollers, PollMoves(p)
    PROVE  PollersSound'
<1>1. /\ poll \in [Pollers -> PollState]
      /\ lock \in [Repos -> Pollers \union {NoPoller}]
      /\ NoPoller \notin Pollers
  BY PollerAssumption DEF PollersSound
<1>2. \A q \in Pollers : poll[q].pc \in InPoll => poll[q].repo \in Repos
  BY DEF PollersSound, SoundPoll
<1>3. poll' = [poll EXCEPT ![p] = poll'[p]] /\ SoundPoll(poll'[p])
  BY DEF PollMoves
<1>4. poll'[p] \in PollState
  BY <1>3 DEF SoundPoll
<1>5. \A q \in Pollers \ {p} : poll'[q] = poll[q]
  BY <1>1, <1>3
<1>6. poll' \in [Pollers -> PollState]
  BY <1>1, <1>3, <1>4
<1>7. \A q \in Pollers : SoundPoll(poll'[q])
  BY <1>3, <1>5 DEF PollersSound
<1>8. poll'[p].pc \in InPoll => poll'[p].repo \in Repos
  BY <1>3 DEF SoundPoll
<1>9. CASE Stays(p)
  <2>1. Exclusive'
    BY <1>5, <1>9 DEF Stays, PollersSound, Exclusive
  <2>2. QED
    BY <1>1, <1>6, <1>7, <1>9, <2>1 DEF Stays, PollersSound
<1>10. CASE Leaves(p)
  <2>1. poll[p].repo \in Repos /\ lock[poll[p].repo] = p
    BY <1>2, <1>10 DEF Leaves, PollersSound, Exclusive
  <2>2. lock' \in [Repos -> Pollers \union {NoPoller}]
    BY <1>1, <1>10, <2>1 DEF Leaves
  <2>3. ASSUME NEW q \in Pollers, poll'[q].pc \in InPoll
        PROVE  lock'[poll'[q].repo] = q
    <3>1. q # p /\ poll'[q] = poll[q]
      BY <1>5, <1>10, <2>3 DEF Leaves
    <3>2. poll[q].repo \in Repos /\ lock[poll[q].repo] = q
      BY <1>2, <2>3, <3>1 DEF PollersSound, Exclusive
    <3>3. poll[q].repo # poll[p].repo
      BY <2>1, <3>1, <3>2
    <3>4. QED
      BY <1>1, <1>10, <3>1, <3>2, <3>3 DEF Leaves
  <2>4. QED
    BY <1>6, <1>7, <2>2, <2>3 DEF PollersSound, Exclusive
<1>11. ASSUME NEW r \in Repos, Takes(p, r)
       PROVE  PollersSound'
  <2>1. lock' \in [Repos -> Pollers \union {NoPoller}]
    BY <1>1, <1>11 DEF Takes
  <2>2. ASSUME NEW q \in Pollers, poll'[q].pc \in InPoll
        PROVE  lock'[poll'[q].repo] = q
    <3>1. CASE q = p
      BY <1>1, <1>11, <3>1 DEF Takes
    <3>2. CASE q # p
      <4>1. poll'[q] = poll[q]
        BY <1>5, <3>2
      <4>2. poll[q].repo \in Repos /\ lock[poll[q].repo] = q
        BY <1>2, <2>2, <4>1 DEF PollersSound, Exclusive
      <4>3. poll[q].repo # r
        BY <1>1, <1>11, <4>2 DEF Takes
      <4>4. QED
        BY <1>1, <1>11, <4>1, <4>2, <4>3 DEF Takes
    <3>3. QED
      BY <3>1, <3>2
  <2>3. QED
    BY <1>6, <1>7, <2>1, <2>2 DEF PollersSound, Exclusive
<1>12. QED
  BY <1>9, <1>10, <1>11 DEF PollMoves

-----------------------------------------------------------------------------
(***************************************************************************)
(* Every step of a poller is a PollMoves.                                  *)
(***************************************************************************)
LEMMA EmptyIsListed == Listed(EmptyDelta)
BY DEF Listed, IndexedFiles, EmptyDelta

\* delta.go: a path enters the delta's files and its dirty paths together.
LEMMA AddFileListed ==
    ASSUME NEW delta \in DeltaIndex, Listed(delta), NEW f \in Files,
           NEW status, NEW content
    PROVE  /\ Listed(AddFile(delta, f, status, content))
           /\ AddFile(delta, f, status, content).dirtyPaths # {}
BY DEF Listed, IndexedFiles, AddFile, DeltaIndex

LEMMA IdlePollerSound == IdlePoller \in PollState /\ SoundPoll(IdlePoller)
<1>1. IdlePoller \in PollState
  BY CleanType DEF IdlePoller, PollState, PollPC, NoHead, NoSHA, SHA
<1>2. QED
  BY <1>1, PollerAssumption DEF IdlePoller, SoundPoll, InPoll, NoHead

\* A step outside of pollRepo.
LEMMA LoopMove ==
    ASSUME PollersSound, NEW p \in Pollers, NEW s, Step(p, s), lock' = lock,
           SoundPoll(s), s.pc \notin InPoll
    PROVE  PollMoves(p) /\ poll'[p].pc \notin InPoll
<1>1. poll'[p] = s /\ poll' = [poll EXCEPT ![p] = s]
  BY DEF Step, PollersSound
<1>2. QED
  BY <1>1 DEF PollMoves, Stays

LEMMA LoopMoves ==
    ASSUME PollersSound, NEW p \in Pollers, LoopActs(p)
    PROVE  PollMoves(p) /\ poll'[p].pc \notin InPoll
<1> DEFINE s == poll[p]
<1>1. s \in PollState /\ SoundPoll(s)
  BY DEF PollersSound
<1>2. Paths(repos) \subseteq Repos
  BY DEF Paths
<1>3. CASE PollAll /\ p = Ticker
  <2> DEFINE new == [IdlePoller EXCEPT !.pc = "next", !.found = Paths(repos)]
  <2>1. SoundPoll(new) /\ new.pc \notin InPoll
    BY <1>2, IdlePollerSound DEF SoundPoll, PollState, PollPC, InPoll
  <2>2. QED
    BY <1>3, <2>1, LoopMove DEF PollAll
<1>4. CASE StartDiscovery(p)
  <2> DEFINE new == [IdlePoller EXCEPT !.pc = "discover", !.discovers = TRUE]
  <2>1. SoundPoll(new) /\ new.pc \notin InPoll
    BY IdlePollerSound DEF SoundPoll, PollState, PollPC, InPoll
  <2>2. QED
    BY <1>4, <2>1, LoopMove DEF StartDiscovery
<1>5. ASSUME NEW found \in SUBSET Repos, Discover(p, found)
      PROVE  PollMoves(p) /\ poll'[p].pc \notin InPoll
  <2> DEFINE new == [s EXCEPT !.pc = "paths", !.found = found]
  <2>1. SoundPoll(new) /\ new.pc \notin InPoll
    BY <1>1 DEF SoundPoll, PollState, PollPC, InPoll
  <2>2. QED
    BY <1>5, <2>1, LoopMove DEF Discover
<1>6. CASE DiscoveryFails(p)
  <2>1. IdlePoller.pc \notin InPoll
    BY DEF IdlePoller, InPoll
  <2>2. QED
    BY <1>6, <2>1, IdlePollerSound, LoopMove DEF DiscoveryFails
<1>7. CASE TrackedPaths(p)
  <2> DEFINE gone == Paths(repos) \ s.found
             new  == [s EXCEPT !.pc = IF gone = {} THEN "next" ELSE "remove",
                               !.gone = gone]
  <2>1. gone \subseteq Repos
    BY <1>2
  <2>2. Step(p, new) /\ lock' = lock
    BY <1>7 DEF TrackedPaths
  <2> HIDE DEF gone
  <2>3. SoundPoll(new) /\ new.pc \notin InPoll
    BY <1>1, <2>1 DEF SoundPoll, PollState, PollPC, InPoll
  <2>4. QED
    BY <2>2, <2>3, LoopMove
<1>8. ASSUME NEW r \in Repos, RemoveGone(p, r)
      PROVE  PollMoves(p) /\ poll'[p].pc \notin InPoll
  <2> DEFINE new == [s EXCEPT !.pc = IF s.gone = {r} THEN "next" ELSE "remove",
                              !.gone = s.gone \ {r}]
  <2>1. SoundPoll(new) /\ new.pc \notin InPoll
    BY <1>1 DEF SoundPoll, PollState, PollPC, InPoll
  <2>2. Step(p, new) /\ lock' = lock
    BY <1>8 DEF RemoveGone
  <2>3. QED
    BY <2>1, <2>2, LoopMove
<1>9. ASSUME NEW r \in Repos, NextRepo(p, r)
      PROVE  PollMoves(p) /\ poll'[p].pc \notin InPoll
  <2> DEFINE new == [s EXCEPT !.pc = "lock", !.repo = r, !.found = s.found \ {r}]
  <2>1. SoundPoll(new) /\ new.pc \notin InPoll
    BY <1>1 DEF SoundPoll, PollState, PollPC, InPoll
  <2>2. Step(p, new) /\ lock' = lock
    BY <1>9 DEF NextRepo
  <2>3. QED
    BY <2>1, <2>2, LoopMove
<1>10. CASE EndOfList(p)
  <2> DEFINE new == [IdlePoller EXCEPT !.pc = IF s.discovers THEN "sync" ELSE "idle"]
  <2>1. SoundPoll(new) /\ new.pc \notin InPoll
    BY IdlePollerSound DEF SoundPoll, PollState, PollPC, InPoll
  <2>2. QED
    BY <1>10, <2>1, LoopMove DEF EndOfList
<1>11. QED
  BY <1>3, <1>4, <1>5, <1>6, <1>7, <1>8, <1>9, <1>10 DEF LoopActs

\* A step of pollRepo to another statement.
LEMMA InPollMove ==
    ASSUME PollersSound, NEW p \in Pollers, NEW s, Step(p, s), lock' = lock,
           SoundPoll(s), poll[p].pc \in InPoll, s.repo = poll[p].repo
    PROVE  PollMoves(p) /\ poll'[p] = s
<1>1. poll'[p] = s /\ poll' = [poll EXCEPT ![p] = s]
  BY DEF Step, PollersSound
<1>2. QED
  BY <1>1 DEF PollMoves, Stays

\* The pcs whose statements use locals that have not been set from the start.
UsesLocals == {"head", "status", "update", "scan", "delta"}

LEMMA GotoMove ==
    ASSUME PollersSound, NEW p \in Pollers, NEW to \in InPoll \ UsesLocals,
           poll[p].pc \in InPoll, GotoPoll(p, to)
    PROVE  /\ PollMoves(p)
           /\ poll'[p].pc = to
           /\ poll'[p].repo = poll[p].repo
           /\ poll'[p].bh = poll[p].bh
<1> DEFINE s == poll[p]
           new == [s EXCEPT !.pc = to]
<1>1. s \in PollState /\ SoundPoll(s)
  BY DEF PollersSound
<1>2. SoundPoll(new) /\ new.pc = to /\ new.repo = s.repo /\ new.bh = s.bh
  BY <1>1 DEF SoundPoll, PollState, PollPC, InPoll, UsesLocals
<1>3. Step(p, new) /\ lock' = lock
  BY DEF GotoPoll
<1>4. QED
  BY <1>2, <1>3, InPollMove

LEMMA ReturnMove ==
    ASSUME PollersSound, NEW p \in Pollers, poll[p].pc \in InPoll,
           Return(p, poll[p].repo)
    PROVE  PollMoves(p) /\ poll'[p].pc = "next"
<1> DEFINE s == poll[p]
           new == [IdlePoller EXCEPT !.pc = "next", !.discovers = s.discovers,
                                     !.found = s.found]
<1>1. s \in PollState
  BY DEF PollersSound
<1>2. SoundPoll(new) /\ new.pc = "next"
  <2> DEFINE more  == s.discovers
             found == s.found
  <2>1. more \in BOOLEAN /\ found \in SUBSET Repos
    BY <1>1 DEF PollState
  <2> HIDE DEF more, found
  <2>2. [IdlePoller EXCEPT !.pc = "next", !.discovers = more, !.found = found]
            \in PollState
    BY <2>1, IdlePollerSound DEF PollState, PollPC
  <2>3. new \in PollState
    BY <2>2 DEF more, found
  <2>4. /\ new.pc = "next"
        /\ new.bh = IdlePoller.bh
        /\ new.indexed = IdlePoller.indexed
    BY DEF IdlePoller
  <2> HIDE DEF new
  <2>5. QED
    BY <2>3, <2>4, IdlePollerSound DEF SoundPoll, InPoll
<1>3. poll' = [poll EXCEPT ![p] = new] /\ lock' = [lock EXCEPT ![s.repo] = NoPoller]
  BY DEF Return, Step
<1> HIDE DEF new
<1>4. poll'[p] = new
  BY <1>3 DEF PollersSound
<1>5. QED
  BY <1>2, <1>3, <1>4 DEF PollMoves, Leaves, InPoll

LEMMA LockMoves ==
    ASSUME PollersSound, NEW p \in Pollers, NEW r \in Repos, Lock(p, r)
    PROVE  PollMoves(p)
<1> DEFINE new == [poll[p] EXCEPT !.pc = "branch"]
<1>1. poll[p] \in PollState /\ SoundPoll(poll[p])
  BY DEF PollersSound
<1>2. SoundPoll(new) /\ new.repo = r
  BY <1>1 DEF Lock, Polls, SoundPoll, PollState, PollPC, InPoll
<1>3. poll' = [poll EXCEPT ![p] = new] /\ poll'[p] = new
  BY DEF Lock, Step, PollersSound
<1>4. Takes(p, r)
  BY <1>2, <1>3 DEF Lock, Takes
<1>5. QED
  BY <1>2, <1>3, <1>4 DEF PollMoves

LEMMA ReadMoves ==
    ASSUME PollersSound, pathToSHA \in [Repos -> Heads],
           NEW p \in Pollers, NEW r \in Repos, ReadActs(p, r)
    PROVE  PollMoves(p)
<1> DEFINE s == poll[p]
<1>1. s \in PollState /\ SoundPoll(s)
  BY DEF PollersSound
<1>2. ASSUME NEW b \in Branches, PollBranch(p, r, b)
      PROVE  PollMoves(p)
  <2> DEFINE new == [s EXCEPT !.pc = "head", !.bh.branch = b]
  <2>1. Step(p, new) /\ lock' = lock /\ s.pc = "branch"
    BY <1>2 DEF PollBranch, Polls
  <2>2. SoundPoll(new) /\ new.repo = s.repo
    BY <1>1, <2>1 DEF SoundPoll, PollState, PollPC, InPoll
  <2>3. QED
    BY <2>1, <2>2, InPollMove DEF InPoll
<1>3. ASSUME NEW sha \in Heads, PollHead(p, r, sha)
      PROVE  PollMoves(p)
  <2> DEFINE new == [s EXCEPT !.pc = "status", !.bh.sha = sha]
  <2>1. Step(p, new) /\ lock' = lock /\ s.pc = "head"
    BY <1>3 DEF PollHead, Polls
  <2>2. SoundPoll(new) /\ new.repo = s.repo
    BY <1>1, <2>1, HeadAssumption DEF SoundPoll, PollState, PollPC, InPoll
  <2>3. QED
    BY <2>1, <2>2, InPollMove DEF InPoll
<1>4. ASSUME NEW dirty \in DirtyLists, PollStatus(p, r, dirty)
      PROVE  PollMoves(p)
  <2> DEFINE new == [s EXCEPT !.pc = "update", !.dirty = dirty]
  <2>1. Step(p, new) /\ lock' = lock /\ s.pc = "status"
    BY <1>4 DEF PollStatus, Polls
  <2>2. SoundPoll(new) /\ new.repo = s.repo
    BY <1>1, <2>1 DEF SoundPoll, PollState, PollPC, InPoll
  <2>3. QED
    BY <2>1, <2>2, InPollMove DEF InPoll
<1>5. CASE PollFails(p, r)
  <2>1. s.pc \in {"branch", "status"} /\ s.repo = r /\ Return(p, r)
    BY <1>5 DEF PollFails, Polls
  <2>2. QED
    BY <2>1, ReturnMove DEF InPoll
<1>6. CASE LookUpShard(p, r)
  <2> DEFINE sha == pathToSHA[r]
             to  == IF sha = s.bh.sha THEN "current"
                    ELSE IF sha # NoSHA THEN "outdated" ELSE "stale"
             new == [s EXCEPT !.pc = to, !.indexed = sha]
  <2>1. Step(p, new) /\ lock' = lock /\ s.pc = "shard"
    BY <1>6 DEF LookUpShard, Polls
  <2>2. sha \in Heads /\ to \in {"current", "outdated", "stale"}
    OBVIOUS
  <2> HIDE DEF sha, to
  <2>3. SoundPoll(new) /\ new.repo = s.repo
    BY <1>1, <2>1, <2>2, HeadAssumption DEF SoundPoll, PollState, PollPC, InPoll
  <2>4. QED
    BY <2>1, <2>3, InPollMove DEF InPoll
<1>7. ASSUME NEW f \in Files, NEW content \in Contents \union {Absent},
             PollFile(p, r, f, content)
      PROVE  PollMoves(p)
  <2> DEFINE rest  == DOMAIN s.dirty \ {f}
             left  == [g \in rest |-> s.dirty[g]]
             delta == AddFile(s.built, f, s.dirty[f], content)
             to    == IF rest = {} THEN "delta" ELSE "scan"
             new   == [s EXCEPT !.pc = to, !.dirty = left, !.built = delta]
  <2>1. Step(p, new) /\ lock' = lock /\ s.pc = "scan"
    BY <1>7 DEF PollFile, Polls
  <2>2. s.built \in DeltaIndex /\ Listed(s.built)
    BY <1>1, <2>1 DEF SoundPoll
  <2>3. delta \in DeltaIndex /\ Listed(delta) /\ delta.dirtyPaths # {}
    BY <2>2, AddFileType, AddFileListed
  <2>4. left \in DirtyLists
    BY <1>1, DirtyListRest DEF PollState
  <2>5. to \in {"delta", "scan"}
    OBVIOUS
  <2> HIDE DEF left, delta, to
  <2>6. SoundPoll(new) /\ new.repo = s.repo
    BY <1>1, <2>1, <2>3, <2>4, <2>5 DEF SoundPoll, PollState, PollPC, InPoll
  <2>7. QED
    BY <2>1, <2>6, InPollMove DEF InPoll
<1>8. QED
  BY <1>2, <1>3, <1>4, <1>5, <1>6, <1>7 DEF ReadActs

\* What becomes of the delta of a repo that needs no reindex.
LEMMA RebuildMove ==
    ASSUME PollersSound, NEW p \in Pollers, poll[p].pc \in InPoll,
           NEW changed, RebuildDelta(p, poll[p].repo, changed)
    PROVE  PollMoves(p) /\ poll'[p].pc \in {"clear", "scan", "next"}
<1> DEFINE s == poll[p]
<1>1. s \in PollState /\ SoundPoll(s)
  BY DEF PollersSound
<1>2. CASE GotoPoll(p, "clear")
  BY <1>2, GotoMove DEF InPoll, UsesLocals
<1>3. CASE Step(p, [s EXCEPT !.pc = "scan", !.built = EmptyDelta]) /\ lock' = lock
  <2> DEFINE new == [s EXCEPT !.pc = "scan", !.built = EmptyDelta]
  <2>1. SoundPoll(new) /\ new.repo = s.repo /\ new.pc = "scan"
    BY <1>1, EmptyDeltaType, EmptyIsListed DEF SoundPoll, PollState, PollPC, InPoll
  <2>2. QED
    BY <1>3, <2>1, InPollMove
<1>4. CASE Return(p, s.repo)
  BY <1>4, ReturnMove
<1>5. QED
  BY <1>2, <1>3, <1>4 DEF RebuildDelta

LEMMA WriteMoves ==
    ASSUME PollersSound, NEW p \in Pollers, NEW r \in Repos, WriteActs(p, r)
    PROVE  PollMoves(p)
<1>1. poll[p].pc \in InPoll /\ poll[p].repo = r
  BY DEF WriteActs, UpdateTable, RecordShard, SettleNew, PublishPolled,
         ClearDelta, MarkStale, DropDelta, Polls, InPoll
<1>2. \/ GotoPoll(p, "shard") \/ GotoPoll(p, "settle") \/ GotoPoll(p, "stale")
      \/ GotoPoll(p, "drop") \/ GotoPoll(p, "trigger")
      \/ \E changed : RebuildDelta(p, r, changed)
      \/ Return(p, r)
  BY DEF WriteActs, UpdateTable, RecordShard, SettleNew, PublishPolled,
         ClearDelta, MarkStale, DropDelta
<1>3. ASSUME NEW to \in {"shard", "settle", "stale", "drop", "trigger"},
             GotoPoll(p, to)
      PROVE  PollMoves(p)
  <2>1. to \in InPoll \ UsesLocals
    BY DEF InPoll, UsesLocals
  <2>2. QED
    BY <1>1, <1>3, <2>1, GotoMove
<1>4. QED
  BY <1>1, <1>2, <1>3, RebuildMove, ReturnMove

LEMMA TriggerMoves ==
    ASSUME PollersSound, NEW p \in Pollers, NEW r \in Repos, TriggerActs(p, r)
    PROVE  PollMoves(p)
<1>1. poll[p].pc \in InPoll /\ poll[p].repo = r
  BY DEF TriggerActs, PollTriggers, PollSpawns, Polls, InPoll
<1>2. GotoPoll(p, "spawn") \/ Return(p, r)
  BY DEF TriggerActs, PollTriggers, PollSpawns
<1>3. QED
  BY <1>1, <1>2, GotoMove, ReturnMove DEF InPoll, UsesLocals

LEMMA ActsMove ==
    ASSUME PollersSound, pathToSHA \in [Repos -> Heads],
           NEW p \in Pollers, PollerActs(p)
    PROVE  PollMoves(p) /\ PollersSound'
<1>1. PollMoves(p)
  BY LoopMoves, LockMoves, ReadMoves, WriteMoves, TriggerMoves DEF PollerActs
<1>2. QED
  BY <1>1, MovesKeepSound

-----------------------------------------------------------------------------
(***************************************************************************)
(* What a poller does to the table and the jobs, ReindexManager knows.     *)
(***************************************************************************)
\* poller.go writes what git answered and what it built from that.
LEMMA WritesAreManagers ==
    ASSUME PollersSound, NEW p \in Pollers, NEW r \in Repos,
           WriteActs(p, r), UNCHANGED <<sweep, main>>
    PROVE  PollerWrites
<1> DEFINE s == poll[p]
<1>1. s \in PollState /\ SoundPoll(s)
  BY DEF PollersSound
<1>2. UNCHANGED jobVars
  BY DEF WriteActs, UpdateTable, RecordShard, SettleNew, PublishPolled,
         ClearDelta, MarkStale, DropDelta
<1>3. CASE UpdateTable(p, r)
  <2>1. s.pc = "update" /\ repos' = Update(repos, r, s.bh, s.dirty)
    BY <1>3 DEF UpdateTable, Polls
  <2>2. s.bh.branch \in Branches /\ s.bh.sha \in Heads
    BY <1>1, <2>1 DEF SoundPoll
  <2>3. s.bh = [branch |-> s.bh.branch, sha |-> s.bh.sha]
    BY <1>1 DEF PollState
  <2>4. s.bh \in BranchHeads /\ s.dirty \in DirtyLists
    BY <1>1, <2>2, <2>3 DEF BranchHeads, PollState
  <2>5. QED
    BY <1>2, <2>1, <2>4 DEF PollerWrites
<1>4. CASE RecordShard(p, r)
  <2>1. s.indexed \in Heads
    BY <1>1 DEF SoundPoll
  <2>2. QED
    BY <1>2, <1>4, <2>1 DEF RecordShard, PollerWrites
<1>5. CASE SettleNew(p, r) \/ MarkStale(p, r)
  BY <1>2, <1>5 DEF SettleNew, MarkStale, PollerWrites
<1>6. CASE PublishPolled(p, r)
  <2>1. s.built \in {d \in DeltaIndex : d.dirtyPaths # {}}
    BY <1>1, <1>6 DEF SoundPoll, PublishPolled, Polls
  <2>2. QED
    BY <1>2, <1>6, <2>1 DEF PublishPolled, PollerWrites
<1>7. CASE ClearDelta(p, r) \/ DropDelta(p, r)
  BY <1>2, <1>7 DEF ClearDelta, DropDelta, PollerWrites
<1>8. QED
  BY <1>3, <1>4, <1>5, <1>6, <1>7 DEF WriteActs

LEMMA ActsAreManagers ==
    ASSUME PollersSound, NEW p \in Pollers, sweep[p] = {}, PollerActs(p),
           UNCHANGED <<sweep, main>>
    PROVE  PollerWrites \/ CallerStep(p) \/ UNCHANGED vars
<1>1. ASSUME NEW r \in Repos, RemoveGone(p, r)
      PROVE  PollerWrites
  BY <1>1 DEF RemoveGone, PollerWrites
<1>2. CASE LoopActs(p) /\ ~\E r \in Repos : RemoveGone(p, r)
  BY <1>2 DEF LoopActs, PollAll, StartDiscovery, Discover, DiscoveryFails,
              TrackedPaths, NextRepo, EndOfList, vars, jobVars
<1>3. ASSUME NEW r \in Repos, Lock(p, r) \/ ReadActs(p, r)
      PROVE  UNCHANGED vars
  BY <1>3 DEF Lock, ReadActs, PollBranch, PollHead, PollStatus, PollFails,
              LookUpShard, PollFile, vars, jobVars
<1>4. ASSUME NEW r \in Repos, PollTriggers(p, r)
      PROVE  CallerStep(p)
  BY <1>4 DEF PollTriggers, CallerStep, PollerTriggers
<1>5. ASSUME NEW r \in Repos, PollSpawns(p, r)
      PROVE  CallerStep(p)
  BY <1>5 DEF PollSpawns, CallerStep
<1>6. QED
  BY <1>1, <1>2, <1>3, <1>4, <1>5, WritesAreManagers
     DEF PollerActs, LoopActs, TriggerActs

-----------------------------------------------------------------------------
(***************************************************************************)
(* Where a poll goes on.                                                   *)
(***************************************************************************)
\* The statements for a repo that the table did not hold before this poll.
ForNew == {"shard", "current", "settle"}

LEMMA LoopGoes ==
    ASSUME PollersSound, NEW p \in Pollers, LoopActs(p)
    PROVE  poll[p].pc # "stale" /\ poll'[p].pc \notin InPoll
<1>1. poll[p].pc # "stale"
  <2>1. Ticker \in Pollers
    BY DEF Pollers
  <2>2. QED
    BY DEF LoopActs, PollAll, StartDiscovery, Discover, DiscoveryFails,
           TrackedPaths, RemoveGone, NextRepo, EndOfList
<1>2. QED
  BY <1>1, LoopMoves

LEMMA ReadGoes ==
    ASSUME PollersSound, NEW p \in Pollers, NEW r \in Repos,
           Lock(p, r) \/ ReadActs(p, r), ~LookUpShard(p, r)
    PROVE  poll[p].pc # "stale" /\ poll'[p].pc \notin ForNew
<1>1. poll[p] \in PollState /\ poll \in [Pollers -> PollState]
  BY DEF PollersSound
<1>2. CASE Lock(p, r)
  BY <1>1, <1>2 DEF Lock, Polls, Step, ForNew, PollState
<1>3. ASSUME NEW b, PollBranch(p, r, b)
      PROVE  poll[p].pc = "branch" /\ poll'[p].pc = "head"
  BY <1>1, <1>3 DEF PollBranch, Polls, Step, PollState
<1>4. ASSUME NEW sha, PollHead(p, r, sha)
      PROVE  poll[p].pc = "head" /\ poll'[p].pc = "status"
  BY <1>1, <1>4 DEF PollHead, Polls, Step, PollState
<1>5. ASSUME NEW dirty, PollStatus(p, r, dirty)
      PROVE  poll[p].pc = "status" /\ poll'[p].pc = "update"
  BY <1>1, <1>5 DEF PollStatus, Polls, Step, PollState
<1>6. CASE PollFails(p, r)
  <2>1. /\ poll[p].pc \in {"branch", "status"} /\ poll[p].repo = r
        /\ Return(p, r)
    BY <1>6 DEF PollFails, Polls
  <2>2. poll'[p].pc = "next"
    BY <2>1, ReturnMove DEF InPoll
  <2>3. QED
    BY <2>1, <2>2 DEF ForNew
<1>7. ASSUME NEW f, NEW content, PollFile(p, r, f, content)
      PROVE  poll[p].pc = "scan" /\ poll'[p].pc \in {"delta", "scan"}
  <2> DEFINE rest  == DOMAIN poll[p].dirty \ {f}
             left  == [g \in rest |-> poll[p].dirty[g]]
             delta == AddFile(poll[p].built, f, poll[p].dirty[f], content)
             to    == IF rest = {} THEN "delta" ELSE "scan"
  <2>1. poll' = [poll EXCEPT ![p] = [poll[p] EXCEPT !.pc = to, !.dirty = left,
                                                    !.built = delta]]
    BY <1>7 DEF PollFile, Step
  <2>2. to \in {"delta", "scan"}
    OBVIOUS
  <2> HIDE DEF left, delta, to
  <2>3. poll'[p].pc = to
    BY <1>1, <2>1 DEF PollState
  <2>4. QED
    BY <1>7, <2>2, <2>3 DEF PollFile, Polls
<1>8. QED
  BY <1>2, <1>3, <1>4, <1>5, <1>6, <1>7 DEF ReadActs, ForNew

\* poller.go:114: the map's answer is trusted when it is the HEAD just read.
LEMMA LookUpGoes ==
    ASSUME PollersSound, NEW p \in Pollers, NEW r \in Repos, LookUpShard(p, r)
    PROVE  /\ poll[p].pc = "shard" /\ poll[p].repo = r /\ poll'[p].repo = r
           /\ poll'[p].bh = poll[p].bh
           /\ poll'[p].pc \in {"current", "outdated", "stale"}
           /\ poll'[p].pc = "current" => pathToSHA[r] = poll[p].bh.sha
<1> DEFINE sha == pathToSHA[r]
           to  == IF sha = poll[p].bh.sha THEN "current"
                  ELSE IF sha # NoSHA THEN "outdated" ELSE "stale"
           new == [poll[p] EXCEPT !.pc = to, !.indexed = sha]
<1>1. poll[p] \in PollState /\ poll' = [poll EXCEPT ![p] = new] /\ poll'[p] = new
  BY DEF PollersSound, LookUpShard, Step
<1>2. to \in {"current", "outdated", "stale"} /\ (to = "current" => sha = poll[p].bh.sha)
  OBVIOUS
<1> HIDE DEF sha, to
<1>3. new.pc = to /\ new.repo = poll[p].repo /\ new.bh = poll[p].bh
  BY <1>1 DEF PollState
<1>4. QED
  BY <1>1, <1>2, <1>3 DEF LookUpShard, Polls, sha

\* poller.go:110: a repo whose branch or HEAD has changed, or that is new, is
\* not left to the last if statement.
LEMMA UpdateGoes ==
    ASSUME PollersSound, repos \in Table, NEW p \in Pollers, NEW r \in Repos,
           UpdateTable(p, r)
    PROVE  /\ poll[p].pc = "update" /\ poll[p].repo = r
           /\ repos' = Update(repos, r, poll[p].bh, poll[p].dirty)
           /\ IF Tracked(repos, r) /\ repos[r].head # poll[p].bh.sha
              THEN poll'[p].pc = "stale" /\ poll'[p].repo = r
              ELSE \/ poll'[p].pc \notin ForNew
                   \/ /\ poll'[p].pc = "shard" /\ poll'[p].repo = r
                      /\ poll'[p].bh = poll[p].bh
<1> DEFINE change == StateChange(repos, r, poll[p].bh, poll[p].dirty)
           isNew  == change.branchChanged /\ change.oldBranch = NoBranch
<1>1. /\ poll[p].pc = "update" /\ poll[p].repo = r
      /\ repos' = Update(repos, r, poll[p].bh, poll[p].dirty)
      /\ IF isNew THEN GotoPoll(p, "shard")
         ELSE IF change.branchChanged \/ change.headChanged
         THEN GotoPoll(p, "stale")
         ELSE RebuildDelta(p, r, change.dirtyChanged)
  BY DEF UpdateTable, Polls
<1>2. poll[p].pc \in InPoll
  BY <1>1 DEF InPoll
<1>3. ASSUME Tracked(repos, r), repos[r].head # poll[p].bh.sha
      PROVE  change.headChanged /\ ~isNew
  <2>1. repos[r].branch \in Branches
    BY <1>3, TrackedRepo DEF RepoState
  <2>2. QED
    BY <1>3, <2>1, NilAssumption DEF StateChange
<1> HIDE DEF change, isNew
<1>4. ASSUME NEW to \in {"shard", "stale"}, GotoPoll(p, to)
      PROVE  poll'[p].pc = to /\ poll'[p].repo = r /\ poll'[p].bh = poll[p].bh
  <2>1. to \in InPoll \ UsesLocals
    BY DEF InPoll, UsesLocals
  <2>2. QED
    BY <1>1, <1>2, <1>4, <2>1, GotoMove
<1>5. ASSUME RebuildDelta(p, r, change.dirtyChanged)
      PROVE  poll'[p].pc \in {"clear", "scan", "next"}
  BY <1>1, <1>2, <1>5, RebuildMove
<1>6. QED
  BY <1>1, <1>3, <1>4, <1>5 DEF ForNew

\* The other statements that write.  From "current" to "settle" the poll is of
\* the same repo at the same HEAD; a stale one is marked before anything else.
LEMMA WriteGoes ==
    ASSUME PollersSound, NEW p \in Pollers, NEW r \in Repos,
           WriteActs(p, r) \/ TriggerActs(p, r), ~UpdateTable(p, r)
    PROVE  /\ poll[p].repo = r
           /\ poll[p].pc = "stale" => MarkStale(p, r)
           /\ poll'[p].pc \in ForNew =>
                 /\ poll[p].pc = "current" /\ poll'[p].pc = "settle"
                 /\ poll'[p].repo = r /\ poll'[p].bh = poll[p].bh
<1>1. /\ poll[p].repo = r /\ poll[p].pc \in InPoll
      /\ poll[p].pc = "stale" => MarkStale(p, r)
  BY DEF WriteActs, TriggerActs, RecordShard, SettleNew, PublishPolled,
         ClearDelta, MarkStale, DropDelta, PollTriggers, PollSpawns, Polls, InPoll
<1>2. \/ GotoPoll(p, "settle") /\ poll[p].pc = "current"
      \/ GotoPoll(p, "stale") \/ GotoPoll(p, "drop")
      \/ GotoPoll(p, "trigger") \/ GotoPoll(p, "spawn")
      \/ RebuildDelta(p, r, TRUE)
      \/ Return(p, r)
  BY DEF WriteActs, TriggerActs, RecordShard, SettleNew, PublishPolled,
         ClearDelta, MarkStale, DropDelta, PollTriggers, PollSpawns, Polls
<1>3. ASSUME NEW to \in {"settle", "stale", "drop", "trigger", "spawn"},
             GotoPoll(p, to)
      PROVE  poll'[p].pc = to /\ poll'[p].repo = r /\ poll'[p].bh = poll[p].bh
  <2>1. to \in InPoll \ UsesLocals
    BY DEF InPoll, UsesLocals
  <2>2. QED
    BY <1>1, <1>3, <2>1, GotoMove
<1>4. ASSUME RebuildDelta(p, r, TRUE) \/ Return(p, r)
      PROVE  poll'[p].pc \in {"clear", "scan", "next"}
  BY <1>1, <1>4, RebuildMove, ReturnMove
<1>5. QED
  BY <1>1, <1>2, <1>3, <1>4 DEF ForNew

-----------------------------------------------------------------------------
(***************************************************************************)
(* The repos still to poll, and HEAD from git's answer to the table.       *)
(***************************************************************************)
LEMMA GotoKeeps ==
    ASSUME PollersSound, NEW p \in Pollers, NEW to, GotoPoll(p, to)
    PROVE  poll'[p].found = poll[p].found /\ poll'[p].pc = to
BY DEF GotoPoll, Step, PollersSound, PollState

LEMMA ReturnKeeps ==
    ASSUME PollersSound, NEW p \in Pollers, NEW r, Return(p, r)
    PROVE  poll'[p].found = poll[p].found /\ poll'[p].pc = "next"
<1> DEFINE new == [IdlePoller EXCEPT !.pc = "next",
                                     !.discovers = poll[p].discovers,
                                     !.found = poll[p].found]
<1>1. poll'[p] = new
  BY DEF Return, Step, PollersSound
<1>2. new.pc = "next" /\ new.found = poll[p].found
  BY DEF IdlePoller
<1>3. QED
  BY <1>1, <1>2

LEMMA RebuildKeeps ==
    ASSUME PollersSound, NEW p \in Pollers, NEW r, NEW changed,
           RebuildDelta(p, r, changed)
    PROVE  /\ poll'[p].found = poll[p].found
           /\ poll'[p].pc \in {"clear", "scan", "next"}
<1>1. CASE GotoPoll(p, "clear")
  BY <1>1, GotoKeeps
<1>2. CASE Step(p, [poll[p] EXCEPT !.pc = "scan", !.built = EmptyDelta])
  BY <1>2 DEF Step, PollersSound, PollState
<1>3. CASE Return(p, r)
  BY <1>3, ReturnKeeps
<1>4. QED
  BY <1>1, <1>2, <1>3 DEF RebuildDelta

\* A write or a trigger neither moves to the statements that hold git's
\* answers nor takes a repo off the list.
LEMMA WriteKeeps ==
    ASSUME PollersSound, NEW p \in Pollers, NEW r \in Repos,
           WriteActs(p, r) \/ TriggerActs(p, r)
    PROVE  /\ poll'[p].found = poll[p].found
           /\ poll'[p].pc \notin {"lock", "status", "update"}
<1>1. \/ \E to \in {"shard", "settle", "stale", "drop", "trigger", "spawn"} :
            GotoPoll(p, to)
      \/ \E changed : RebuildDelta(p, r, changed)
      \/ Return(p, r)
  BY DEF WriteActs, TriggerActs, UpdateTable, RecordShard, SettleNew,
         PublishPolled, ClearDelta, MarkStale, DropDelta, PollTriggers, PollSpawns
<1>2. QED
  BY <1>1, GotoKeeps, RebuildKeeps, ReturnKeeps

LEMMA ReadKeeps ==
    ASSUME PollersSound, NEW p \in Pollers, NEW r \in Repos,
           Lock(p, r) \/ ReadActs(p, r)
    PROVE  /\ poll'[p].found = poll[p].found
           /\ poll'[p].pc # "lock"
           /\ poll'[p].pc = "status" => poll[p].pc = "head"
           /\ poll'[p].pc = "update" =>
                 /\ poll[p].pc = "status"
                 /\ poll'[p].repo = poll[p].repo /\ poll'[p].bh = poll[p].bh
<1> DEFINE s == poll[p]
<1>1. s \in PollState /\ poll \in [Pollers -> PollState]
  BY DEF PollersSound
<1>2. CASE Lock(p, r)
  BY <1>1, <1>2 DEF Lock, Step, PollState
<1>3. ASSUME NEW b, PollBranch(p, r, b)
      PROVE  poll'[p].found = s.found /\ poll'[p].pc = "head"
  BY <1>1, <1>3 DEF PollBranch, Step, PollState
<1>4. ASSUME NEW sha, PollHead(p, r, sha)
      PROVE  poll'[p].found = s.found /\ poll'[p].pc = "status" /\ s.pc = "head"
  BY <1>1, <1>4 DEF PollHead, Polls, Step, PollState
<1>5. ASSUME NEW dirty, PollStatus(p, r, dirty)
      PROVE  /\ poll'[p].found = s.found /\ poll'[p].pc = "update"
             /\ s.pc = "status" /\ poll'[p].repo = s.repo /\ poll'[p].bh = s.bh
  BY <1>1, <1>5 DEF PollStatus, Polls, Step, PollState
<1>6. CASE PollFails(p, r)
  BY <1>6, ReturnKeeps DEF PollFails
<1>7. CASE LookUpShard(p, r)
  <2> DEFINE sha == pathToSHA[r]
             to  == IF sha = s.bh.sha THEN "current"
                    ELSE IF sha # NoSHA THEN "outdated" ELSE "stale"
             new == [s EXCEPT !.pc = to, !.indexed = sha]
  <2>1. poll'[p] = new /\ to \in {"current", "outdated", "stale"}
    BY <1>1, <1>7 DEF LookUpShard, Step
  <2> HIDE DEF sha, to
  <2>2. new.pc = to /\ new.found = s.found
    BY <1>1 DEF PollState
  <2>3. QED
    BY <2>1, <2>2
<1>8. ASSUME NEW f, NEW content, PollFile(p, r, f, content)
      PROVE  poll'[p].found = s.found /\ poll'[p].pc \in {"delta", "scan"}
  <2> DEFINE rest  == DOMAIN s.dirty \ {f}
             left  == [g \in rest |-> s.dirty[g]]
             delta == AddFile(s.built, f, s.dirty[f], content)
             to    == IF rest = {} THEN "delta" ELSE "scan"
             new   == [s EXCEPT !.pc = to, !.dirty = left, !.built = delta]
  <2>1. poll'[p] = new /\ to \in {"delta", "scan"}
    BY <1>1, <1>8 DEF PollFile, Step
  <2> HIDE DEF left, delta, to
  <2>2. new.pc = to /\ new.found = s.found
    BY <1>1 DEF PollState
  <2>3. QED
    BY <2>1, <2>2
<1>9. QED
  BY <1>2, <1>3, <1>4, <1>5, <1>6, <1>7, <1>8 DEF ReadActs

\* The list of a goroutine comes from the table or from a discovery.
LEMMA LoopKeeps ==
    ASSUME PollersSound, NEW p \in Pollers, LoopActs(p)
    PROVE  /\ poll'[p].pc = "lock" => poll'[p].repo \in poll[p].found
           /\ \/ poll'[p].found \subseteq poll[p].found \union Paths(repos)
              \/ poll[p].pc = "discover"
<1> DEFINE s == poll[p]
<1>1. s \in PollState /\ poll \in [Pollers -> PollState]
  BY DEF PollersSound
<1>2. CASE PollAll /\ p = Ticker
  BY <1>1, <1>2 DEF PollAll, Step, IdlePoller
<1>3. CASE StartDiscovery(p) \/ DiscoveryFails(p)
  <2>1. poll'[p].found = {} /\ poll'[p].pc \in {"discover", "idle"}
    <3>1. CASE StartDiscovery(p)
      BY <1>1, <3>1 DEF StartDiscovery, Step, IdlePoller
    <3>2. CASE DiscoveryFails(p)
      BY <1>1, <3>2 DEF DiscoveryFails, Step, IdlePoller
    <3>3. QED
      BY <1>3, <3>1, <3>2
  <2>2. QED
    BY <2>1
<1>4. ASSUME NEW found, Discover(p, found)
      PROVE  s.pc = "discover" /\ poll'[p].pc = "paths"
  BY <1>1, <1>4 DEF Discover, Step, PollState
<1>5. CASE TrackedPaths(p)
  <2> DEFINE gone == Paths(repos) \ s.found
             to   == IF gone = {} THEN "next" ELSE "remove"
             new  == [s EXCEPT !.pc = to, !.gone = gone]
  <2>1. poll'[p] = new /\ to # "lock"
    BY <1>1, <1>5 DEF TrackedPaths, Step
  <2> HIDE DEF gone, to
  <2>2. new.pc = to /\ new.found = s.found
    BY <1>1 DEF PollState
  <2>3. QED
    BY <2>1, <2>2
<1>6. ASSUME NEW r, RemoveGone(p, r)
      PROVE  poll'[p].pc # "lock" /\ poll'[p].found = s.found
  <2> DEFINE to  == IF s.gone = {r} THEN "next" ELSE "remove"
             new == [s EXCEPT !.pc = to, !.gone = s.gone \ {r}]
  <2>1. poll'[p] = new /\ to # "lock"
    BY <1>1, <1>6 DEF RemoveGone, Step
  <2> HIDE DEF to
  <2>2. new.pc = to /\ new.found = s.found
    BY <1>1 DEF PollState
  <2>3. QED
    BY <2>1, <2>2
<1>7. ASSUME NEW r, NextRepo(p, r)
      PROVE  poll'[p].repo \in s.found /\ poll'[p].found \subseteq s.found
  <2> DEFINE new == [s EXCEPT !.pc = "lock", !.repo = r, !.found = s.found \ {r}]
  <2>1. poll'[p] = new /\ r \in s.found
    BY <1>1, <1>7 DEF NextRepo, Step
  <2>2. new.repo = r /\ new.found = s.found \ {r}
    BY <1>1 DEF PollState
  <2>3. QED
    BY <2>1, <2>2
<1>8. CASE EndOfList(p)
  <2> DEFINE to  == IF s.discovers THEN "sync" ELSE "idle"
             new == [IdlePoller EXCEPT !.pc = to]
  <2>1. poll'[p] = new /\ to # "lock"
    BY <1>1, <1>8 DEF EndOfList, Step
  <2> HIDE DEF to
  <2>2. new.pc = to /\ new.found = {}
    BY DEF IdlePoller
  <2>3. QED
    BY <2>1, <2>2
<1>9. QED
  BY <1>2, <1>3, <1>4, <1>5, <1>6, <1>7, <1>8 DEF LoopActs

LEMMA OnlyLockTakes ==
    ASSUME PollersSound, NEW p \in Pollers, NEW r \in Repos,
           ReadActs(p, r) \/ WriteActs(p, r) \/ TriggerActs(p, r)
    PROVE  \A t \in Repos : ~Takes(p, t)
<1>1. lock' = lock \/ lock' = [lock EXCEPT ![r] = NoPoller]
  BY DEF ReadActs, PollBranch, PollHead, PollStatus, PollFails, LookUpShard,
         PollFile, WriteActs, UpdateTable, RecordShard, SettleNew, PublishPolled,
         ClearDelta, MarkStale, DropDelta, TriggerActs, PollTriggers, PollSpawns,
         RebuildDelta, GotoPoll, Return
<1>2. lock \in [Repos -> Pollers \union {NoPoller}] /\ NoPoller \notin Pollers
  BY PollerAssumption DEF PollersSound
<1>3. QED
  BY <1>1, <1>2 DEF Takes

-----------------------------------------------------------------------------
(***************************************************************************)
(* What git answers about a repository, whatever the user does: that a     *)
(* branch names a commit there is, that HEAD is one git may answer, and    *)
(* that with one branch it only advances.                                  *)
(***************************************************************************)
Bounds == \A r \in Repos : Len(history[r]) <= MaxCommits

BranchesPointBack ==
    \A r \in Repos, b \in Branches : tips[r][b] <= Len(history[r])

WorldShape == WorldType /\ Bounds /\ BranchesPointBack

LEMMA HistoryLength ==
    ASSUME WorldType, NEW r \in Repos
    PROVE  history[r] \in Seq(Tree) /\ Len(history[r]) \in Nat
BY LenProperties DEF WorldType

LEMMA HeadOfBound ==
    ASSUME WorldShape, NEW r \in Repos
    PROVE  HeadOf(r) \in 0..MaxCommits /\ HeadOf(r) <= Len(history[r])
<1>1. branch[r] \in Branches /\ tips[r][branch[r]] \in Nat
  BY DEF WorldShape, WorldType, SHA
<1>2. Len(history[r]) \in Nat /\ MaxCommits \in Nat
  BY HistoryLength, WorldAssumption DEF WorldShape
<1>3. QED
  BY <1>1, <1>2 DEF WorldShape, Bounds, BranchesPointBack, HeadOf

\* git.go:111: a dirty list, of no more than the files there are.
LEMMA GitStatusType ==
    ASSUME NEW r \in Repos
    PROVE  GitStatus(r) \in DirtyLists
<1> DEFINE tree   == CommitTree(r, HeadOf(r))
           differ == {g \in Files : wt[r][g] # tree[g]}
           status == [f \in differ |->
                         IF wt[r][f] = Absent THEN "deleted"
                         ELSE IF tree[f] = Absent THEN "added"
                         ELSE "modified"]
<1>1. status \in [differ -> FileStatus]
  BY DEF FileStatus
<1>2. differ \in SUBSET Files
  OBVIOUS
<1>3. GitStatus(r) = status
  BY DEF GitStatus
<1>4. QED
  BY <1>1, <1>2, <1>3 DEF DirtyLists

LEMMA CommitTreeType ==
    ASSUME WorldShape, NEW r \in Repos, NEW sha \in Nat, sha <= Len(history[r])
    PROVE  CommitTree(r, sha) \in Tree
<1>1. history[r] \in Seq(Tree) /\ Len(history[r]) \in Nat
  BY HistoryLength DEF WorldShape
<1>2. CASE sha = NoSHA
  BY <1>2 DEF CommitTree, NoFiles, Tree
<1>3. CASE sha # NoSHA
  <2>1. sha \in 1..Len(history[r])
    BY <1>1, <1>3 DEF NoSHA
  <2>2. history[r][sha] \in Tree
    BY <1>1, <2>1, ElementOfSeq
  <2>3. QED
    BY <1>3, <2>2 DEF CommitTree
<1>4. QED
  BY <1>2, <1>3

-----------------------------------------------------------------------------
(***************************************************************************)
(* WorldShape is preserved.                                                *)
(***************************************************************************)
LEMMA WorldInitShape == WorldInit => WorldShape
<1> SUFFICES ASSUME WorldInit PROVE WorldShape
  OBVIOUS
<1>1. PICK tree \in [Repos -> FirstCommits] :
          history = [r \in Repos |-> IF r \in Unborn THEN <<>> ELSE <<tree[r]>>]
  BY DEF WorldInit
<1>2. \A r \in Repos : tree[r] \in Tree
  BY WorldAssumption
<1>3. ASSUME NEW r \in Repos
      PROVE  /\ history[r] \in Seq(Tree)
             /\ Len(history[r]) \in Nat /\ Len(history[r]) <= 1
  <2>1. CASE r \in Unborn
    BY <1>1, <2>1, EmptySeq
  <2>2. CASE r \notin Unborn
    <3>1. history[r] = <<tree[r]>>
      BY <1>1, <2>2
    <3>2. <<tree[r]>> \in Seq(Tree) /\ Len(<<tree[r]>>) = 1
      BY <1>2
    <3>3. QED
      BY <3>1, <3>2
  <2>3. QED
    BY <2>1, <2>2
<1>4. history \in [Repos -> Seq(Tree)]
  BY <1>1, <1>3
<1>5. tips \in [Repos -> [Branches -> SHA]]
  BY <1>3 DEF WorldInit, SHA, NoSHA
<1>6. WorldType
  BY <1>4, <1>5, WorldAssumption DEF WorldInit, WorldType
<1>7. Bounds
  <2>1. MaxCommits \in Nat /\ 1 <= MaxCommits
    BY WorldAssumption
  <2>2. QED
    BY <1>3, <2>1 DEF Bounds
<1>8. BranchesPointBack
  BY <1>3 DEF BranchesPointBack, WorldInit, NoSHA
<1>9. QED
  BY <1>6, <1>7, <1>8 DEF WorldShape

LEMMA CommitShape ==
    ASSUME WorldShape, NEW r \in Repos, Commit(r)
    PROVE  WorldShape'
<1> DEFINE n == Len(history[r])
           b == branch[r]
<1>1. /\ n \in Nat /\ history[r] \in Seq(Tree) /\ wt[r] \in Tree
      /\ b \in Branches
  BY HistoryLength DEF WorldShape, WorldType
<1>2. /\ Append(history[r], wt[r]) \in Seq(Tree)
      /\ Len(Append(history[r], wt[r])) = n + 1
  BY <1>1, AppendProperties
<1>3. /\ history' = [history EXCEPT ![r] = Append(history[r], wt[r])]
      /\ tips' = [tips EXCEPT ![r][b] = n + 1]
      /\ n < MaxCommits
      /\ UNCHANGED <<branch, wt, onDisk, edits, moves>>
  BY DEF Commit
<1> HIDE DEF n, b
<1>4. \A q \in Repos : Len(history'[q]) = IF q = r THEN n + 1 ELSE Len(history[q])
  BY <1>2, <1>3 DEF WorldShape, WorldType
<1>5. history' \in [Repos -> Seq(Tree)]
  BY <1>2, <1>3 DEF WorldShape, WorldType
<1>6. /\ tips' \in [Repos -> [Branches -> SHA]]
      /\ \A q \in Repos, c \in Branches :
            tips'[q][c] = IF q = r /\ c = b THEN n + 1 ELSE tips[q][c]
  BY <1>1, <1>3 DEF WorldShape, WorldType, SHA
<1>7. WorldType'
  BY <1>3, <1>5, <1>6 DEF WorldShape, WorldType
<1>8. Bounds'
  BY <1>1, <1>3, <1>4, WorldAssumption DEF WorldShape, Bounds
<1>9. BranchesPointBack'
  <2> SUFFICES ASSUME NEW q \in Repos, NEW c \in Branches
               PROVE  tips'[q][c] <= Len(history'[q])
    BY DEF BranchesPointBack
  <2>1. tips[q][c] <= Len(history[q]) /\ tips[q][c] \in Nat
    BY DEF WorldShape, WorldType, BranchesPointBack, SHA
  <2>2. q = r => Len(history[q]) = n
    BY DEF n
  <2>3. QED
    BY <1>1, <1>4, <1>6, <2>1, <2>2
<1>10. QED
  BY <1>7, <1>8, <1>9 DEF WorldShape

LEMMA CheckoutShape ==
    ASSUME WorldShape, NEW r \in Repos, NEW b \in Branches, Checkout(r, b)
    PROVE  WorldShape'
<1> DEFINE old == CommitTree(r, HeadOf(r))
           sha == IF tips[r][b] = NoSHA THEN HeadOf(r) ELSE tips[r][b]
           new == CommitTree(r, sha)
           tree == [f \in Files |-> IF wt[r][f] = old[f] THEN new[f] ELSE wt[r][f]]
<1>1. HeadOf(r) \in Nat /\ HeadOf(r) <= Len(history[r])
  <2>1. MaxCommits \in Nat
    BY WorldAssumption
  <2>2. QED
    BY <2>1, HeadOfBound
<1>2. tips[r][b] \in Nat /\ tips[r][b] <= Len(history[r])
  BY DEF WorldShape, WorldType, BranchesPointBack, SHA
<1>3. sha \in Nat /\ sha <= Len(history[r])
  BY <1>1, <1>2
<1>4. new \in Tree
  BY <1>3, CommitTreeType
<1>5. /\ tips' = [tips EXCEPT ![r][b] = sha]
      /\ branch' = [branch EXCEPT ![r] = b]
      /\ wt' = [wt EXCEPT ![r] = tree]
      /\ edits' = edits + 1 /\ edits < MaxEdits
      /\ UNCHANGED <<history, onDisk, moves>>
  BY DEF Checkout
<1> HIDE DEF old, sha, new
<1>6. tree \in Tree
  BY <1>4 DEF Tree, WorldShape, WorldType
<1> HIDE DEF tree
<1>7. tips' \in [Repos -> [Branches -> SHA]]
  BY <1>3, <1>5 DEF WorldShape, WorldType, SHA
<1>8. edits' \in 0..MaxEdits
  <2>1. MaxEdits \in Nat
    BY WorldAssumption
  <2>2. QED
    BY <1>5, <2>1 DEF WorldShape, WorldType
<1>9. WorldType'
  BY <1>5, <1>6, <1>7, <1>8 DEF WorldShape, WorldType
<1>10. Bounds' /\ BranchesPointBack'
  BY <1>3, <1>5 DEF WorldShape, WorldType, Bounds, BranchesPointBack
<1>11. QED
  BY <1>9, <1>10 DEF WorldShape

LEMMA UserStepShape ==
    ASSUME WorldShape, UserStep
    PROVE  WorldShape'
<1>1. PICK r \in Repos :
          \/ \E f \in Files, content \in Contents \union {Absent} :
                Edit(r, f, content)
          \/ Commit(r)
          \/ \E b \in Branches : Checkout(r, b)
          \/ Disappear(r)
          \/ Appear(r)
  BY DEF UserStep
<1>2. ASSUME UNCHANGED <<history, tips>>, WorldType'
      PROVE  WorldShape'
  BY <1>2 DEF WorldShape, Bounds, BranchesPointBack
<1>3. MaxEdits \in Nat /\ MaxMoves \in Nat
  BY WorldAssumption
<1>4. ASSUME NEW f \in Files, NEW content \in Contents \union {Absent},
             Edit(r, f, content)
      PROVE  WorldShape'
  <2>1. wt' \in [Repos -> Tree]
    BY <1>4 DEF Edit, WorldShape, WorldType, Tree
  <2>2. edits' \in 0..MaxEdits
    BY <1>3, <1>4 DEF Edit, WorldShape, WorldType
  <2>3. WorldType'
    BY <1>4, <2>1, <2>2 DEF Edit, WorldShape, WorldType
  <2>4. QED
    BY <1>2, <1>4, <2>3 DEF Edit
<1>5. CASE Disappear(r) \/ Appear(r)
  <2>1. moves' \in 0..MaxMoves
    BY <1>3, <1>5 DEF Disappear, Appear, WorldShape, WorldType
  <2>2. WorldType'
    BY <1>5, <2>1 DEF Disappear, Appear, WorldShape, WorldType
  <2>3. QED
    BY <1>2, <1>5, <2>2 DEF Disappear, Appear
<1>6. QED
  BY <1>1, <1>4, <1>5, CommitShape, CheckoutShape

-----------------------------------------------------------------------------
(***************************************************************************)
(* With one branch HEAD only advances.                                     *)
(***************************************************************************)
\* The tip of the branch is the last commit.
HeadIsLast == \A r \in Repos : HeadOf(r) = Len(history[r])

SingleBranch == Branches = {MainBranch}

LEMMA HeadStartsLast ==
    ASSUME WorldInit
    PROVE  HeadIsLast
BY WorldAssumption DEF WorldInit, HeadIsLast, HeadOf

\* No user step takes HEAD back, or a repository off the disk.
LEMMA HeadAdvances ==
    ASSUME SingleBranch, MaxMoves = 0, WorldShape, HeadIsLast, UserStep
    PROVE  /\ HeadIsLast'
           /\ \A r \in Repos : HeadOf(r)' >= HeadOf(r)
           /\ onDisk' = onDisk
<1>1. PICK r \in Repos :
          \/ \E f \in Files, content \in Contents \union {Absent} :
                Edit(r, f, content)
          \/ Commit(r)
          \/ \E b \in Branches : Checkout(r, b)
          \/ Disappear(r)
          \/ Appear(r)
  BY DEF UserStep
<1>2. \A q \in Repos : Len(history[q]) \in Nat /\ branch[q] = MainBranch
  BY HistoryLength DEF WorldShape, WorldType, SingleBranch
<1>3. ~Disappear(r) /\ ~Appear(r) /\ ~\E b \in Branches : Checkout(r, b)
  BY <1>2 DEF WorldShape, WorldType, SingleBranch, Disappear, Appear, Checkout
<1>4. ASSUME NEW f, NEW content, Edit(r, f, content)
      PROVE  UNCHANGED <<history, tips, branch, onDisk>>
  BY <1>4 DEF Edit
<1>5. CASE Commit(r)
  <2>1. wt[r] \in Tree /\ history[r] \in Seq(Tree)
    BY HistoryLength DEF WorldShape, WorldType
  <2>2. Len(Append(history[r], wt[r])) = Len(history[r]) + 1
    BY <2>1, AppendProperties
  <2>3. /\ history' = [history EXCEPT ![r] = Append(history[r], wt[r])]
        /\ tips' = [tips EXCEPT ![r][branch[r]] = Len(history[r]) + 1]
        /\ branch' = branch /\ onDisk' = onDisk
    BY <1>5 DEF Commit
  <2>4. \A q \in Repos :
           Len(history'[q]) = IF q = r THEN Len(history[r]) + 1 ELSE Len(history[q])
    BY <2>2, <2>3 DEF WorldShape, WorldType
  <2>5. \A q \in Repos :
           tips'[q][branch'[q]] = IF q = r THEN Len(history[r]) + 1 ELSE HeadOf(q)
    BY <1>2, <2>3 DEF WorldShape, WorldType, HeadOf
  <2>6. \A q \in Repos : HeadOf(q)' = Len(history'[q])
    BY <2>4, <2>5 DEF HeadOf, HeadIsLast
  <2>7. \A q \in Repos : HeadOf(q)' >= HeadOf(q)
    <3> SUFFICES ASSUME NEW q \in Repos PROVE HeadOf(q)' >= HeadOf(q)
      OBVIOUS
    <3>1. HeadOf(q) = Len(history[q]) /\ Len(history[q]) \in Nat
      BY <1>2 DEF HeadIsLast
    <3>2. HeadOf(q)' = IF q = r THEN Len(history[r]) + 1 ELSE Len(history[q])
      BY <2>4, <2>6
    <3>3. QED
      BY <3>1, <3>2
  <2>8. QED
    BY <2>3, <2>6, <2>7 DEF HeadIsLast
<1>6. CASE UNCHANGED <<history, tips, branch, onDisk>>
  <2>1. \A q \in Repos : HeadOf(q) \in Nat
    BY <1>2 DEF HeadIsLast
  <2>2. QED
    BY <1>6, <2>1 DEF HeadIsLast, HeadOf
<1>7. QED
  BY <1>1, <1>3, <1>4, <1>5, <1>6

-----------------------------------------------------------------------------
(***************************************************************************)
(* The types of the program's variables, and what goes with them.          *)
(***************************************************************************)
ShardsSound ==
    /\ shard \in [Repos -> Heads]
    /\ pathToSHA \in [Repos -> Heads]
    /\ run \in [Workers -> Run]
    /\ \A w \in Workers : run[w].sha \in Heads
    /\ listing \in [Workers \union Refreshers ->
                        [Repos -> Heads] \union {NoListing}]

\* The process has not been told to stop, and no poller runs ReindexAll.
Serving == main = "serving" /\ \A p \in Pollers : sweep[p] = {}

SystemSound ==
    /\ Shape /\ Counts /\ Serving
    /\ PollersSound
    /\ WatcherType
    /\ WorldShape
    /\ ShardsSound

\* The steps of SystemNext, as the proofs take them.
PollerMakes(p) == PollerActs(p) /\ PollFrame /\ UNCHANGED watchVars

\* With git's answers, if it asks for any that the proofs speak of.
Asks(p) == PollStep(p) \/ poll[p].pc \notin {"discover", "head"}

JobMakes(w) ==
    \/ TakesSlot(w) \/ Runs(w) \/ Publishes(w) \/ Indexed(w) \/ JobRefreshes(w)

CallerMakes(c) == (StartAll(c) \/ StartOne(c) \/ SweepStep(c) \/ Spawn(c))
                      /\ CallerFrame

-----------------------------------------------------------------------------
(***************************************************************************)
(* What git and the file system answer.                                    *)
(***************************************************************************)
LEMMA HeadOfAnswer ==
    ASSUME WorldShape, NEW r \in Repos
    PROVE  HeadOf(r) \in Heads
BY HeadOfBound, VanzelfAssumption

LEMMA ContentAnswer ==
    ASSUME WorldShape, NEW r \in Repos, NEW f \in Files
    PROVE  Content(r, f) \in Contents \union {Absent}
BY DEF Content, WorldShape, WorldType, Tree

LEMMA PollStepActs ==
    ASSUME WorldShape, NEW p \in Pollers, PollStep(p)
    PROVE  PollerActs(p)
<1>1. CASE TrackedPaths(p) \/ EndOfList(p) \/ DiscoveryFails(p)
  BY <1>1 DEF PollerActs, LoopActs
<1>2. CASE Discover(p, onDisk)
  <2>1. onDisk \in SUBSET Repos
    BY DEF WorldShape, WorldType
  <2>2. QED
    BY <1>2, <2>1 DEF PollerActs, LoopActs
<1>3. ASSUME NEW r \in Repos, RemoveGone(p, r) \/ NextRepo(p, r)
      PROVE  PollerActs(p)
  BY <1>3 DEF PollerActs, LoopActs
<1>4. ASSUME NEW r \in Repos,
             \/ PollBranch(p, r, branch[r])
             \/ PollHead(p, r, HeadOf(r))
             \/ PollHead(p, r, NoSHA)
             \/ PollStatus(p, r, GitStatus(r))
             \/ PollFails(p, r)
             \/ LookUpShard(p, r)
      PROVE  PollerActs(p)
  <2>1. branch[r] \in Branches
    BY DEF WorldShape, WorldType
  <2>2. HeadOf(r) \in Heads /\ NoSHA \in Heads
    BY HeadOfAnswer, PollerAssumption
  <2>3. ReadActs(p, r)
    BY <1>4, <2>1, <2>2, GitStatusType DEF ReadActs
  <2>4. QED
    BY <2>3 DEF PollerActs
<1>5. ASSUME NEW r \in Repos, NEW f \in Files, PollFile(p, r, f, Content(r, f))
      PROVE  PollerActs(p)
  <2>1. ReadActs(p, r)
    BY <1>5, ContentAnswer DEF ReadActs
  <2>2. QED
    BY <2>1 DEF PollerActs
<1>6. ASSUME NEW r \in Repos,
             \/ UpdateTable(p, r) \/ RecordShard(p, r) \/ SettleNew(p, r)
             \/ PublishPolled(p, r) \/ ClearDelta(p, r)
             \/ MarkStale(p, r) \/ DropDelta(p, r)
             \/ PollTriggers(p, r) \/ PollSpawns(p, r)
      PROVE  PollerActs(p)
  BY <1>6 DEF PollerActs, WriteActs, TriggerActs
<1>7. QED
  BY <1>1, <1>2, <1>3, <1>4, <1>5, <1>6 DEF PollStep

LEMMA SystemSteps ==
    ASSUME WorldShape, SystemNext
    PROVE  \/ UserActs
           \/ \E p \in Pollers : PollerMakes(p) /\ Asks(p)
           \/ \E p \in Pollers : SyncWatches(p) \/ FlushReady(p)
           \/ FileEvent
           \/ \E w \in Workers : JobMakes(w)
           \/ \E g \in Refreshers : RefreshTick(g)
           \/ \E c \in Schedulers \union Handlers : CallerMakes(c)
<1>1. ASSUME NEW p \in Pollers, PollerStep(p)
      PROVE  PollerMakes(p) /\ Asks(p)
  BY <1>1, PollStepActs DEF PollerStep, PollerMakes, Asks
<1>2. ASSUME NEW p \in Pollers, PollLocks(p)
      PROVE  PollerMakes(p) /\ Asks(p)
  <2>1. PollerMakes(p)
    BY <1>2 DEF PollLocks, PollerMakes, PollerActs
  <2>2. QED
    BY <1>2, <2>1 DEF PollLocks, Lock, Polls, Asks
<1>3. CASE PollTick
  <2>1. Ticker \in Pollers
    BY DEF Pollers
  <2>2. PollerMakes(Ticker)
    BY <1>3, <2>1 DEF PollTick, PollerMakes, PollerActs, LoopActs
  <2>3. QED
    BY <1>3, <2>1, <2>2 DEF PollTick, PollAll, Asks
<1>4. CASE DiscoverTick
  <2>1. Ticker \in Pollers
    BY DEF Pollers
  <2>2. PollerMakes(Ticker)
    BY <1>4, <2>1 DEF DiscoverTick, PollerMakes, PollerActs, LoopActs
  <2>3. QED
    BY <1>4, <2>1, <2>2 DEF DiscoverTick, StartDiscovery, Asks
<1>5. ASSUME NEW p \in Rescans, HandleRescan(p)
      PROVE  p \in Pollers /\ PollerMakes(p) /\ Asks(p)
  <2>1. p \in Pollers /\ PollerMakes(p)
    BY <1>5 DEF Pollers, HandleRescan, PollerMakes, PollerActs, LoopActs
  <2>2. QED
    BY <1>5, <2>1 DEF HandleRescan, StartDiscovery, Asks
<1>6. Flushers \subseteq Pollers
  BY DEF Pollers
<1>7. ASSUME NEW c \in Schedulers \union Handlers,
             ReindexTick(c) \/ HandleReindex(c) \/ SweepOn(c)
      PROVE  CallerMakes(c)
  BY <1>7 DEF ReindexTick, HandleReindex, SweepOn, CallerMakes
<1>8. QED
  BY <1>1, <1>2, <1>3, <1>4, <1>5, <1>6, <1>7 DEF SystemNext, JobMakes

-----------------------------------------------------------------------------
(***************************************************************************)
(* A step of the program is one of the manager, or none of its business.   *)
(***************************************************************************)
ManagerStep == ManagerNext \/ PollerWrites \/ UNCHANGED vars

LEMMA JobIsManagers ==
    ASSUME WorldShape, JobsHaveRepo, NEW w \in Workers, JobMakes(w)
    PROVE  Acquire(w) \/ JobStep(w) \/ UNCHANGED vars
<1> DEFINE r == worker[w].repo
<1>1. CASE TakesSlot(w)
  BY <1>1 DEF TakesSlot
<1>2. CASE Indexed(w)
  BY <1>2 DEF Indexed, RunEnds, JobStep
<1>3. CASE Publishes(w)
  BY <1>3 DEF Publishes, PublishShard
<1>4. CASE JobRefreshes(w)
  BY <1>4 DEF JobRefreshes, JobStep
<1>5. CASE ResolveHead(w) \/ RunFails(w)
  BY <1>5 DEF ResolveHead, RunFails, JobStep
<1>6. CASE ReadingStep(w)
  <2>1. NoSHA \in Heads
    BY PollerAssumption
  <2>2. ~At(w, "idle") => r \in Repos
    BY DEF JobsHaveRepo, Live, At
  <2>3. At(w, "head") \/ At(w, "status") \/ At(w, "scan") => r \in Repos
    BY <2>2 DEF At
  <2>4. ASSUME At(w, "head"), ReadHead(w, HeadOf(r))
        PROVE  JobStep(w)
    BY <2>3, <2>4, HeadOfAnswer DEF JobStep
  <2>5. ASSUME At(w, "status"), ReadStatus(w, GitStatus(r))
        PROVE  JobStep(w)
    BY <2>3, <2>5, GitStatusType DEF JobStep
  <2>6. ASSUME At(w, "scan"), NEW f \in Files, ReadFile(w, f, Content(r, f))
        PROVE  JobStep(w)
    BY <2>3, <2>6, ContentAnswer DEF JobStep
  <2>7. CASE ReadHead(w, NoSHA)
    BY <2>1, <2>7 DEF JobStep
  <2>8. CASE \/ MarkIndexing(w) \/ MarkError(w) \/ ReadHeadFails(w)
             \/ RecordIndexed(w) \/ MarkIdle(w) \/ ReadStatusFails(w)
             \/ PublishDelta(w) \/ Release(w) \/ Unmark(w) \/ Done(w)
    BY <2>8 DEF JobStep
  <2>9. QED
    BY <1>6, <2>4, <2>5, <2>6, <2>7, <2>8 DEF ReadingStep
<1>7. QED
  BY <1>1, <1>2, <1>3, <1>4, <1>5, <1>6 DEF JobMakes, Runs

\* Nobody but the scheduler and the handlers runs ReindexAll, and the process
\* is not told to stop.
LEMMA JobKeepsServing ==
    ASSUME Serving, NEW w \in Workers,
           Acquire(w) \/ JobStep(w) \/ UNCHANGED vars
    PROVE  Serving'
<1>1. UNCHANGED <<sweep, main>>
  BY DEF JobStep, Acquire, Goto, MarkIndexing, IndexSucceeds, IndexFails,
         MarkError, ReadHead, ReadHeadFails, RecordIndexed, MarkIdle,
         ReadStatus, ReadStatusFails, ReadFile, PublishDelta, RefreshFetch,
         RefreshFails, RefreshSwap, Release, Unmark, Done, vars
<1>2. QED
  BY <1>1 DEF Serving

LEMMA CallerKeepsServing ==
    ASSUME Serving, TypeOK, NEW c \in Schedulers \union Handlers, CallerMakes(c)
    PROVE  Serving' /\ c \in Callers /\ CallerStep(c)
<1>1. c \in Callers /\ c \notin Pollers
  BY VanzelfAssumption
<1>2. main' = main /\ \A q \in Callers \ {c} : sweep'[q] = sweep[q]
  BY DEF CallerMakes, StartAll, StartOne, SweepStep, Spawn, TypeOK
<1>3. Serving'
  BY <1>1, <1>2, PollerAssumption DEF Serving
<1>4. QED
  BY <1>1, <1>3 DEF CallerMakes, CallerStep

LEMMA SystemIsManagers ==
    ASSUME SystemSound, [SystemNext]_allVars
    PROVE  ManagerStep /\ Serving'
<1>1. ASSUME UNCHANGED vars
      PROVE  ManagerStep /\ Serving'
  BY <1>1 DEF ManagerStep, vars, SystemSound, Serving
<1>2. ASSUME NEW p \in Pollers, PollerMakes(p)
      PROVE  ManagerStep /\ Serving'
  <2>1. UNCHANGED <<sweep, main>> /\ PollerActs(p) /\ sweep[p] = {} /\ p \in Callers
    BY <1>2, PollerAssumption DEF PollerMakes, PollFrame, SystemSound, Serving
  <2>2. PollerWrites \/ CallerStep(p) \/ UNCHANGED vars
    BY <2>1, ActsAreManagers DEF SystemSound
  <2>3. QED
    BY <2>1, <2>2 DEF ManagerStep, ManagerNext, SystemSound, Serving
<1>3. ASSUME NEW w \in Workers, JobMakes(w)
      PROVE  ManagerStep /\ Serving'
  <2>1. Acquire(w) \/ JobStep(w) \/ UNCHANGED vars
    BY <1>3, JobIsManagers DEF SystemSound, Shape
  <2>2. Serving'
    BY <2>1, JobKeepsServing DEF SystemSound
  <2>3. QED
    BY <2>1, <2>2 DEF ManagerStep, ManagerNext
<1>4. ASSUME NEW c \in Schedulers \union Handlers, CallerMakes(c)
      PROVE  ManagerStep /\ Serving'
  <2>1. Serving' /\ c \in Callers /\ CallerStep(c)
    BY <1>4, CallerKeepsServing DEF SystemSound, Shape
  <2>2. QED
    BY <2>1 DEF ManagerStep, ManagerNext
<1>5. ASSUME \/ UserActs \/ FileEvent
             \/ \E p \in Pollers : SyncWatches(p) \/ FlushReady(p)
             \/ \E g \in Refreshers : RefreshTick(g)
             \/ UNCHANGED allVars
      PROVE  UNCHANGED vars
  BY <1>5 DEF UserActs, FileEvent, Event, SyncWatches, Sync, FlushReady, Flush,
              RefreshTick, PollFrame, allVars, vars, jobVars
<1>6. WorldShape
  BY DEF SystemSound
<1>7. QED
  BY <1>1, <1>2, <1>3, <1>4, <1>5, <1>6, SystemSteps

LEMMA ServingStep ==
    ASSUME Serving, ManagerStep
    PROVE  [Next]_vars
BY DEF Serving, ManagerStep, Next

-----------------------------------------------------------------------------
(***************************************************************************)
(* SystemSound is inductive.                                               *)
(***************************************************************************)
LEMMA FreshPollersSound ==
    PollerInit => PollersSound /\ \A p \in Pollers : poll[p].pc \notin InPoll
<1> SUFFICES ASSUME lock = AllFree, poll = FreshPollers
             PROVE  PollersSound /\ \A p \in Pollers : poll[p].pc \notin InPoll
  BY DEF PollerInit
<1> DEFINE first == [IdlePoller EXCEPT !.pc = "discover", !.discovers = TRUE]
<1>1. SoundPoll(first) /\ first.pc = "discover"
  BY IdlePollerSound DEF SoundPoll, PollState, PollPC, InPoll
<1>2. IdlePoller.pc = "idle"
  BY DEF IdlePoller
<1>3. \A p \in Pollers : poll[p] = first \/ poll[p] = IdlePoller
  BY DEF FreshPollers
<1> HIDE DEF first
<1>4. \A p \in Pollers : SoundPoll(poll[p]) /\ poll[p].pc \notin InPoll
  BY <1>1, <1>2, <1>3, IdlePollerSound DEF InPoll
<1>5. poll \in [Pollers -> PollState]
  BY <1>4 DEF FreshPollers, SoundPoll
<1>6. QED
  BY <1>4, <1>5 DEF PollersSound, Exclusive, AllFree

LEMMA NoRunsSound ==
    /\ NoRuns \in [Workers -> Run]
    /\ \A w \in Workers : NoRuns[w].sha \in Heads
BY PollerAssumption DEF NoRuns, NoRun, Run, NoSHA, SHA

\* What a start of the program sets, the world and the shards being as they are.
Started ==
    /\ Init /\ PollerInit
    /\ run = NoRuns /\ listing = NoListings
    /\ pathToSHA \in {shard, EmptyMap}

LEMMA StartedSound == Started => Shape /\ Counts /\ Serving /\ PollersSound
<1> SUFFICES ASSUME Started PROVE Shape /\ Counts /\ Serving /\ PollersSound
  OBVIOUS
<1>1. Shape /\ Counts /\ PollersSound
  BY InitShape, FreshPollersSound DEF Started
<1>2. Serving
  BY PollerAssumption DEF Started, Init, JobsInit, Serving
<1>3. QED
  BY <1>1, <1>2

LEMMA SystemInitSound == SystemInit => SystemSound
<1> SUFFICES ASSUME SystemInit PROVE SystemSound
  OBVIOUS
<1>1. Shape /\ Counts /\ Serving /\ PollersSound
  BY StartedSound DEF SystemInit, Started
<1>2. WatcherType
  BY DEF SystemInit, WatcherInit, WatcherType
<1>3. WorldShape
  BY WorldInitShape DEF SystemInit
<1>4. 0 \in Heads /\ 1 \in Heads
  <2>1. MaxCommits \in Nat /\ MaxCommits > 0
    BY WorldAssumption
  <2>2. 0 \in 0..MaxCommits /\ 1 \in 0..MaxCommits
    BY <2>1
  <2>3. QED
    BY <2>2, VanzelfAssumption
<1>5. shard \in [Repos -> Heads] /\ pathToSHA \in [Repos -> Heads]
  BY <1>4 DEF SystemInit, NoSHA, EmptyMap
<1>6. ShardsSound
  BY <1>5, NoRunsSound DEF SystemInit, ShardsSound, NoListings
<1>7. QED
  BY <1>1, <1>2, <1>3, <1>6 DEF SystemSound

\* The watcher's steps are steps of a poller outside of pollRepo.
LEMMA WatcherMoves ==
    ASSUME PollersSound, WatcherType, NEW p \in Pollers,
           SyncWatches(p) \/ FlushReady(p)
    PROVE  PollMoves(p) /\ WatcherType'
<1>1. CASE SyncWatches(p)
  <2>1. IdlePoller.pc \notin InPoll
    BY DEF IdlePoller, InPoll
  <2>2. PollMoves(p)
    BY <1>1, <2>1, IdlePollerSound, LoopMove DEF SyncWatches, Sync
  <2>3. WatcherType'
    BY <1>1 DEF SyncWatches, Sync, WatcherType, Paths
  <2>4. QED
    BY <2>2, <2>3
<1>2. ASSUME NEW ready \in SUBSET pending, Flush(p, ready)
      PROVE  PollMoves(p) /\ WatcherType'
  <2> DEFINE new == [IdlePoller EXCEPT !.pc = "next", !.found = ready]
  <2>1. ready \in SUBSET Repos
    BY DEF WatcherType
  <2>2. SoundPoll(new) /\ new.pc \notin InPoll
    BY <2>1, IdlePollerSound DEF SoundPoll, PollState, PollPC, InPoll
  <2>3. PollMoves(p)
    BY <1>2, <2>2, LoopMove DEF Flush
  <2>4. WatcherType'
    BY <1>2 DEF Flush, WatcherType
  <2>5. QED
    BY <2>3, <2>4
<1>3. QED
  BY <1>1, <1>2 DEF FlushReady

LEMMA StepPollers ==
    ASSUME SystemSound, [SystemNext]_allVars
    PROVE  PollersSound' /\ WatcherType'
<1>1. PollersSound /\ WatcherType /\ WorldShape /\ pathToSHA \in [Repos -> Heads]
  BY DEF SystemSound, ShardsSound
<1>2. ASSUME NEW p \in Pollers, PollerMakes(p)
      PROVE  PollersSound' /\ WatcherType'
  <2>1. PollersSound'
    BY <1>1, <1>2, ActsMove DEF PollerMakes
  <2>2. WatcherType'
    BY <1>1, <1>2 DEF PollerMakes, watchVars, WatcherType
  <2>3. QED
    BY <2>1, <2>2
<1>3. ASSUME NEW p \in Pollers, SyncWatches(p) \/ FlushReady(p)
      PROVE  PollersSound' /\ WatcherType'
  BY <1>1, <1>3, WatcherMoves, MovesKeepSound
<1>4. CASE UNCHANGED <<lock, poll>> /\ WatcherType'
  BY <1>1, <1>4 DEF PollersSound, Exclusive
<1>5. CASE FileEvent
  <2>1. WatcherType'
    BY <1>1, <1>5 DEF FileEvent, Event, WatcherType
  <2>2. QED
    BY <1>4, <1>5, <2>1 DEF FileEvent, Event
<1>6. CASE UNCHANGED <<lock, poll, watchVars>>
  <2>1. WatcherType'
    BY <1>1, <1>6 DEF watchVars, WatcherType
  <2>2. QED
    BY <1>4, <1>6, <2>1
<1>7. ASSUME \/ UserActs
             \/ \E w \in Workers : JobMakes(w)
             \/ \E g \in Refreshers : RefreshTick(g)
             \/ \E c \in Schedulers \union Handlers : CallerMakes(c)
             \/ UNCHANGED allVars
      PROVE  UNCHANGED <<lock, poll, watchVars>>
  BY <1>7 DEF UserActs, JobMakes, TakesSlot, Runs, Publishes, Indexed,
              JobRefreshes, RefreshTick, CallerMakes, CallerFrame, JobFrame,
              allVars, pollVars
<1>8. QED
  BY <1>1, <1>2, <1>3, <1>5, <1>6, <1>7, SystemSteps

LEMMA StepWorld ==
    ASSUME WorldShape, [SystemNext]_allVars
    PROVE  WorldShape' /\ (UserStep \/ UNCHANGED world)
<1>1. CASE UserActs
  BY <1>1, UserStepShape DEF UserActs
<1>2. CASE UNCHANGED world
  BY <1>2 DEF world, WorldShape, WorldType, Bounds, BranchesPointBack
<1>3. ASSUME \/ \E p \in Pollers : PollerMakes(p)
             \/ \E p \in Pollers : SyncWatches(p) \/ FlushReady(p)
             \/ FileEvent
             \/ \E w \in Workers : JobMakes(w)
             \/ \E g \in Refreshers : RefreshTick(g)
             \/ \E c \in Schedulers \union Handlers : CallerMakes(c)
             \/ UNCHANGED allVars
      PROVE  UNCHANGED world
  BY <1>3 DEF PollerMakes, SyncWatches, FlushReady, FileEvent, PollFrame, JobMakes,
              TakesSlot, Runs, Publishes, Indexed, JobRefreshes, RefreshTick,
              CallerMakes, CallerFrame, JobFrame, allVars
<1>4. QED
  BY <1>1, <1>2, <1>3, SystemSteps

\* Steps that leave the shards, the runs and the maps alone.
ShardFrame == UNCHANGED <<shard, run, pathToSHA, listing>>

LEMMA QuietShards ==
    ASSUME \/ UserActs
           \/ \E p \in Pollers :
                  PollerMakes(p) \/ SyncWatches(p) \/ FlushReady(p)
           \/ FileEvent
           \/ \E c \in Schedulers \union Handlers : CallerMakes(c)
           \/ \E w \in Workers : TakesSlot(w)
           \/ UNCHANGED allVars
    PROVE  ShardFrame
BY DEF UserActs, PollerMakes, SyncWatches, FlushReady, FileEvent, PollFrame,
       CallerMakes, CallerFrame, TakesSlot, allVars, pollVars, external, ShardFrame

LEMMA RefreshSound ==
    ASSUME ShardsSound, NEW g \in Workers \union Refreshers,
           Fetch(g) \/ Swap(g), UNCHANGED <<shard, run>>
    PROVE  ShardsSound'
<1>1. CASE Fetch(g)
  BY <1>1 DEF Fetch, ShardsSound
<1>2. CASE Swap(g)
  <2>1. listing[g] \in [Repos -> Heads]
    BY <1>2 DEF Swap, ShardsSound
  <2>2. QED
    BY <1>2, <2>1 DEF Swap, ShardsSound
<1>3. QED
  BY <1>1, <1>2

LEMMA JobShards ==
    ASSUME WorldShape, JobsHaveRepo, ShardsSound, NEW w \in Workers, JobMakes(w)
    PROVE  ShardsSound'
<1> DEFINE r == worker[w].repo
<1>1. ASSUME ShardFrame
      PROVE  ShardsSound'
  BY <1>1 DEF ShardFrame, ShardsSound
<1>2. CASE TakesSlot(w)
  BY <1>1, <1>2, QuietShards
<1>3. CASE ResolveHead(w) /\ UNCHANGED pathToSHA
  <2> DEFINE new == [stage |-> "resolved", sha |-> HeadOf(r)]
  <2>1. r \in Repos
    BY <1>3 DEF ResolveHead, At, JobsHaveRepo, Live
  <2>2. HeadOf(r) \in Heads /\ HeadOf(r) \in SHA
    BY <2>1, HeadOfAnswer, HeadAssumption
  <2>3. new \in Run /\ new.sha \in Heads
    BY <2>2 DEF Run
  <2>4. run' = [run EXCEPT ![w] = new] /\ UNCHANGED <<shard, listing>>
    BY <1>3 DEF ResolveHead
  <2> HIDE DEF new
  <2>5. QED
    BY <1>3, <2>3, <2>4 DEF ShardsSound
<1>4. ASSUME run' = [run EXCEPT ![w] = NoRun], UNCHANGED <<shard, listing, pathToSHA>>
      PROVE  ShardsSound'
  <2>1. NoRun \in Run /\ NoRun.sha \in Heads
    BY PollerAssumption DEF NoRun, Run, NoSHA, SHA
  <2>2. QED
    BY <1>4, <2>1 DEF ShardsSound
<1>5. CASE RunFails(w) /\ UNCHANGED pathToSHA
  BY <1>4, <1>5 DEF RunFails
<1>6. CASE ReadingStep(w) /\ UNCHANGED <<external, listing>> /\ UNCHANGED pathToSHA
  BY <1>1, <1>6 DEF external, ShardFrame
<1>7. CASE Publishes(w)
  <2> DEFINE new == [run[w] EXCEPT !.stage = "published"]
  <2>1. run[w] \in Run /\ run[w].sha \in Heads
    BY DEF ShardsSound
  <2>2. new \in Run /\ new.sha \in Heads
    BY <2>1 DEF Run
  <2>3. /\ shard' = [shard EXCEPT ![r] = run[w].sha]
        /\ run' = [run EXCEPT ![w] = new]
        /\ UNCHANGED <<listing, pathToSHA>>
    BY <1>7 DEF Publishes, PublishShard
  <2> HIDE DEF new
  <2>4. QED
    BY <2>1, <2>2, <2>3 DEF ShardsSound
<1>8. CASE Indexed(w)
  BY <1>4, <1>8 DEF Indexed, RunEnds
<1>9. CASE JobRefreshes(w)
  BY <1>1, <1>9, RefreshSound DEF JobRefreshes, external, ShardFrame
<1>10. QED
  BY <1>2, <1>3, <1>5, <1>6, <1>7, <1>8, <1>9 DEF JobMakes, Runs

LEMMA StepShards ==
    ASSUME SystemSound, [SystemNext]_allVars
    PROVE  ShardsSound'
<1>1. WorldShape /\ JobsHaveRepo /\ ShardsSound
  BY DEF SystemSound, Shape
<1>2. ASSUME NEW g \in Refreshers, RefreshTick(g)
      PROVE  ShardsSound'
  BY <1>1, <1>2, RefreshSound DEF RefreshTick, external
<1>3. CASE ShardFrame
  BY <1>1, <1>3 DEF ShardFrame, ShardsSound
<1>4. QED
  BY <1>1, <1>2, <1>3, JobShards, QuietShards, SystemSteps

LEMMA SystemStepSound ==
    ASSUME SystemSound, [SystemNext]_allVars
    PROVE  SystemSound' /\ [Next]_vars
<1>1. ManagerStep /\ Serving'
  BY SystemIsManagers
<1>2. [Next]_vars
  BY <1>1, ServingStep DEF SystemSound
<1>3. Shape' /\ Counts'
  BY <1>2, NextShape DEF SystemSound
<1>4. WorldShape'
  BY StepWorld DEF SystemSound
<1>5. QED
  BY <1>1, <1>2, <1>3, <1>4, StepPollers, StepShards DEF SystemSound

LEMMA SoundIsTyped == SystemSound => SystemType
<1> SUFFICES ASSUME SystemSound PROVE SystemType
  OBVIOUS
<1>1. TypeOK /\ WatcherType /\ WorldType
  BY DEF SystemSound, Shape, WorldShape
<1>2. PollerType
  BY HeadAssumption DEF SystemSound, PollersSound, ShardsSound, PollerType
<1>3. /\ shard \in [Repos -> SHA]
      /\ listing \in [Workers \union Refreshers -> [Repos -> SHA] \union {NoListing}]
      /\ run \in [Workers -> Run]
  BY HeadAssumption DEF SystemSound, ShardsSound
<1>4. QED
  BY <1>1, <1>2, <1>3 DEF SystemType

LEMMA SystemInvariance == SystemSpec => []SystemSound
<1>1. SystemSound /\ [SystemNext]_allVars => SystemSound'
  BY SystemStepSound
<1>2. QED
  BY SystemInitSound, <1>1, PTL DEF SystemSpec

\* Every variable of the program keeps its type: whatever git, zoekt and the
\* user do between two of its questions, nothing ends up in the state table, the
\* repo map or a job that the statements which use it do not expect.
THEOREM SystemTyped == SystemSpec => []SystemType
BY SystemInvariance, SoundIsTyped, PTL

\* Seen from the jobs, the program is ReindexManager: what polls, watches,
\* refreshes, the scheduler and the handlers do to the table and to the jobs is
\* what Spec lets the poller and the callers do.
THEOREM ProgramIsManager == SystemSpec => Spec
<1>1. SystemInit => Init
  BY DEF SystemInit
<1>2. SystemSound /\ [SystemNext]_allVars => [Next]_vars
  <2>1. SystemSound /\ [SystemNext]_allVars => Serving /\ ManagerStep
    BY SystemIsManagers DEF SystemSound
  <2>2. QED
    BY <2>1, ServingStep
<1>3. QED
  BY <1>1, <1>2, SystemInvariance, PTL DEF SystemSpec, Spec

\* A request for a reindex, whoever makes it, is queued once, runs in a slot and
\* leaves the queue only after its run.
THEOREM ProgramImplementsQueue == SystemSpec => ImplementsQueue
BY ProgramIsManager, ManagerImplementsQueue

-----------------------------------------------------------------------------
(***************************************************************************)
(* IdleHasShard.  A repo becomes idle after a run that published a shard,  *)
(* or after a poll that trusted the repo map.  So runs do publish, the map *)
(* and the answers on their way to it name shards there are, a poll that   *)
(* trusts the map is still about the table's HEAD, and a repo whose HEAD   *)
(* moved away from "no commit" is about to be marked stale by a goroutine  *)
(* that holds its lock.                                                    *)
(***************************************************************************)
Published(r) == shard[r] # NoSHA

RunsPublish ==
    \A w \in Workers :
        /\ run[w].stage # "none" => At(w, "index")
        /\ run[w].stage = "resolved" => run[w].sha # NoSHA
        /\ run[w].stage = "published" => Published(worker[w].repo)
        /\ worker[w].pc \in {"head", "record", "settle"} => Published(worker[w].repo)

KnownIsPublished ==
    \A r \in Repos :
        /\ pathToSHA[r] # NoSHA => Published(r)
        /\ \A g \in Workers \union Refreshers :
              listing[g] # NoListing /\ listing[g][r] # NoSHA => Published(r)

PollsTrust ==
    \A p \in Pollers :
        /\ poll[p].pc \in ForNew /\ Tracked(repos, poll[p].repo) =>
              repos[poll[p].repo].head = poll[p].bh.sha
        /\ poll[p].pc \in {"current", "settle"} =>
              poll[p].bh.sha = NoSHA \/ Published(poll[p].repo)

IdleNeedsShard ==
    \A r \in Repos :
        Tracked(repos, r) /\ repos[r].status = "idle" =>
            \/ Published(r)
            \/ repos[r].head = NoSHA
            \/ \E p \in Pollers : Polls(p, "stale", r)

IdleSound == RunsPublish /\ KnownIsPublished /\ PollsTrust /\ IdleNeedsShard

\* A step that makes no entry, moves no HEAD and sets no repo to idle.
Kept ==
    \A q \in Repos :
        Tracked(repos', q) =>
            /\ Tracked(repos, q)
            /\ repos'[q].head = repos[q].head
            /\ repos'[q].status = "idle" => repos[q].status = "idle"

LEMMA SettersKeep ==
    ASSUME repos \in Table, NEW r \in Repos,
           \/ \E status \in Status \ {"idle"} : repos' = SetStatus(repos, r, status)
           \/ \E sha : repos' = SetIndexed(repos, r, sha)
           \/ \E delta : repos' = SetDelta(repos, r, delta)
           \/ repos' = Remove(repos, r)
           \/ repos' = repos
    PROVE  Kept
<1> SUFFICES ASSUME NEW q \in Repos, Tracked(repos', q)
             PROVE  /\ Tracked(repos, q)
                    /\ repos'[q].head = repos[q].head
                    /\ repos'[q].status = "idle" => repos[q].status = "idle"
  BY DEF Kept
<1>1. ASSUME NEW status \in Status \ {"idle"}, repos' = SetStatus(repos, r, status)
      PROVE  /\ Tracked(repos, q)
             /\ repos'[q].head = repos[q].head
             /\ repos'[q].status = "idle" => repos[q].status = "idle"
  BY <1>1, SetStatusFields
<1>2. ASSUME NEW sha, repos' = SetIndexed(repos, r, sha)
      PROVE  /\ Tracked(repos, q)
             /\ repos'[q].head = repos[q].head
             /\ repos'[q].status = repos[q].status
  BY <1>2, SetIndexedFields
<1>3. ASSUME NEW delta, repos' = SetDelta(repos, r, delta)
      PROVE  /\ Tracked(repos, q)
             /\ repos'[q].head = repos[q].head
             /\ repos'[q].status = repos[q].status
  BY <1>3, SetDeltaFields
<1>4. CASE repos' = Remove(repos, r)
  BY <1>4, RemoveFields
<1>5. CASE repos' = repos
  BY <1>5
<1>6. QED
  BY <1>1, <1>2, <1>3, <1>4, <1>5

LEMMA PollKeeps ==
    ASSUME repos \in Table, NEW p \in Pollers, PollerActs(p)
    PROVE  Kept \/ \E r \in Repos : UpdateTable(p, r) \/ SettleNew(p, r)
<1>1. ASSUME repos' = repos
      PROVE  Kept
  BY <1>1 DEF Kept
<1>2. ASSUME NEW r \in Repos, RemoveGone(p, r)
      PROVE  Kept
  BY <1>2, SettersKeep DEF RemoveGone
<1>3. CASE LoopActs(p)
  BY <1>1, <1>2, <1>3 DEF LoopActs, PollAll, StartDiscovery, Discover,
     DiscoveryFails, TrackedPaths, NextRepo, EndOfList
<1>4. ASSUME NEW r \in Repos, Lock(p, r) \/ ReadActs(p, r) \/ TriggerActs(p, r)
      PROVE  Kept
  BY <1>1, <1>4 DEF Lock, ReadActs, PollBranch, PollHead, PollStatus, PollFails,
     LookUpShard, PollFile, TriggerActs, PollTriggers, PollSpawns, Spawn
<1>5. ASSUME NEW r \in Repos, WriteActs(p, r), ~UpdateTable(p, r), ~SettleNew(p, r)
      PROVE  Kept
  <2>1. "stale" \in Status \ {"idle"}
    BY DEF Status
  <2>2. QED
    BY <1>5, <2>1, SettersKeep DEF WriteActs, RecordShard, PublishPolled,
       ClearDelta, MarkStale, DropDelta
<1>6. QED
  BY <1>3, <1>4, <1>5 DEF PollerActs

LEMMA JobKeeps ==
    ASSUME Shape, NEW w \in Workers, JobMakes(w)
    PROVE  Kept \/ MarkIdle(w)
<1> DEFINE r == worker[w].repo
<1>1. repos \in Table
  BY DEF Shape, TypeOK
<1>2. ~At(w, "idle") => r \in Repos
  BY DEF Shape, JobsHaveRepo, Live, At
<1>3. ASSUME repos' = repos
      PROVE  Kept
  BY <1>3 DEF Kept
<1>4. CASE MarkIndexing(w) \/ MarkError(w)
  <2>1. r \in Repos
    BY <1>2, <1>4 DEF MarkIndexing, MarkError, Goto, At
  <2>2. {"indexing", "error"} \subseteq Status \ {"idle"}
    BY DEF Status
  <2>3. QED
    BY <1>1, <1>4, <2>1, <2>2, SettersKeep DEF MarkIndexing, MarkError
<1>5. CASE RecordIndexed(w) \/ PublishDelta(w)
  <2>1. r \in Repos
    BY <1>2, <1>5 DEF RecordIndexed, PublishDelta, At
  <2>2. QED
    BY <1>1, <1>5, <2>1, SettersKeep DEF RecordIndexed, PublishDelta
<1>6. CASE ReadingStep(w)
  BY <1>3, <1>4, <1>5, <1>6 DEF ReadingStep, ReadHead, ReadHeadFails, ReadStatus,
     ReadStatusFails, ReadFile, Release, Unmark, Done
<1>7. CASE TakesSlot(w) \/ Publishes(w) \/ Indexed(w) \/ JobRefreshes(w)
           \/ ResolveHead(w) \/ RunFails(w)
  BY <1>3, <1>7 DEF TakesSlot, Acquire, Publishes, PublishShard, Indexed, RunEnds,
     IndexSucceeds, JobRefreshes, RefreshFetch, RefreshFails, RefreshSwap,
     ResolveHead, RunFails, IndexFails, vars
<1>8. QED
  BY <1>6, <1>7 DEF JobMakes, Runs

\* A step of a job moves that job, which keeps its repo while it lives.
LEMMA JobMoves ==
    ASSUME Shape, WorldShape, NEW w \in Workers, JobMakes(w)
    PROVE  /\ OnlyMoves(w)
           /\ worker'[w].pc # "idle" => worker'[w].repo = worker[w].repo
<1>1. TypeOK /\ JobsHaveRepo
  BY DEF Shape
<1>2. CASE Acquire(w)
  BY <1>1, <1>2, StatementStep DEF Acquire, WorkerPC, InSlot
<1>3. CASE Working(w)
  BY <1>3, WorkingWorks DEF Work
<1>4. CASE Release(w) \/ Unmark(w)
  BY <1>1, <1>4, StatementStep DEF Release, Unmark, WorkerPC
<1>5. CASE Done(w)
  BY <1>1, <1>5, DoneStep
<1>6. CASE UNCHANGED vars
  BY <1>1, <1>6 DEF vars, OnlyMoves, TypeOK
<1>7. Acquire(w) \/ JobStep(w) \/ UNCHANGED vars
  BY <1>1, JobIsManagers
<1>8. QED
  BY <1>2, <1>3, <1>4, <1>5, <1>6, <1>7 DEF JobStep, Working

\* Where the job goes on, and what becomes of its run.
LEMMA JobRun ==
    ASSUME Shape, ShardsSound, RunsPublish, NEW w \in Workers, JobMakes(w)
    PROVE  /\ \A v \in Workers \ {w} : run'[v] = run[v]
           /\ \/ /\ run'[w] = run[w] /\ shard' = shard
                 /\ \/ worker'[w].pc = worker[w].pc
                    \/ run[w].stage = "none"
                 /\ worker'[w].pc \in {"head", "record", "settle"} =>
                       worker[w].pc \in {"head", "record", "settle"}
              \/ /\ worker'[w].pc = "index" /\ shard' = shard
                 /\ run'[w].stage = "resolved" /\ run'[w].sha # NoSHA
              \/ /\ worker[w].pc = "index" /\ worker' = worker
                 /\ run[w].stage = "resolved"
                 /\ shard' = [shard EXCEPT ![worker[w].repo] = run[w].sha]
                 /\ run'[w].stage = "published"
              \/ /\ run'[w] = NoRun /\ shard' = shard
                 /\ worker'[w].pc = "fail" \/ run[w].stage = "published"
<1>1. /\ worker \in [Workers -> WorkerState] /\ worker[w] \in WorkerState
      /\ run \in [Workers -> Run] /\ run[w] \in Run
  BY DEF Shape, TypeOK, ShardsSound
<1>2. ~At(w, "index") => run[w].stage = "none"
  BY DEF RunsPublish
<1>3. CASE TakesSlot(w)
  BY <1>1, <1>2, <1>3 DEF TakesSlot, Acquire, At, external, WorkerState
<1>4. CASE ResolveHead(w)
  BY <1>1, <1>4 DEF ResolveHead, At, vars
<1>5. CASE RunFails(w)
  BY <1>1, <1>5 DEF RunFails, IndexFails, Goto, At, WorkerState
<1>6. CASE Publishes(w)
  BY <1>1, <1>6 DEF Publishes, PublishShard, At, vars, Run
<1>7. CASE Indexed(w)
  BY <1>1, <1>7 DEF Indexed, RunEnds
<1>8. CASE JobRefreshes(w)
  BY <1>1, <1>2, <1>8 DEF JobRefreshes, RefreshFetch, RefreshFails, RefreshSwap,
     Goto, At, external, WorkerState
<1>9. CASE ReadingStep(w) /\ UNCHANGED <<external, listing>>
  <2>1. run' = run /\ shard' = shard
    BY <1>9 DEF external
  <2>2. ASSUME \/ MarkIndexing(w) \/ MarkError(w) \/ MarkIdle(w)
               \/ ReadStatusFails(w) \/ Release(w) \/ Unmark(w)
        PROVE  /\ ~At(w, "index")
               /\ worker'[w].pc \in {"index", "release", "status", "refresh",
                                    "unmark", "done"}
    BY <1>1, <2>2 DEF MarkIndexing, MarkError, MarkIdle, ReadStatusFails,
       Release, Unmark, Goto, At, WorkerState
  <2>2a. ASSUME PublishDelta(w)
        PROVE  ~At(w, "index") /\ worker'[w].pc = "refresh"
    BY <1>1, <2>2a DEF PublishDelta, At, WorkerState
  <2>3. CASE ReadHeadFails(w) \/ RecordIndexed(w) \/ \E sha : ReadHead(w, sha)
    BY <1>1, <1>2, <2>1, <2>3 DEF ReadHeadFails, RecordIndexed, ReadHead, Goto, At,
       WorkerState
  <2>4. ASSUME NEW dirty, ReadStatus(w, dirty)
        PROVE  At(w, "status") /\ worker'[w].pc \in {"delta", "scan"}
    <3>1. CASE dirty = Clean
      BY <1>1, <2>4, <3>1 DEF ReadStatus, WorkerState
    <3>2. CASE dirty # Clean
      BY <1>1, <2>4, <3>2 DEF ReadStatus, WorkerState
    <3>3. QED
      BY <2>4, <3>1, <3>2 DEF ReadStatus
  <2>5. ASSUME NEW f, NEW content, ReadFile(w, f, content)
        PROVE  At(w, "scan") /\ worker'[w].pc \in {"delta", "scan"}
    <3> DEFINE rest  == DOMAIN worker[w].todo \ {f}
               left  == [g \in rest |-> worker[w].todo[g]]
               delta == AddFile(worker[w].built, f, worker[w].todo[f], content)
               to    == IF rest = {} THEN "delta" ELSE "scan"
    <3>1. worker' = [worker EXCEPT ![w] = [worker[w] EXCEPT
                        !.pc = to, !.todo = left, !.built = delta]]
      BY <2>5 DEF ReadFile
    <3>2. to \in {"delta", "scan"}
      OBVIOUS
    <3> HIDE DEF to, left, delta
    <3>3. QED
      BY <1>1, <2>5, <3>1, <3>2 DEF ReadFile, WorkerState
  <2>6. CASE Done(w)
    BY <1>1, <1>2, <2>1, <2>6 DEF Done, At, IdleWorker
  <2>7. QED
    BY <1>9, <1>2, <2>1, <2>2, <2>2a, <2>3, <2>4, <2>5, <2>6 DEF ReadingStep, At
<1>10. QED
  BY <1>3, <1>4, <1>5, <1>6, <1>7, <1>8, <1>9 DEF JobMakes, Runs

\* zoekt-git-index never takes a shard away.
LEMMA PublishedStays ==
    ASSUME SystemSound, RunsPublish, [SystemNext]_allVars
    PROVE  /\ \A r \in Repos : Published(r) => Published(r)'
           /\ shard \in [Repos -> Heads]
<1>1. Shape /\ WorldShape /\ ShardsSound /\ shard \in [Repos -> Heads]
  BY DEF SystemSound, ShardsSound
<1>2. CASE shard' = shard
  BY <1>1, <1>2 DEF Published
<1>3. ASSUME NEW w \in Workers, JobMakes(w)
      PROVE  \A r \in Repos : Published(r) => Published(r)'
  <2>1. CASE shard' = shard
    BY <1>2, <2>1
  <2>2. CASE /\ run[w].stage = "resolved"
             /\ shard' = [shard EXCEPT ![worker[w].repo] = run[w].sha]
    <3>1. run[w].sha # NoSHA
      BY <2>2 DEF RunsPublish
    <3>2. QED
      BY <1>1, <2>2, <3>1 DEF Published
  <2>3. QED
    BY <1>1, <1>3, <2>1, <2>2, JobRun
<1>4. ASSUME ShardFrame
      PROVE  shard' = shard
  BY <1>4 DEF ShardFrame
<1>5. ASSUME NEW g \in Refreshers, RefreshTick(g)
      PROVE  shard' = shard
  BY <1>5 DEF RefreshTick, external
<1>6. QED
  BY <1>1, <1>2, <1>3, <1>4, <1>5, QuietShards, SystemSteps

LEMMA JobRunsPublish ==
    ASSUME SystemSound, RunsPublish, [SystemNext]_allVars,
           NEW w \in Workers, JobMakes(w)
    PROVE  RunsPublish'
<1>1. Shape /\ WorldShape /\ ShardsSound /\ JobsHaveRepo
  BY DEF SystemSound, Shape
<1>2. \A r \in Repos : Published(r) => Published(r)'
  BY PublishedStays
<1>3. OnlyMoves(w) /\ (worker'[w].pc # "idle" => worker'[w].repo = worker[w].repo)
  BY <1>1, JobMoves
<1>4. \A v \in Workers : worker[v].pc # "idle" => worker[v].repo \in Repos
  BY <1>1 DEF JobsHaveRepo, Live
<1>5. run \in [Workers -> Run] /\ run[w] \in Run
  BY <1>1 DEF ShardsSound
<1>6. ASSUME NEW v \in Workers \ {w}
      PROVE  /\ run'[v].stage # "none" => worker'[v].pc = "index"
             /\ run'[v].stage = "resolved" => run'[v].sha # NoSHA
             /\ (\/ run'[v].stage = "published"
                 \/ worker'[v].pc \in {"head", "record", "settle"})
                    => shard'[worker'[v].repo] # NoSHA
  <2>1. worker'[v] = worker[v] /\ run'[v] = run[v]
    BY <1>1, <1>3, JobRun DEF OnlyMoves
  <2>2. /\ run[v].stage # "none" => worker[v].pc = "index"
        /\ run[v].stage = "resolved" => run[v].sha # NoSHA
    BY DEF RunsPublish, At
  <2>3. ASSUME \/ run[v].stage = "published"
               \/ worker[v].pc \in {"head", "record", "settle"}
        PROVE  shard'[worker[v].repo] # NoSHA
    <3>1. worker[v].pc # "idle"
      BY <2>2, <2>3
    <3>2. Published(worker[v].repo) /\ worker[v].repo \in Repos
      BY <1>4, <2>3, <3>1 DEF RunsPublish
    <3>3. QED
      BY <1>2, <3>2 DEF Published
  <2>4. QED
    BY <2>1, <2>2, <2>3
<1>7. /\ run'[w].stage # "none" => worker'[w].pc = "index"
      /\ run'[w].stage = "resolved" => run'[w].sha # NoSHA
      /\ (\/ run'[w].stage = "published"
          \/ worker'[w].pc \in {"head", "record", "settle"})
             => shard'[worker'[w].repo] # NoSHA
  <2> DEFINE r == worker[w].repo
  <2>1. worker'[w].pc # "idle" /\ Published(r) /\ r \in Repos =>
            shard'[worker'[w].repo] # NoSHA
    BY <1>2, <1>3 DEF Published
  <2>2. /\ run[w].stage # "none" => worker[w].pc = "index"
        /\ run[w].stage = "resolved" => run[w].sha # NoSHA
        /\ run[w].stage = "published" => Published(r)
        /\ worker[w].pc \in {"head", "record", "settle"} => Published(r)
    BY DEF RunsPublish, At
  <2>3. CASE /\ run'[w] = run[w] /\ shard' = shard
             /\ worker'[w].pc = worker[w].pc \/ run[w].stage = "none"
             /\ worker'[w].pc \in {"head", "record", "settle"} =>
                   worker[w].pc \in {"head", "record", "settle"}
    BY <1>4, <2>1, <2>2, <2>3
  <2>4. CASE /\ worker'[w].pc = "index" /\ shard' = shard
             /\ run'[w].stage = "resolved" /\ run'[w].sha # NoSHA
    BY <2>4
  <2>5. CASE /\ worker[w].pc = "index" /\ worker' = worker
             /\ run[w].stage = "resolved"
             /\ shard' = [shard EXCEPT ![r] = run[w].sha]
             /\ run'[w].stage = "published"
    <3>1. r \in Repos /\ shard'[r] = run[w].sha
      BY <1>4, <2>5, PublishedStays
    <3>2. QED
      BY <2>2, <2>5, <3>1
  <2>6. CASE /\ run'[w] = NoRun /\ shard' = shard
             /\ worker'[w].pc = "fail" \/ run[w].stage = "published"
    BY <1>4, <2>1, <2>2, <2>6 DEF NoRun
  <2>7. QED
    BY <1>1, <2>3, <2>4, <2>5, <2>6, JobRun
<1>8. QED
  BY <1>6, <1>7 DEF RunsPublish, Published, At

\* A goroutine that is started has no run.
LEMMA SpawnRunsPublish ==
    ASSUME TypeOK, RunsPublish, NEW c \in Callers, Spawn(c), run' = run, shard' = shard
    PROVE  RunsPublish'
<1>1. PICK w \in Workers : /\ At(w, "idle") /\ OnlyMoves(w)
                           /\ worker'[w].pc = "acquire"
  BY SpawnStep
<1>2. run[w].stage = "none"
  BY <1>1 DEF RunsPublish, At
<1>3. \A v \in Workers : v = w \/ worker'[v] = worker[v]
  BY <1>1 DEF OnlyMoves
<1>4. QED
  BY <1>1, <1>2, <1>3 DEF RunsPublish, Published, At

\* Who else than a job touches a worker.
LEMMA WorkersElsewhere ==
    ASSUME SystemSound,
           \/ UserActs \/ FileEvent
           \/ \E p \in Pollers :
                  PollerMakes(p) \/ SyncWatches(p) \/ FlushReady(p)
           \/ \E g \in Refreshers : RefreshTick(g)
           \/ \E c \in Schedulers \union Handlers : CallerMakes(c)
           \/ UNCHANGED allVars
    PROVE  worker' = worker \/ \E c \in Callers : Spawn(c)
<1>1. ASSUME NEW p \in Pollers, PollerMakes(p)
      PROVE  worker' = worker \/ \E c \in Callers : Spawn(c)
  <2>1. /\ UNCHANGED <<sweep, main>> /\ PollerActs(p) /\ sweep[p] = {}
        /\ p \in Callers /\ PollersSound
    BY <1>1, PollerAssumption DEF PollerMakes, PollFrame, SystemSound, Serving
  <2>2. PollerWrites \/ CallerStep(p) \/ UNCHANGED vars
    BY <2>1, ActsAreManagers
  <2>3. QED
    BY <2>1, <2>2 DEF PollerWrites, CallerStep, PollerTriggers, Trigger, StartAll,
       StartOne, SweepStep, vars, jobVars
<1>2. ASSUME NEW c \in Schedulers \union Handlers, CallerMakes(c)
      PROVE  worker' = worker \/ \E d \in Callers : Spawn(d)
  BY <1>2, VanzelfAssumption DEF CallerMakes, StartAll, StartOne, SweepStep,
     Trigger, jobVars
<1>3. ASSUME \/ UserActs \/ FileEvent
             \/ \E p \in Pollers : SyncWatches(p) \/ FlushReady(p)
             \/ \E g \in Refreshers : RefreshTick(g)
             \/ UNCHANGED allVars
      PROVE  worker' = worker
  BY <1>3 DEF UserActs, FileEvent, Event, SyncWatches, Sync, FlushReady, Flush,
              RefreshTick, allVars, vars, jobVars
<1>4. QED
  BY <1>1, <1>2, <1>3

LEMMA StepRunsPublish ==
    ASSUME SystemSound, RunsPublish, [SystemNext]_allVars
    PROVE  RunsPublish'
<1>1. WorldShape /\ TypeOK
  BY DEF SystemSound, Shape
<1>2. CASE \E w \in Workers : JobMakes(w)
  BY <1>2, JobRunsPublish
<1>3. ASSUME \/ UserActs \/ FileEvent
             \/ \E p \in Pollers :
                    PollerMakes(p) \/ SyncWatches(p) \/ FlushReady(p)
             \/ \E g \in Refreshers : RefreshTick(g)
             \/ \E c \in Schedulers \union Handlers : CallerMakes(c)
             \/ UNCHANGED allVars
      PROVE  RunsPublish'
  <2>1. run' = run /\ shard' = shard
    BY <1>3, QuietShards DEF ShardFrame, RefreshTick, external
  <2>2. CASE worker' = worker
    BY <2>1, <2>2 DEF RunsPublish, Published, At
  <2>3. QED
    BY <1>1, <1>3, <2>1, <2>2, WorkersElsewhere, SpawnRunsPublish
<1>4. QED
  BY <1>1, <1>2, <1>3, SystemSteps

\* proxy.go:78: an answer of zoekt names the shards there were when it was made.
LEMMA StepKnown ==
    ASSUME SystemSound, RunsPublish, KnownIsPublished, [SystemNext]_allVars
    PROVE  KnownIsPublished'
<1>1. WorldShape /\ ShardsSound
  BY DEF SystemSound
<1>2. \A r \in Repos : Published(r) => Published(r)'
  BY PublishedStays
<1>3. CASE UNCHANGED <<pathToSHA, listing>>
  BY <1>2, <1>3 DEF KnownIsPublished
<1>4. ASSUME NEW g \in Workers \union Refreshers, Fetch(g) \/ Swap(g)
      PROVE  KnownIsPublished'
  <2>1. CASE Fetch(g)
    <3>1. /\ listing' = [listing EXCEPT ![g] = shard] /\ pathToSHA' = pathToSHA
          /\ listing \in [Workers \union Refreshers ->
                             [Repos -> Heads] \union {NoListing}]
      BY <1>1, <2>1 DEF Fetch, ShardsSound
    <3>2. \A h \in Workers \union Refreshers :
             listing'[h] = IF h = g THEN shard ELSE listing[h]
      BY <3>1
    <3>3. QED
      BY <1>2, <3>1, <3>2 DEF KnownIsPublished, Published
  <2>2. CASE Swap(g)
    <3>1. /\ listing[g] # NoListing /\ pathToSHA' = listing[g]
          /\ listing' = [listing EXCEPT ![g] = NoListing]
          /\ listing \in [Workers \union Refreshers ->
                             [Repos -> Heads] \union {NoListing}]
      BY <1>1, <2>2 DEF Swap, ShardsSound
    <3>2. \A h \in Workers \union Refreshers :
             listing'[h] = IF h = g THEN NoListing ELSE listing[h]
      BY <3>1
    <3>3. QED
      BY <1>2, <3>1, <3>2 DEF KnownIsPublished
  <2>3. QED
    BY <1>4, <2>1, <2>2
<1>5. ASSUME NEW w \in Workers, JobMakes(w)
      PROVE  UNCHANGED <<pathToSHA, listing>> \/ Fetch(w) \/ Swap(w)
  BY <1>5 DEF JobMakes, TakesSlot, Runs, ResolveHead, RunFails, Publishes,
     PublishShard, Indexed, RunEnds, JobRefreshes
<1>6. ASSUME ShardFrame
      PROVE  UNCHANGED <<pathToSHA, listing>>
  BY <1>6 DEF ShardFrame
<1>7. ASSUME NEW g \in Refreshers, RefreshTick(g)
      PROVE  Fetch(g) \/ Swap(g)
  BY <1>7 DEF RefreshTick
<1>8. QED
  BY <1>1, <1>3, <1>4, <1>5, <1>6, <1>7, QuietShards, SystemSteps

\* Only Update moves the HEAD of an entry, or makes one.
HeadsKept ==
    \A q \in Repos :
        Tracked(repos', q) => Tracked(repos, q) /\ repos'[q].head = repos[q].head

LEMMA PollHeadsKept ==
    ASSUME repos \in Table, NEW p \in Pollers, PollerActs(p)
    PROVE  HeadsKept \/ \E r \in Repos : UpdateTable(p, r)
<1>1. ASSUME NEW r \in Repos, SettleNew(p, r)
      PROVE  HeadsKept
  BY <1>1, SetStatusFields DEF SettleNew, HeadsKept
<1>2. QED
  BY <1>1, PollKeeps DEF Kept, HeadsKept

LEMMA ElsewhereHeadsKept ==
    ASSUME SystemSound,
           \/ UserActs \/ FileEvent
           \/ \E p \in Pollers : SyncWatches(p) \/ FlushReady(p)
           \/ \E w \in Workers : JobMakes(w)
           \/ \E g \in Refreshers : RefreshTick(g)
           \/ \E c \in Schedulers \union Handlers : CallerMakes(c)
           \/ UNCHANGED allVars
    PROVE  HeadsKept /\ (repos' = repos \/ \E w \in Workers : JobMakes(w))
<1>1. Shape /\ repos \in Table /\ JobsHaveRepo
  BY DEF SystemSound, Shape, TypeOK
<1>2. ASSUME NEW w \in Workers, JobMakes(w)
      PROVE  HeadsKept
  <2>1. ASSUME MarkIdle(w)
        PROVE  HeadsKept
    <3>1. worker[w].repo \in Repos
      BY <1>1, <2>1 DEF MarkIdle, Goto, At, JobsHaveRepo, Live
    <3>2. QED
      BY <1>1, <2>1, <3>1, SetStatusFields DEF MarkIdle, HeadsKept
  <2>2. QED
    BY <1>1, <1>2, <2>1, JobKeeps DEF Kept, HeadsKept
<1>3. CASE repos' = repos
  BY <1>3 DEF HeadsKept
<1>4. ASSUME \/ UserActs \/ FileEvent
             \/ \E p \in Pollers : SyncWatches(p) \/ FlushReady(p)
             \/ \E g \in Refreshers : RefreshTick(g)
             \/ \E c \in Schedulers \union Handlers : CallerMakes(c)
             \/ UNCHANGED allVars
      PROVE  repos' = repos
  BY <1>4 DEF UserActs, FileEvent, Event, SyncWatches, Sync, FlushReady, Flush,
     RefreshTick, CallerMakes, StartAll, StartOne, SweepStep, Spawn, allVars, vars
<1>5. QED
  BY <1>2, <1>3, <1>4

\* The polls of the other goroutines are of other repos.
LEMMA OtherPolls ==
    ASSUME PollersSound, NEW p \in Pollers, poll[p].pc \in InPoll,
           NEW q \in Pollers \ {p}, poll[q].pc \in InPoll
    PROVE  poll[q].repo # poll[p].repo
BY DEF PollersSound, Exclusive

\* poller.go:119: what the map said still holds of the table's HEAD when the
\* repo is set to idle.
LEMMA PollStepTrust ==
    ASSUME SystemSound, KnownIsPublished, PollsTrust,
           NEW p \in Pollers, PollerMakes(p)
    PROVE  \A q \in Pollers : poll'[q].pc \in ForNew =>
               /\ Tracked(repos', poll'[q].repo) =>
                      repos'[poll'[q].repo].head = poll'[q].bh.sha
               /\ poll'[q].pc \in {"current", "settle"} =>
                      poll'[q].bh.sha = NoSHA \/ shard[poll'[q].repo] # NoSHA
<1>1. PollersSound /\ repos \in Table /\ PollerActs(p)
  BY DEF SystemSound, Shape, TypeOK, PollerMakes
<1>2. pathToSHA \in [Repos -> Heads]
  BY DEF SystemSound, ShardsSound
<1>3. ForNew \subseteq InPoll
  BY DEF ForNew, InPoll
<1>4. \A q \in Pollers : poll[q].pc \in InPoll => poll[q].repo \in Repos
  BY <1>1 DEF PollersSound, SoundPoll
<1>5. poll' = [poll EXCEPT ![p] = poll'[p]] /\ poll \in [Pollers -> PollState]
  BY <1>1, <1>2, ActsMove DEF PollMoves, PollersSound
<1>6. ASSUME NEW q \in Pollers \ {p}, poll'[q].pc \in ForNew
      PROVE  /\ Tracked(repos', poll'[q].repo) =>
                    repos'[poll'[q].repo].head = poll'[q].bh.sha
             /\ poll'[q].pc \in {"current", "settle"} =>
                    poll'[q].bh.sha = NoSHA \/ shard[poll'[q].repo] # NoSHA
  <2> DEFINE r == poll[q].repo
  <2>1. poll'[q] = poll[q] /\ r \in Repos
    BY <1>3, <1>4, <1>5, <1>6
  <2>2. /\ Tracked(repos, r) => repos[r].head = poll[q].bh.sha
        /\ poll[q].pc \in {"current", "settle"} =>
              poll[q].bh.sha = NoSHA \/ shard[r] # NoSHA
    BY <1>6, <2>1 DEF PollsTrust, Published
  <2>3. CASE HeadsKept
    BY <2>1, <2>2, <2>3 DEF HeadsKept
  <2>4. ASSUME NEW t \in Repos, UpdateTable(p, t)
        PROVE  repos'[r] = repos[r]
    <3>1. poll[p].pc \in InPoll /\ poll[p].repo = t
          /\ repos' = Update(repos, t, poll[p].bh, poll[p].dirty)
      BY <2>4 DEF UpdateTable, Polls, InPoll
    <3>2. r # t
      BY <1>1, <1>3, <1>6, <2>1, <3>1, OtherPolls
    <3>3. QED
      BY <1>1, <2>1, <3>1, <3>2, UpdateOthers
  <2>5. QED
    BY <1>1, <2>1, <2>2, <2>3, <2>4, PollHeadsKept DEF Tracked
<1>7. ASSUME poll'[p].pc \in ForNew
      PROVE  /\ Tracked(repos', poll'[p].repo) =>
                    repos'[poll'[p].repo].head = poll'[p].bh.sha
             /\ poll'[p].pc \in {"current", "settle"} =>
                    poll'[p].bh.sha = NoSHA \/ shard[poll'[p].repo] # NoSHA
  <2>1. ASSUME NEW r \in Repos, LookUpShard(p, r)
        PROVE  /\ Tracked(repos', poll'[p].repo) =>
                      repos'[poll'[p].repo].head = poll'[p].bh.sha
               /\ poll'[p].pc \in {"current", "settle"} =>
                      poll'[p].bh.sha = NoSHA \/ shard[poll'[p].repo] # NoSHA
    <3>1. /\ poll[p].pc = "shard" /\ poll[p].repo = r /\ poll'[p].repo = r
          /\ poll'[p].bh = poll[p].bh
          /\ poll'[p].pc \in {"current", "outdated", "stale"}
          /\ poll'[p].pc = "current" => pathToSHA[r] = poll[p].bh.sha
      BY <1>1, <2>1, LookUpGoes
    <3>2. Tracked(repos, r) => repos[r].head = poll[p].bh.sha
      BY <3>1 DEF PollsTrust, ForNew
    <3>3. repos' = repos
      BY <2>1 DEF LookUpShard
    <3>4. QED
      BY <3>1, <3>2, <3>3 DEF KnownIsPublished, Published
  <2>2. ASSUME NEW r \in Repos, UpdateTable(p, r)
        PROVE  /\ Tracked(repos', poll'[p].repo) =>
                      repos'[poll'[p].repo].head = poll'[p].bh.sha
               /\ poll'[p].pc = "shard"
    <3>1. /\ poll[p].pc = "update" /\ poll[p].repo = r
          /\ repos' = Update(repos, r, poll[p].bh, poll[p].dirty)
          /\ poll'[p].pc = "shard" /\ poll'[p].repo = r /\ poll'[p].bh = poll[p].bh
      BY <1>1, <1>7, <2>2, UpdateGoes DEF ForNew
    <3>2. repos'[r].head = poll[p].bh.sha
      BY <1>1, <3>1, UpdateNewEntry, UpdateOldEntry
    <3>3. QED
      BY <3>1, <3>2
  <2>3. ASSUME NEW r \in Repos, WriteActs(p, r) \/ TriggerActs(p, r), ~UpdateTable(p, r)
        PROVE  /\ Tracked(repos', poll'[p].repo) =>
                      repos'[poll'[p].repo].head = poll'[p].bh.sha
               /\ poll'[p].bh.sha = NoSHA \/ shard[poll'[p].repo] # NoSHA
    <3>1. /\ poll[p].repo = r /\ poll[p].pc = "current"
          /\ poll'[p].repo = r /\ poll'[p].bh = poll[p].bh
      BY <1>1, <1>7, <2>3, WriteGoes
    <3>2. /\ Tracked(repos, r) => repos[r].head = poll[p].bh.sha
          /\ poll[p].bh.sha = NoSHA \/ shard[r] # NoSHA
      BY <3>1 DEF PollsTrust, ForNew, Published
    <3>3. \A t \in Repos : ~UpdateTable(p, t)
      BY <3>1 DEF UpdateTable, Polls
    <3>4. HeadsKept
      BY <1>1, <3>3, PollHeadsKept
    <3>5. QED
      BY <3>1, <3>2, <3>4 DEF HeadsKept
  <2>4. QED
    BY <1>1, <1>3, <1>7, <2>1, <2>2, <2>3, LoopGoes, ReadGoes DEF PollerActs
<1>8. QED
  BY <1>6, <1>7

\* The watcher starts a list of polls, and no poll.
LEMMA WatcherGoes ==
    ASSUME PollersSound, NEW p \in Pollers, SyncWatches(p) \/ FlushReady(p)
    PROVE  /\ poll[p].pc \in {"sync", "idle"} /\ poll'[p].pc \in {"idle", "next"}
           /\ \A q \in Pollers \ {p} : poll'[q] = poll[q]
<1>1. poll \in [Pollers -> PollState]
  BY DEF PollersSound
<1>2. CASE SyncWatches(p)
  BY <1>1, <1>2 DEF SyncWatches, Sync, Step, IdlePoller
<1>3. ASSUME NEW ready, Flush(p, ready)
      PROVE  /\ poll[p].pc = "idle" /\ poll'[p].pc = "next"
             /\ \A q \in Pollers \ {p} : poll'[q] = poll[q]
  BY <1>1, <1>3 DEF Flush, Step, IdlePoller
<1>4. QED
  BY <1>2, <1>3 DEF FlushReady

\* Nor does anyone but the pollers start one.
LEMMA PollsElsewhere ==
    ASSUME PollersSound,
           \/ UserActs \/ FileEvent
           \/ \E p \in Pollers : SyncWatches(p) \/ FlushReady(p)
           \/ \E w \in Workers : JobMakes(w)
           \/ \E g \in Refreshers : RefreshTick(g)
           \/ \E c \in Schedulers \union Handlers : CallerMakes(c)
           \/ UNCHANGED allVars
    PROVE  \A q \in Pollers :
               \/ poll'[q] = poll[q]
               \/ poll[q].pc \notin InPoll /\ poll'[q].pc \notin InPoll
<1>1. ASSUME NEW p \in Pollers, SyncWatches(p) \/ FlushReady(p)
      PROVE  \A q \in Pollers :
                 \/ poll'[q] = poll[q]
                 \/ poll[q].pc \notin InPoll /\ poll'[q].pc \notin InPoll
  BY <1>1, WatcherGoes DEF InPoll
<1>2. ASSUME \/ UserActs \/ FileEvent
             \/ \E w \in Workers : JobMakes(w)
             \/ \E g \in Refreshers : RefreshTick(g)
             \/ \E c \in Schedulers \union Handlers : CallerMakes(c)
             \/ UNCHANGED allVars
      PROVE  poll' = poll
  BY <1>2 DEF UserActs, FileEvent, Event, JobMakes, TakesSlot, Runs, Publishes,
              Indexed, JobRefreshes, RefreshTick, CallerMakes, CallerFrame,
              JobFrame, allVars, pollVars
<1>3. QED
  BY <1>1, <1>2

LEMMA StepTrust ==
    ASSUME SystemSound, RunsPublish, KnownIsPublished, PollsTrust,
           [SystemNext]_allVars
    PROVE  PollsTrust'
<1>1. PollersSound /\ WorldShape /\ \A r \in Repos : Published(r) => Published(r)'
  BY PublishedStays DEF SystemSound
<1>2. ForNew \subseteq InPoll /\ {"current", "settle"} \subseteq ForNew
  BY DEF ForNew, InPoll
<1>3. ASSUME NEW p \in Pollers, PollerMakes(p)
      PROVE  PollsTrust'
  <2>1. shard' = shard
    BY <1>3 DEF PollerMakes, PollFrame, external
  <2>2. \A q \in Pollers : poll'[q].pc \in ForNew =>
            /\ Tracked(repos', poll'[q].repo) =>
                   repos'[poll'[q].repo].head = poll'[q].bh.sha
            /\ poll'[q].pc \in {"current", "settle"} =>
                   poll'[q].bh.sha = NoSHA \/ shard[poll'[q].repo] # NoSHA
    BY <1>3, PollStepTrust
  <2>3. QED
    BY <1>2, <2>1, <2>2 DEF PollsTrust, Published
<1>4. ASSUME \/ UserActs \/ FileEvent
             \/ \E p \in Pollers : SyncWatches(p) \/ FlushReady(p)
             \/ \E w \in Workers : JobMakes(w)
             \/ \E g \in Refreshers : RefreshTick(g)
             \/ \E c \in Schedulers \union Handlers : CallerMakes(c)
             \/ UNCHANGED allVars
      PROVE  PollsTrust'
  <2>1. HeadsKept
    BY <1>4, ElsewhereHeadsKept
  <2>2. SUFFICES ASSUME NEW q \in Pollers, poll'[q].pc \in ForNew
                 PROVE  /\ Tracked(repos', poll'[q].repo) =>
                               repos'[poll'[q].repo].head = poll'[q].bh.sha
                        /\ poll'[q].pc \in {"current", "settle"} =>
                               \/ poll'[q].bh.sha = NoSHA
                               \/ shard'[poll'[q].repo] # NoSHA
    BY <1>2 DEF PollsTrust, Published
  <2>3. poll'[q] = poll[q]
    BY <1>1, <1>2, <1>4, <2>2, PollsElsewhere
  <2>4. poll[q].repo \in Repos
    BY <1>1, <1>2, <2>2, <2>3 DEF PollersSound, SoundPoll
  <2>5. /\ Tracked(repos, poll[q].repo) => repos[poll[q].repo].head = poll[q].bh.sha
        /\ poll[q].pc \in {"current", "settle"} =>
               poll[q].bh.sha = NoSHA \/ Published(poll[q].repo)
    BY <2>2, <2>3 DEF PollsTrust
  <2>6. QED
    BY <1>1, <2>1, <2>3, <2>4, <2>5 DEF HeadsKept, Published
<1>5. QED
  BY <1>1, <1>3, <1>4, SystemSteps

\* A poll that is about to mark its repo stale does so before anything else.
LEMMA StaleStays ==
    ASSUME SystemSound, NEW p \in Pollers, PollerMakes(p),
           NEW r \in Repos, NEW q \in Pollers, Polls(q, "stale", r)
    PROVE  MarkStale(p, r) \/ (poll'[q].pc = "stale" /\ poll'[q].repo = r)
<1>1. PollersSound /\ repos \in Table /\ PollerActs(p)
  BY DEF SystemSound, Shape, TypeOK, PollerMakes
<1>2. poll' = [poll EXCEPT ![p] = poll'[p]] /\ poll \in [Pollers -> PollState]
  BY <1>1, ActsMove DEF PollMoves, PollersSound, SystemSound, ShardsSound
<1>3. CASE q # p
  BY <1>2, <1>3 DEF Polls
<1>4. CASE q = p
  <2>1. poll[p].pc = "stale" /\ poll[p].repo = r
    BY <1>4 DEF Polls
  <2>2. PICK t \in Repos : WriteActs(p, t) \/ TriggerActs(p, t)
    BY <1>1, <2>1, LoopGoes, ReadGoes, LookUpGoes DEF PollerActs
  <2>3. ~UpdateTable(p, t)
    BY <2>1 DEF UpdateTable, Polls
  <2>4. QED
    BY <1>1, <2>1, <2>2, <2>3, WriteGoes
<1>5. QED
  BY <1>3, <1>4

LEMMA PollStepIdle ==
    ASSUME SystemSound, PollsTrust, IdleNeedsShard,
           NEW p \in Pollers, PollerMakes(p)
    PROVE  IdleNeedsShard'
<1>1. PollersSound /\ repos \in Table /\ PollerActs(p) /\ shard' = shard
  BY DEF SystemSound, Shape, TypeOK, PollerMakes, PollFrame, external
<1>2. SUFFICES ASSUME NEW r \in Repos, Tracked(repos', r), repos'[r].status = "idle"
               PROVE  \/ Published(r)
                      \/ repos'[r].head = NoSHA
                      \/ \E q \in Pollers : poll'[q].pc = "stale" /\ poll'[q].repo = r
  BY <1>1 DEF IdleNeedsShard, Published, Polls
<1>3. ASSUME Tracked(repos, r), repos[r].status = "idle",
             repos'[r].head = repos[r].head, ~MarkStale(p, r)
      PROVE  \/ Published(r)
             \/ repos'[r].head = NoSHA
             \/ \E q \in Pollers : poll'[q].pc = "stale" /\ poll'[q].repo = r
  BY <1>3, StaleStays DEF IdleNeedsShard
<1>4. CASE Kept /\ ~MarkStale(p, r)
  BY <1>2, <1>3, <1>4 DEF Kept
<1>5. ~MarkStale(p, r)
  BY <1>1, <1>2, SetStatusFields DEF MarkStale
<1>6. ASSUME NEW t \in Repos, UpdateTable(p, t)
      PROVE  \/ Published(r)
             \/ repos'[r].head = NoSHA
             \/ \E q \in Pollers : poll'[q].pc = "stale" /\ poll'[q].repo = r
  <2>1. repos' = Update(repos, t, poll[p].bh, poll[p].dirty)
    BY <1>6 DEF UpdateTable
  <2>2. CASE r # t
    <3>1. repos'[r] = repos[r]
      BY <1>1, <2>1, <2>2, UpdateOthers
    <3>2. QED
      BY <1>2, <1>3, <1>5, <3>1 DEF Tracked
  <2>3. CASE r = t
    <3>1. Tracked(repos, r)
      BY <1>1, <1>2, <2>1, <2>3, UpdateNewEntry
    <3>2. /\ repos'[r].head = poll[p].bh.sha
          /\ repos[r].status = "idle"
      BY <1>1, <1>2, <2>1, <2>3, <3>1, UpdateOldEntry
    <3>3. CASE repos[r].head # poll[p].bh.sha
      BY <1>1, <1>6, <2>3, <3>1, <3>3, UpdateGoes
    <3>4. CASE repos[r].head = poll[p].bh.sha
      BY <1>3, <1>5, <3>1, <3>2, <3>4
    <3>5. QED
      BY <3>3, <3>4
  <2>4. QED
    BY <2>2, <2>3
<1>7. ASSUME NEW t \in Repos, SettleNew(p, t)
      PROVE  \/ Published(r)
             \/ repos'[r].head = NoSHA
             \/ \E q \in Pollers : poll'[q].pc = "stale" /\ poll'[q].repo = r
  <2>1. /\ repos' = SetStatus(repos, t, "idle")
        /\ poll[p].pc = "settle" /\ poll[p].repo = t
    BY <1>7 DEF SettleNew, Polls
  <2>2. /\ Tracked(repos, r) /\ repos'[r].head = repos[r].head
        /\ r # t => repos[r].status = "idle"
    BY <1>1, <1>2, <2>1, SetStatusFields
  <2>3. CASE r # t
    BY <1>3, <1>5, <2>2, <2>3
  <2>4. CASE r = t
    BY <2>1, <2>2, <2>4 DEF PollsTrust, ForNew
  <2>5. QED
    BY <2>3, <2>4
<1>8. QED
  BY <1>1, <1>4, <1>5, <1>6, <1>7, PollKeeps

LEMMA StepIdle ==
    ASSUME SystemSound, RunsPublish, PollsTrust, IdleNeedsShard,
           [SystemNext]_allVars
    PROVE  IdleNeedsShard'
<1>1. /\ PollersSound /\ WorldShape /\ Shape /\ repos \in Table /\ JobsHaveRepo
      /\ \A r \in Repos : Published(r) => Published(r)'
  BY PublishedStays DEF SystemSound, Shape, TypeOK
<1>2. ASSUME \/ UserActs \/ FileEvent
             \/ \E p \in Pollers : SyncWatches(p) \/ FlushReady(p)
             \/ \E w \in Workers : JobMakes(w)
             \/ \E g \in Refreshers : RefreshTick(g)
             \/ \E c \in Schedulers \union Handlers : CallerMakes(c)
             \/ UNCHANGED allVars
      PROVE  IdleNeedsShard'
  <2>1. HeadsKept /\ (repos' = repos \/ \E w \in Workers : JobMakes(w))
    BY <1>2, ElsewhereHeadsKept
  <2>2. \A r \in Repos, q \in Pollers :
           Polls(q, "stale", r) => poll'[q].pc = "stale" /\ poll'[q].repo = r
    BY <1>1, <1>2, PollsElsewhere DEF Polls, InPoll
  <2>3. SUFFICES ASSUME NEW r \in Repos, Tracked(repos', r),
                        repos'[r].status = "idle"
                 PROVE  \/ shard'[r] # NoSHA
                        \/ repos'[r].head = NoSHA
                        \/ \E q \in Pollers :
                              poll'[q].pc = "stale" /\ poll'[q].repo = r
    BY DEF IdleNeedsShard, Published, Polls
  <2>4. Tracked(repos, r) /\ repos'[r].head = repos[r].head
    BY <2>1, <2>3 DEF HeadsKept
  <2>5. CASE repos[r].status = "idle"
    BY <1>1, <2>2, <2>4, <2>5 DEF IdleNeedsShard, Published
  <2>6. ASSUME NEW w \in Workers, MarkIdle(w), repos[r].status # "idle"
        PROVE  shard'[r] # NoSHA
    <3>1. /\ worker[w].pc = "settle"
          /\ repos' = SetStatus(repos, worker[w].repo, "idle")
      BY <2>6 DEF MarkIdle, Goto, At
    <3>2. worker[w].repo \in Repos
      BY <1>1, <3>1 DEF JobsHaveRepo, Live
    <3>3. r = worker[w].repo
      BY <1>1, <2>3, <2>6, <3>1, <3>2, SetStatusFields
    <3>4. Published(r)
      BY <3>1, <3>3 DEF RunsPublish
    <3>5. QED
      BY <1>1, <3>4 DEF Published
  <2>7. QED
    BY <1>1, <2>1, <2>3, <2>5, <2>6, JobKeeps DEF Kept
<1>3. QED
  BY <1>1, <1>2, PollStepIdle, SystemSteps

LEMMA StartedIdle == Started => IdleSound
<1> SUFFICES ASSUME Started PROVE IdleSound
  OBVIOUS
<1>1. /\ worker = [w \in Workers |-> IdleWorker] /\ repos = EmptyTable
      /\ run = NoRuns /\ listing = NoListings /\ poll = FreshPollers
      /\ pathToSHA \in {shard, EmptyMap}
  BY DEF Started, Init, JobsInit, PollerInit
<1>2. RunsPublish
  BY <1>1 DEF RunsPublish, At, NoRuns, NoRun, IdleWorker
<1>3. KnownIsPublished
  BY <1>1 DEF KnownIsPublished, Published, NoListings, EmptyMap
<1>4. \A p \in Pollers : poll[p].pc \notin InPoll
  BY FreshPollersSound DEF Started
<1>5. PollsTrust
  BY <1>4 DEF PollsTrust, ForNew, InPoll
<1>6. IdleNeedsShard
  BY <1>1 DEF IdleNeedsShard, EmptyTable, Tracked
<1>7. QED
  BY <1>2, <1>3, <1>5, <1>6 DEF IdleSound

LEMMA StepIdleSound ==
    ASSUME SystemSound, IdleSound, [SystemNext]_allVars
    PROVE  IdleSound'
BY StepRunsPublish, StepKnown, StepTrust, StepIdle DEF IdleSound

LEMMA SoundHasShard ==
    ASSUME SystemSound, IdleSound
    PROVE  IdleHasShard
<1> SUFFICES ASSUME NEW r \in Repos, Tracked(repos, r),
                    repos[r].status = "idle", lock[r] = NoPoller
             PROVE  shard[r] # NoSHA \/ repos[r].head = NoSHA
  BY DEF IdleHasShard, Paths
<1>1. ASSUME NEW p \in Pollers, Polls(p, "stale", r)
      PROVE  FALSE
  <2>1. lock[r] = p
    BY <1>1 DEF Polls, InPoll, SystemSound, PollersSound, Exclusive
  <2>2. QED
    BY <2>1, PollerAssumption
<1>2. QED
  BY <1>1 DEF IdleSound, IdleNeedsShard, Published

LEMMA SystemIdleInvariance == SystemSpec => [](SystemSound /\ IdleSound)
<1>1. SystemInit => Started
  BY DEF SystemInit, Started
<1>2. SystemSound /\ IdleSound /\ [SystemNext]_allVars => IdleSound'
  BY StepIdleSound
<1>3. SystemSound /\ [SystemNext]_allVars => SystemSound'
  BY SystemStepSound
<1>4. QED
  BY SystemInitSound, StartedIdle, <1>1, <1>2, <1>3, PTL DEF SystemSpec

OnePollPerRepo ==
    \A p, q \in Pollers :
        poll[p].pc \in InPoll /\ poll[q].pc \in InPoll /\ poll[p].repo = poll[q].repo
            => p = q

\* Two goroutines never poll a repo at one time, the ticker's poll, a rescan's
\* and an event's alike: what one reads of git and of the table is not stale
\* when it writes the table.
THEOREM PollsExclude == SystemSpec => []OnePollPerRepo
<1>1. ASSUME Exclusive
      PROVE  OnePollPerRepo
  <2> SUFFICES ASSUME NEW p \in Pollers, NEW q \in Pollers,
                      poll[p].pc \in InPoll, poll[q].pc \in InPoll,
                      poll[p].repo = poll[q].repo
               PROVE  p = q
    BY DEF OnePollPerRepo
  <2>1. lock[poll[p].repo] = p /\ lock[poll[q].repo] = q
    BY <1>1 DEF Exclusive
  <2>2. QED
    BY <2>1
<1>2. SystemSound => Exclusive
  BY DEF SystemSound, PollersSound
<1>3. QED
  BY SystemInvariance, <1>1, <1>2, PTL

\* Outside of a poll a repo that the table calls idle has a shard, or had no
\* commit when it was polled last: for any number of repos and goroutines, and
\* however polls, jobs, refreshes of the map and failures interleave.
THEOREM IdleIsIndexed == SystemSpec => []IdleHasShard
BY SystemIdleInvariance, SoundHasShard, PTL

-----------------------------------------------------------------------------
(***************************************************************************)
(* HeadNeverGoesBack, for repositories of one branch that stay where they  *)
(* are, when git answers.  What a poll has of git is not behind the table, *)
(* and not ahead of the repository: nobody else writes a HEAD while it     *)
(* holds the repo's lock.                                                  *)
(***************************************************************************)
OnlyAdvance == SingleBranch /\ MaxMoves = 0 /\ ~GitMayFail

\* Whatever is polled exists, so that git has an answer.
OnDisk ==
    /\ Paths(repos) \subseteq onDisk
    /\ watched \subseteq onDisk /\ pending \subseteq onDisk
    /\ \A p \in Pollers :
          /\ poll[p].found \subseteq onDisk
          /\ poll[p].pc \in {"lock"} \union InPoll => poll[p].repo \in onDisk

TableBehind ==
    \A r \in Repos : Tracked(repos, r) => repos[r].head <= HeadOf(r)

AnswerBetween ==
    \A p \in Pollers : poll[p].pc \in {"status", "update"} =>
        /\ poll[p].bh.sha <= HeadOf(poll[p].repo)
        /\ Tracked(repos, poll[p].repo) =>
               repos[poll[p].repo].head <= poll[p].bh.sha

HeadSound == HeadIsLast /\ OnDisk /\ TableBehind /\ AnswerBetween

LEMMA HeadStarts ==
    PollerInit /\ WatcherInit /\ repos = EmptyTable /\ HeadIsLast => HeadSound
<1> SUFFICES ASSUME PollerInit, WatcherInit, repos = EmptyTable, HeadIsLast
             PROVE  HeadSound
  OBVIOUS
<1>1. /\ repos = EmptyTable /\ watched = {} /\ pending = {}
      /\ lock = AllFree /\ poll = FreshPollers
  BY DEF WatcherInit, PollerInit
<1>2. Paths(repos) = {}
  BY <1>1 DEF Paths, Tracked, EmptyTable
<1>3. \A p \in Pollers : poll[p].found = {} /\ poll[p].pc \in {"idle", "discover"}
  BY <1>1 DEF FreshPollers, IdlePoller
<1>4. OnDisk
  BY <1>1, <1>2, <1>3 DEF OnDisk, InPoll
<1>5. TableBehind /\ AnswerBetween
  BY <1>2, <1>3 DEF TableBehind, AnswerBetween, Paths
<1>6. QED
  BY <1>4, <1>5 DEF HeadSound

LEMMA SystemHeadStarts == SystemInit => HeadSound
<1>1. SystemInit => HeadIsLast
  BY HeadStartsLast DEF SystemInit
<1>2. QED
  BY <1>1, HeadStarts DEF SystemInit, Init

\* The repositories while the program runs.
LEMMA StepHeads ==
    ASSUME OnlyAdvance, WorldShape, HeadIsLast, [SystemNext]_allVars
    PROVE  /\ HeadIsLast'
           /\ \A r \in Repos : HeadOf(r) \in Nat /\ HeadOf(r)' \in Nat
           /\ \A r \in Repos : HeadOf(r)' >= HeadOf(r)
           /\ onDisk' = onDisk
<1>1. WorldShape' /\ (UserStep \/ UNCHANGED world)
  BY StepWorld
<1>2. \A r \in Repos : HeadOf(r) \in Nat /\ HeadOf(r)' \in Nat
  BY <1>1 DEF WorldShape, WorldType, HeadOf, SHA
<1>3. CASE UserStep
  BY <1>2, <1>3, HeadAdvances DEF OnlyAdvance
<1>4. CASE UNCHANGED world
  BY <1>2, <1>4 DEF world, HeadIsLast, HeadOf
<1>5. QED
  BY <1>1, <1>2, <1>3, <1>4

\* What a goroutine hears from git and the file system.
LEMMA HonestAnswers ==
    ASSUME OnlyAdvance, SystemSound, OnDisk, NEW p \in Pollers,
           PollerMakes(p), Asks(p)
    PROVE  /\ poll[p].pc = "discover" => poll'[p].found \subseteq onDisk
           /\ poll[p].pc = "head" =>
                 /\ poll'[p].pc = "status"
                 /\ poll'[p].repo = poll[p].repo
                 /\ poll'[p].bh.sha = HeadOf(poll[p].repo)
<1>1. poll \in [Pollers -> PollState] /\ poll[p] \in PollState
  BY DEF SystemSound, PollersSound
<1>2. ASSUME poll[p].pc = "discover"
      PROVE  poll'[p].found \subseteq onDisk
  <2>1. Discover(p, onDisk)
    BY <1>2 DEF Asks, OnlyAdvance, PollStep, TrackedPaths, EndOfList, RemoveGone,
       NextRepo, PollBranch, PollHead, PollStatus, PollFails, UpdateTable,
       LookUpShard, RecordShard, SettleNew, PollFile, PublishPolled, ClearDelta,
       MarkStale, DropDelta, PollTriggers, PollSpawns, Polls
  <2>2. QED
    BY <1>1, <2>1 DEF Discover, Step, PollState
<1>3. ASSUME poll[p].pc = "head"
      PROVE  /\ poll'[p].pc = "status"
             /\ poll'[p].repo = poll[p].repo
             /\ poll'[p].bh.sha = HeadOf(poll[p].repo)
  <2>1. poll[p].repo \in onDisk
    BY <1>3 DEF OnDisk, InPoll
  <2>2. PollHead(p, poll[p].repo, HeadOf(poll[p].repo))
    BY <1>3, <2>1 DEF Asks, OnlyAdvance, PollStep, Discover, TrackedPaths,
       EndOfList, RemoveGone,
       NextRepo, PollBranch, PollHead, PollStatus, PollFails, UpdateTable,
       LookUpShard, RecordShard, SettleNew, PollFile, PublishPolled, ClearDelta,
       MarkStale, DropDelta, PollTriggers, PollSpawns, Polls
  <2>3. QED
    BY <1>1, <2>2 DEF PollHead, Step, PollState
<1>4. QED
  BY <1>2, <1>3

\* Where a poll that holds an answer of git got it.
LEMMA AnswerGoes ==
    ASSUME PollersSound, NEW p \in Pollers, PollerActs(p),
           poll'[p].pc \in {"status", "update"}
    PROVE  \/ poll[p].pc = "head"
           \/ /\ poll[p].pc = "status"
              /\ poll'[p].repo = poll[p].repo /\ poll'[p].bh = poll[p].bh
BY LoopMoves, ReadKeeps, WriteKeeps DEF PollerActs, InPoll

LEMMA PollStepOnDisk ==
    ASSUME OnlyAdvance, SystemSound, OnDisk, onDisk' = onDisk,
           NEW p \in Pollers, PollerMakes(p), Asks(p)
    PROVE  OnDisk'
<1>1. /\ PollersSound /\ repos \in Table /\ PollerActs(p)
      /\ UNCHANGED <<watched, pending>>
  BY DEF SystemSound, Shape, TypeOK, PollerMakes, watchVars
<1>2. PollMoves(p) /\ poll \in [Pollers -> PollState]
  BY <1>1, ActsMove DEF PollersSound, SystemSound, ShardsSound
<1>3. Paths(repos') \subseteq onDisk
  <2>1. CASE HeadsKept
    BY <2>1 DEF HeadsKept, Paths, OnDisk
  <2>2. ASSUME NEW t \in Repos, UpdateTable(p, t)
        PROVE  Paths(repos') \subseteq onDisk
    <3>1. t \in onDisk /\ repos' = Update(repos, t, poll[p].bh, poll[p].dirty)
      BY <2>2 DEF UpdateTable, Polls, OnDisk, InPoll
    <3>2. \A r \in Repos \ {t} : repos'[r] = repos[r]
      BY <1>1, <3>1, UpdateOthers
    <3>3. QED
      BY <3>1, <3>2 DEF Paths, Tracked, OnDisk
  <2>3. QED
    BY <1>1, <2>1, <2>2, PollHeadsKept
<1>4. poll'[p].found \subseteq onDisk /\ (poll'[p].pc = "lock" => poll'[p].repo \in onDisk)
  <2>1. poll[p].found \union Paths(repos) \subseteq onDisk
    BY DEF OnDisk
  <2>2. CASE LoopActs(p)
    BY <1>1, <2>1, <2>2, LoopKeeps, HonestAnswers
  <2>3. CASE \E r \in Repos : Lock(p, r) \/ ReadActs(p, r)
    BY <1>1, <2>1, <2>3, ReadKeeps
  <2>4. CASE \E r \in Repos : WriteActs(p, r) \/ TriggerActs(p, r)
    BY <1>1, <2>1, <2>4, WriteKeeps
  <2>5. QED
    BY <1>1, <2>2, <2>3, <2>4 DEF PollerActs
<1>5. poll'[p].pc \in InPoll => poll'[p].repo \in onDisk
  <2>1. CASE Stays(p)
    BY <2>1 DEF Stays, OnDisk
  <2>2. CASE Leaves(p)
    BY <2>2 DEF Leaves
  <2>3. CASE \E r \in Repos : Lock(p, r)
    BY <1>2, <2>3 DEF Lock, Polls, Step, PollState, OnDisk
  <2>4. CASE LoopActs(p)
    BY <1>1, <2>4, LoopMoves
  <2>5. CASE \E r \in Repos : ReadActs(p, r) \/ WriteActs(p, r) \/ TriggerActs(p, r)
    <3>1. ~\E r \in Repos : Takes(p, r)
      BY <1>1, <2>5, OnlyLockTakes
    <3>2. QED
      BY <1>2, <2>1, <2>2, <3>1 DEF PollMoves
  <2>6. QED
    BY <1>1, <2>3, <2>4, <2>5 DEF PollerActs
<1>6. QED
  BY <1>1, <1>2, <1>3, <1>4, <1>5 DEF PollMoves, OnDisk, Paths, Tracked

LEMMA ElsewhereOnDisk ==
    ASSUME SystemSound, OnDisk, onDisk' = onDisk, HeadsKept,
           \/ UserActs \/ FileEvent
           \/ \E p \in Pollers : SyncWatches(p) \/ FlushReady(p)
           \/ \E w \in Workers : JobMakes(w)
           \/ \E g \in Refreshers : RefreshTick(g)
           \/ \E c \in Schedulers \union Handlers : CallerMakes(c)
           \/ UNCHANGED allVars
    PROVE  OnDisk'
<1>1. PollersSound /\ poll \in [Pollers -> PollState]
  BY DEF SystemSound, PollersSound
<1>2. Paths(repos') \subseteq onDisk
  BY DEF HeadsKept, Paths, OnDisk
<1>3. ASSUME NEW p \in Pollers, SyncWatches(p)
      PROVE  OnDisk'
  <2>1. /\ watched' = Paths(repos) /\ pending' = pending
        /\ poll' = [poll EXCEPT ![p] = IdlePoller]
    BY <1>3 DEF SyncWatches, Sync, Step
  <2>2. IdlePoller.found = {} /\ IdlePoller.pc = "idle"
    BY DEF IdlePoller
  <2>3. QED
    BY <1>1, <1>2, <2>1, <2>2 DEF OnDisk, InPoll, Paths, Tracked
<1>4. ASSUME NEW p \in Pollers, NEW ready \in SUBSET pending, Flush(p, ready)
      PROVE  OnDisk'
  <2> DEFINE new == [IdlePoller EXCEPT !.pc = "next", !.found = ready]
  <2>1. /\ watched' = watched /\ pending' \subseteq pending
        /\ poll' = [poll EXCEPT ![p] = new]
    BY <1>4 DEF Flush, Step
  <2>2. new.found = ready /\ new.pc = "next"
    BY DEF IdlePoller
  <2> HIDE DEF new
  <2>3. QED
    BY <1>1, <1>2, <2>1, <2>2 DEF OnDisk, InPoll, Paths, Tracked
<1>5. CASE FileEvent
  <2>1. poll' = poll /\ watched' = watched /\ pending' \subseteq pending \union watched
    BY <1>5 DEF FileEvent, Event
  <2>2. QED
    BY <1>2, <2>1 DEF OnDisk, Paths, Tracked
<1>6. ASSUME \/ UserActs
             \/ \E w \in Workers : JobMakes(w)
             \/ \E g \in Refreshers : RefreshTick(g)
             \/ \E c \in Schedulers \union Handlers : CallerMakes(c)
             \/ UNCHANGED allVars
      PROVE  OnDisk'
  <2>1. UNCHANGED <<poll, watched, pending>>
    BY <1>6 DEF UserActs, JobMakes, TakesSlot, Runs, Publishes, Indexed,
       JobRefreshes, RefreshTick, CallerMakes, CallerFrame, JobFrame, allVars,
       pollVars, watchVars
  <2>2. QED
    BY <1>2, <2>1 DEF OnDisk, Paths, Tracked
<1>7. QED
  BY <1>3, <1>4, <1>5, <1>6 DEF FlushReady

\* HEAD after a step, of a repo that may be named by a primed variable.
NewHead(r) == tips'[r][branch'[r]]

\* The table and the answers in hand, when only the repositories move.
LEMMA HeadsKeptBetween ==
    ASSUME OnlyAdvance, SystemSound, HeadSound, [SystemNext]_allVars, HeadsKept,
           NEW q \in Pollers, poll'[q] = poll[q], poll[q].pc \in {"status", "update"}
    PROVE  /\ poll'[q].bh.sha <= NewHead(poll'[q].repo)
           /\ Tracked(repos', poll'[q].repo) =>
                  repos'[poll'[q].repo].head <= poll'[q].bh.sha
<1> DEFINE r == poll[q].repo
<1>1. r \in Repos /\ poll[q].bh.sha \in Nat
  BY DEF SystemSound, PollersSound, SoundPoll, InPoll, PollState, SHA
<1>2. HeadOf(r)' >= HeadOf(r) /\ HeadOf(r) \in Nat /\ HeadOf(r)' \in Nat
  BY <1>1, StepHeads DEF HeadSound, SystemSound
<1>3. /\ poll[q].bh.sha <= HeadOf(r)
      /\ Tracked(repos, r) => repos[r].head <= poll[q].bh.sha
  BY DEF HeadSound, AnswerBetween
<1>4. Tracked(repos', r) => repos'[r].head <= poll[q].bh.sha
  BY <1>1, <1>3 DEF HeadsKept
<1>5. poll[q].bh.sha <= HeadOf(r)'
  BY <1>1, <1>2, <1>3
<1>6. QED
  BY <1>4, <1>5 DEF HeadOf, NewHead

LEMMA HeadsKeptBehind ==
    ASSUME OnlyAdvance, SystemSound, HeadSound, [SystemNext]_allVars, HeadsKept
    PROVE  /\ TableBehind'
           /\ \A r \in Paths(repos) :
                 Tracked(repos', r) => repos'[r].head >= repos[r].head
<1>1. \A r \in Repos : Tracked(repos, r) => repos[r].head \in Nat
  BY TrackedRepo DEF SystemSound, Shape, TypeOK, RepoState, SHA
<1>2. TableBehind'
  <2> SUFFICES ASSUME NEW r \in Repos, Tracked(repos', r)
               PROVE  repos'[r].head <= HeadOf(r)'
    BY DEF TableBehind
  <2>1. HeadOf(r)' >= HeadOf(r) /\ HeadOf(r) \in Nat /\ HeadOf(r)' \in Nat
    BY StepHeads DEF HeadSound, SystemSound
  <2>2. repos'[r].head = repos[r].head /\ repos[r].head <= HeadOf(r)
    BY DEF HeadsKept, HeadSound, TableBehind
  <2>3. repos[r].head \in Nat
    BY <1>1 DEF HeadsKept
  <2>4. QED
    BY <2>1, <2>2, <2>3
<1>3. QED
  BY <1>1, <1>2 DEF HeadsKept, Paths

\* poller.go:92: what the table holds is what this goroutine read under the
\* repo's lock, after whatever the lock's last holder had read.
LEMMA UpdateAdvances ==
    ASSUME OnlyAdvance, SystemSound, HeadSound, NEW p \in Pollers, PollerMakes(p),
           NEW t \in Repos, UpdateTable(p, t)
    PROVE  /\ TableBehind'
           /\ AnswerBetween'
           /\ \A r \in Paths(repos) :
                 Tracked(repos', r) => repos'[r].head >= repos[r].head
<1>1. /\ PollersSound /\ repos \in Table /\ PollerActs(p)
      /\ \A r \in Repos : HeadOf(r)' = HeadOf(r)
  BY DEF SystemSound, Shape, TypeOK, PollerMakes, PollFrame, world, HeadOf
<1>2. /\ poll[p].pc = "update" /\ poll[p].repo = t
      /\ repos' = Update(repos, t, poll[p].bh, poll[p].dirty)
  BY DEF UpdateTable, Polls
<1>3. \A r \in Repos \ {t} : repos'[r] = repos[r]
  BY <1>1, <1>2, UpdateOthers
<1>4. repos'[t].head = poll[p].bh.sha
  BY <1>1, <1>2, UpdateNewEntry, UpdateOldEntry
<1>5. /\ poll[p].bh.sha <= HeadOf(t) /\ poll[p].bh.sha \in Nat
      /\ Tracked(repos, t) => repos[t].head <= poll[p].bh.sha
  BY <1>1, <1>2 DEF HeadSound, AnswerBetween, PollersSound, PollState, SHA
<1>6. \A r \in Repos : Tracked(repos, r) => repos[r].head \in Nat
  BY <1>1, TrackedRepo DEF RepoState, SHA
<1>7. TableBehind'
  <2> SUFFICES ASSUME NEW r \in Repos, Tracked(repos', r)
               PROVE  repos'[r].head <= HeadOf(r)'
    BY DEF TableBehind
  <2>1. QED
    BY <1>1, <1>3, <1>4, <1>5 DEF HeadSound, TableBehind, Tracked
<1>8. AnswerBetween'
  <2> SUFFICES ASSUME NEW q \in Pollers, poll'[q].pc \in {"status", "update"}
               PROVE  /\ poll'[q].bh.sha <= NewHead(poll'[q].repo)
                      /\ Tracked(repos', poll'[q].repo) =>
                             repos'[poll'[q].repo].head <= poll'[q].bh.sha
    BY DEF AnswerBetween, HeadOf, NewHead
  <2>1. q # p
    BY <1>1, <1>2, WriteKeeps DEF WriteActs
  <2>2. poll'[q] = poll[q]
    BY <1>1, <2>1, ActsMove DEF PollMoves, PollersSound, SystemSound, ShardsSound
  <2>3. poll[q].repo \in Repos /\ poll[q].repo # t
    BY <1>1, <1>2, <2>1, <2>2, OtherPolls DEF PollersSound, SoundPoll, InPoll
  <2>4. /\ poll[q].bh.sha <= HeadOf(poll[q].repo)
        /\ Tracked(repos, poll[q].repo) =>
               repos[poll[q].repo].head <= poll[q].bh.sha
    BY <2>2 DEF HeadSound, AnswerBetween
  <2>5. NewHead(poll[q].repo) = HeadOf(poll[q].repo)
    BY DEF PollerMakes, PollFrame, world, HeadOf, NewHead
  <2>6. QED
    BY <1>1, <1>3, <2>2, <2>3, <2>4, <2>5 DEF Tracked
<1>9. \A r \in Paths(repos) : Tracked(repos', r) => repos'[r].head >= repos[r].head
  <2> SUFFICES ASSUME NEW r \in Repos, Tracked(repos, r)
               PROVE  repos'[r].head >= repos[r].head
    BY DEF Paths
  <2>1. QED
    BY <1>3, <1>4, <1>5, <1>6
<1>10. QED
  BY <1>7, <1>8, <1>9

LEMMA PollStepAdvances ==
    ASSUME OnlyAdvance, SystemSound, HeadSound, [SystemNext]_allVars,
           NEW p \in Pollers, PollerMakes(p), Asks(p)
    PROVE  /\ TableBehind'
           /\ AnswerBetween'
           /\ \A r \in Paths(repos) :
                 Tracked(repos', r) => repos'[r].head >= repos[r].head
<1>1. PollersSound /\ repos \in Table /\ PollerActs(p)
  BY DEF SystemSound, Shape, TypeOK, PollerMakes
<1>2. poll' = [poll EXCEPT ![p] = poll'[p]] /\ poll \in [Pollers -> PollState]
  BY <1>1, ActsMove DEF PollMoves, PollersSound, SystemSound, ShardsSound
<1>3. ASSUME HeadsKept
      PROVE  AnswerBetween'
  <2> SUFFICES ASSUME NEW q \in Pollers, poll'[q].pc \in {"status", "update"}
               PROVE  /\ poll'[q].bh.sha <= NewHead(poll'[q].repo)
                      /\ Tracked(repos', poll'[q].repo) =>
                             repos'[poll'[q].repo].head <= poll'[q].bh.sha
    BY DEF AnswerBetween, HeadOf, NewHead
  <2>1. CASE q # p
    BY <1>2, <1>3, <2>1, HeadsKeptBetween
  <2>2. CASE q = p /\ poll[p].pc = "head"
    <3> DEFINE r == poll[p].repo
    <3>1. poll'[p].repo = r /\ poll'[p].bh.sha = HeadOf(r) /\ r \in Repos
      BY <1>1, <2>2, HonestAnswers DEF HeadSound, PollersSound, SoundPoll, InPoll
    <3>2. NewHead(r) = HeadOf(r) /\ HeadOf(r) \in Nat
      BY <3>1, StepHeads DEF PollerMakes, PollFrame, world, HeadOf, NewHead,
         HeadSound, SystemSound
    <3>3. Tracked(repos', r) => repos'[r].head <= HeadOf(r)
      BY <1>3, <3>1 DEF HeadsKept, HeadSound, TableBehind
    <3>4. QED
      BY <2>2, <3>1, <3>2, <3>3
  <2>3. CASE q = p /\ poll[p].pc # "head"
    <3> DEFINE r == poll[p].repo
    <3>1. /\ poll[p].pc = "status"
          /\ poll'[p].repo = r /\ poll'[p].bh = poll[p].bh
      BY <1>1, <2>3, AnswerGoes
    <3>2. /\ poll[p].bh.sha <= HeadOf(r)
          /\ Tracked(repos, r) => repos[r].head <= poll[p].bh.sha
          /\ r \in Repos
      BY <1>1, <3>1 DEF HeadSound, AnswerBetween, PollersSound, SoundPoll, InPoll
    <3>3. NewHead(r) = HeadOf(r)
      BY DEF PollerMakes, PollFrame, world, HeadOf, NewHead
    <3>4. Tracked(repos', r) => repos'[r].head <= poll[p].bh.sha
      BY <1>3, <3>2 DEF HeadsKept
    <3>5. QED
      BY <2>3, <3>1, <3>2, <3>3, <3>4
  <2>4. QED
    BY <2>1, <2>2, <2>3
<1>4. CASE HeadsKept
  BY <1>3, <1>4, HeadsKeptBehind
<1>5. ASSUME NEW t \in Repos, UpdateTable(p, t)
      PROVE  /\ TableBehind'
             /\ AnswerBetween'
             /\ \A r \in Paths(repos) :
                   Tracked(repos', r) => repos'[r].head >= repos[r].head
  BY <1>5, UpdateAdvances
<1>6. QED
  BY <1>1, <1>4, <1>5, PollHeadsKept

LEMMA StepHeadSound ==
    ASSUME OnlyAdvance, SystemSound, HeadSound, [SystemNext]_allVars
    PROVE  /\ HeadSound'
           /\ \A r \in Paths(repos) :
                 Tracked(repos', r) => repos'[r].head >= repos[r].head
<1>1. HeadIsLast' /\ onDisk' = onDisk
  BY StepHeads DEF HeadSound, SystemSound
<1>2. ASSUME NEW p \in Pollers, PollerMakes(p), Asks(p)
      PROVE  /\ HeadSound'
             /\ \A r \in Paths(repos) :
                   Tracked(repos', r) => repos'[r].head >= repos[r].head
  BY <1>1, <1>2, PollStepOnDisk, PollStepAdvances DEF HeadSound
<1>3. ASSUME \/ UserActs \/ FileEvent
             \/ \E p \in Pollers : SyncWatches(p) \/ FlushReady(p)
             \/ \E w \in Workers : JobMakes(w)
             \/ \E g \in Refreshers : RefreshTick(g)
             \/ \E c \in Schedulers \union Handlers : CallerMakes(c)
             \/ UNCHANGED allVars
      PROVE  /\ HeadSound'
             /\ \A r \in Paths(repos) :
                   Tracked(repos', r) => repos'[r].head >= repos[r].head
  <2>1. HeadsKept
    BY <1>3, ElsewhereHeadsKept
  <2>2. OnDisk'
    BY <1>1, <1>3, <2>1, ElsewhereOnDisk DEF HeadSound
  <2>3. AnswerBetween'
    <3> SUFFICES ASSUME NEW q \in Pollers, poll'[q].pc \in {"status", "update"}
                 PROVE  /\ poll'[q].bh.sha <= NewHead(poll'[q].repo)
                        /\ Tracked(repos', poll'[q].repo) =>
                               repos'[poll'[q].repo].head <= poll'[q].bh.sha
      BY DEF AnswerBetween, HeadOf, NewHead
    <3>1. poll'[q] = poll[q]
      BY <1>3, PollsElsewhere DEF SystemSound, InPoll
    <3>2. QED
      BY <2>1, <3>1, HeadsKeptBetween
  <2>4. QED
    BY <1>1, <2>1, <2>2, <2>3, HeadsKeptBehind DEF HeadSound
<1>4. WorldShape
  BY DEF SystemSound
<1>5. QED
  BY <1>2, <1>3, <1>4, SystemSteps

\* Where the repositories only advance, the HEAD that the table shows does too:
\* of two goroutines that poll a repo, an event's and the ticker's, the one with
\* the older answer of git never writes last.
THEOREM HeadAdvancesOnly ==
    ASSUME SingleBranch, MaxMoves = 0, ~GitMayFail
    PROVE  SystemSpec => HeadNeverGoesBack
<1>1. OnlyAdvance
  BY DEF OnlyAdvance
<1>2. SystemSound /\ HeadSound /\ [SystemNext]_allVars => HeadSound'
  BY <1>1, StepHeadSound
<1>3. SystemSound /\ HeadSound /\ [SystemNext]_allVars =>
          [\A r \in Paths(repos) :
              Tracked(repos', r) => repos'[r].head >= repos[r].head]_allVars
  BY <1>1, StepHeadSound
<1>4. SystemSound /\ [SystemNext]_allVars => SystemSound'
  BY SystemStepSound
<1>5. QED
  BY SystemInitSound, SystemHeadStarts, <1>2, <1>3, <1>4, PTL
     DEF SystemSpec, HeadNeverGoesBack
=============================================================================
