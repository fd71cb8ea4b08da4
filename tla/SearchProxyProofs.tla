--------------------------- MODULE SearchProxyProofs ---------------------------
(***************************************************************************)
(* Proofs about searches that run while everything else does.  A search    *)
(* writes nothing but its own locals, so that the steps of the program are *)
(* those of VanzelfProofs.  What a search needs of the table is that each  *)
(* delta hides the paths of the files it brings; it has it because a delta *)
(* is published whole, when the goroutine that builds it has read all of   *)
(* the dirty files, and never changed in place.                            *)
(***************************************************************************)
EXTENDS SearchProxy, VanzelfProofs

\* A *DeltaIndex that the table may hold.
Showable(delta) == delta = NoDelta \/ Listed(delta)

TableListed == \A r \in Repos : Tracked(repos, r) => Showable(repos[r].delta)

\* The delta that a job builds, or will publish.
JobsListed ==
    \A w \in Workers : /\ Showable(worker[w].built)
                       /\ At(w, "scan") => Listed(worker[w].built)

ListedSound == TableListed /\ JobsListed

LEMMA ListedStarts == SystemInit => ListedSound
<1> SUFFICES ASSUME SystemInit PROVE ListedSound
  OBVIOUS
<1>1. repos = EmptyTable /\ worker = [w \in Workers |-> IdleWorker]
  BY DEF SystemInit, Init, JobsInit
<1>2. TableListed
  BY <1>1 DEF TableListed, EmptyTable, Tracked
<1>3. JobsListed
  BY <1>1 DEF JobsListed, At, IdleWorker, Showable
<1>4. QED
  BY <1>2, <1>3 DEF ListedSound

-----------------------------------------------------------------------------
(***************************************************************************)
(* The table.                                                              *)
(***************************************************************************)
LEMMA WritesListed ==
    ASSUME repos \in Table, TableListed, NEW r \in Repos,
           \/ \E status : repos' = SetStatus(repos, r, status)
           \/ \E sha : repos' = SetIndexed(repos, r, sha)
           \/ \E delta : Showable(delta) /\ repos' = SetDelta(repos, r, delta)
           \/ \E bh, dirty : repos' = Update(repos, r, bh, dirty)
           \/ repos' = Remove(repos, r)
    PROVE  TableListed'
<1> SUFFICES ASSUME NEW q \in Repos, Tracked(repos', q)
             PROVE  Showable(repos'[q].delta)
  BY DEF TableListed, Showable, Listed, IndexedFiles
<1>1. Tracked(repos, q) => Showable(repos[q].delta)
  BY DEF TableListed
<1>2. ASSUME NEW status, repos' = SetStatus(repos, r, status)
      PROVE  Showable(repos'[q].delta)
  <2>1. Tracked(repos, q) /\ repos'[q].delta = repos[q].delta
    BY <1>2, SetStatusFields
  <2>2. QED
    BY <1>1, <2>1
<1>3. ASSUME NEW sha, repos' = SetIndexed(repos, r, sha)
      PROVE  Showable(repos'[q].delta)
  <2>1. Tracked(repos, q) /\ repos'[q].delta = repos[q].delta
    BY <1>3, SetIndexedFields
  <2>2. QED
    BY <1>1, <2>1
<1>4. ASSUME NEW delta, Showable(delta), repos' = SetDelta(repos, r, delta)
      PROVE  Showable(repos'[q].delta)
  <2>1. /\ Tracked(repos, q)
        /\ repos'[q].delta = delta \/ repos'[q].delta = repos[q].delta
    BY <1>4, SetDeltaFields
  <2>2. QED
    BY <1>1, <1>4, <2>1
<1>5. ASSUME NEW bh, NEW dirty, repos' = Update(repos, r, bh, dirty)
      PROVE  Showable(repos'[q].delta)
  <2>1. CASE q # r
    <3>1. repos'[q] = repos[q]
      BY <1>5, <2>1, UpdateOthers
    <3>2. QED
      BY <1>1, <3>1 DEF Tracked
  <2>2. CASE q = r /\ Tracked(repos, r)
    <3>1. repos'[q].delta = repos[q].delta
      BY <1>5, <2>2, UpdateOldEntry
    <3>2. QED
      BY <1>1, <2>2, <3>1
  <2>3. CASE q = r /\ ~Tracked(repos, r)
    <3>1. repos'[q].delta = NoDelta
      BY <1>5, <2>3, UpdateNewEntry
    <3>2. QED
      BY <3>1 DEF Showable
  <2>4. QED
    BY <2>1, <2>2, <2>3
<1>6. CASE repos' = Remove(repos, r)
  <2>1. Tracked(repos, q) /\ repos'[q] = repos[q]
    BY <1>6, RemoveFields
  <2>2. QED
    BY <1>1, <2>1
<1>7. QED
  BY <1>2, <1>3, <1>4, <1>5, <1>6

LEMMA SameTableListed ==
    ASSUME TableListed, repos' = repos
    PROVE  TableListed'
BY DEF TableListed, Tracked

\* poller.go:174: a poll publishes the delta it has built, or none.
LEMMA PollListed ==
    ASSUME SystemSound, TableListed, NEW p \in Pollers, PollerActs(p)
    PROVE  TableListed'
<1>1. repos \in Table
  BY DEF SystemSound, Shape, TypeOK
<1>2. poll[p].pc = "delta" => Listed(poll[p].built)
  BY DEF SystemSound, PollersSound, SoundPoll
<1>3. Showable(NoDelta)
  BY DEF Showable
<1>4. ASSUME NEW r \in Repos, RemoveGone(p, r)
      PROVE  TableListed'
  BY <1>1, <1>4, WritesListed DEF RemoveGone
<1>5. CASE LoopActs(p)
  BY <1>4, <1>5, SameTableListed DEF LoopActs, PollAll, StartDiscovery, Discover,
     DiscoveryFails, TrackedPaths, NextRepo, EndOfList
<1>6. ASSUME NEW r \in Repos, Lock(p, r) \/ ReadActs(p, r) \/ TriggerActs(p, r)
      PROVE  TableListed'
  BY <1>6, SameTableListed DEF Lock, ReadActs, PollBranch, PollHead, PollStatus,
     PollFails, LookUpShard, PollFile, TriggerActs, PollTriggers, PollSpawns, Spawn
<1>7. ASSUME NEW r \in Repos, UpdateTable(p, r)
      PROVE  TableListed'
  BY <1>1, <1>7, WritesListed DEF UpdateTable
<1>8. ASSUME NEW r \in Repos, RecordShard(p, r) \/ SettleNew(p, r) \/ MarkStale(p, r)
      PROVE  TableListed'
  BY <1>1, <1>8, WritesListed DEF RecordShard, SettleNew, MarkStale
<1>9. ASSUME NEW r \in Repos,
             PublishPolled(p, r) \/ ClearDelta(p, r) \/ DropDelta(p, r)
      PROVE  TableListed'
  <2>1. \E delta : Showable(delta) /\ repos' = SetDelta(repos, r, delta)
    BY <1>2, <1>3, <1>9 DEF PublishPolled, ClearDelta, DropDelta, Polls, Showable
  <2>2. QED
    BY <1>1, <2>1, WritesListed
<1>10. QED
  BY <1>5, <1>6, <1>7, <1>8, <1>9 DEF PollerActs, WriteActs

-----------------------------------------------------------------------------
(***************************************************************************)
(* The jobs.                                                               *)
(***************************************************************************)
LEMMA BuiltListed ==
    ASSUME TypeOK, JobsListed, NEW w \in Workers, NEW new,
           worker' = [worker EXCEPT ![w] = new],
           Showable(new.built), new.pc = "scan" => Listed(new.built)
    PROVE  JobsListed'
<1>1. \A v \in Workers : worker'[v] = IF v = w THEN new ELSE worker[v]
  BY DEF TypeOK
<1>2. QED
  BY <1>1 DEF JobsListed, At, Showable, Listed, IndexedFiles

LEMMA GotoListed ==
    ASSUME TypeOK, JobsListed, NEW w \in Workers, NEW from, NEW to,
           to # "scan", Goto(w, from, to)
    PROVE  JobsListed'
<1> DEFINE new == [worker[w] EXCEPT !.pc = to]
<1>1. worker' = [worker EXCEPT ![w] = new] /\ worker[w] \in WorkerState
  BY DEF Goto, TypeOK
<1>2. new.built = worker[w].built /\ new.pc = to
  BY <1>1 DEF WorkerState
<1>3. Showable(worker[w].built)
  BY DEF JobsListed
<1> HIDE DEF new
<1>4. QED
  BY <1>1, <1>2, <1>3, BuiltListed

\* delta.go:42: a job builds its delta from nothing, one dirty file at a time.
LEMMA ReadingListed ==
    ASSUME Shape, JobsListed, NEW w \in Workers,
           \/ \E dirty : ReadStatus(w, dirty)
           \/ \E f \in Files, content \in Contents \union {Absent} :
                 ReadFile(w, f, content)
    PROVE  JobsListed'
<1>1. TypeOK /\ worker[w] \in WorkerState
  BY DEF Shape, TypeOK
<1>2. Showable(worker[w].built) /\ (At(w, "scan") => Listed(worker[w].built))
  BY DEF JobsListed
<1>3. ASSUME NEW dirty, ReadStatus(w, dirty)
      PROVE  JobsListed'
  <2> DEFINE same  == [worker[w] EXCEPT !.pc = "delta"]
             fresh == [worker[w] EXCEPT !.pc = "scan", !.todo = dirty,
                                        !.built = EmptyDelta]
  <2>1. /\ same.pc = "delta" /\ same.built = worker[w].built
        /\ fresh.pc = "scan" /\ fresh.built = EmptyDelta
    BY <1>1 DEF WorkerState
  <2>2. \/ worker' = [worker EXCEPT ![w] = same]
        \/ worker' = [worker EXCEPT ![w] = fresh]
    BY <1>3 DEF ReadStatus
  <2> HIDE DEF same, fresh
  <2>3. CASE worker' = [worker EXCEPT ![w] = same]
    BY <1>1, <1>2, <2>1, <2>3, BuiltListed
  <2>4. CASE worker' = [worker EXCEPT ![w] = fresh]
    BY <1>1, <2>1, <2>4, BuiltListed, EmptyIsListed DEF Showable
  <2>5. QED
    BY <2>2, <2>3, <2>4
<1>4. ASSUME NEW f \in Files, NEW content \in Contents \union {Absent},
             ReadFile(w, f, content)
      PROVE  JobsListed'
  <2> DEFINE rest  == DOMAIN worker[w].todo \ {f}
             left  == [g \in rest |-> worker[w].todo[g]]
             delta == AddFile(worker[w].built, f, worker[w].todo[f], content)
             to    == IF rest = {} THEN "delta" ELSE "scan"
             new   == [worker[w] EXCEPT !.pc = to, !.todo = left, !.built = delta]
  <2>1. worker' = [worker EXCEPT ![w] = new]
    BY <1>4 DEF ReadFile
  <2>2. worker[w].built \in DeltaIndex /\ Listed(worker[w].built)
    BY <1>2, <1>4 DEF ReadFile, Shape, ScansHaveDelta
  <2>3. Listed(delta)
    BY <2>2, AddFileListed
  <2> HIDE DEF to, left, delta
  <2>4. new.built = delta
    BY <1>1 DEF WorkerState
  <2> HIDE DEF new
  <2>5. QED
    BY <1>1, <2>1, <2>3, <2>4, BuiltListed DEF Showable
<1>5. QED
  BY <1>3, <1>4

LEMMA JobListed ==
    ASSUME SystemSound, ListedSound, NEW w \in Workers, JobMakes(w)
    PROVE  ListedSound'
<1>1. /\ Shape /\ TypeOK /\ WorldShape /\ TableListed /\ JobsListed
      /\ repos \in Table /\ worker[w] \in WorkerState
  BY DEF SystemSound, Shape, TypeOK, ListedSound
<1>2. /\ ~At(w, "idle") => worker[w].repo \in Repos
      /\ Showable(worker[w].built)
  BY <1>1 DEF Shape, JobsHaveRepo, Live, At, JobsListed
<1>3. CASE UNCHANGED vars
  BY <1>1, <1>3, SameTableListed DEF vars, ListedSound, JobsListed, At
<1>4. CASE MarkIndexing(w) \/ MarkError(w) \/ MarkIdle(w)
  <2>1. JobsListed'
    BY <1>1, <1>4, GotoListed DEF MarkIndexing, MarkError, MarkIdle
  <2>2. worker[w].repo \in Repos
    BY <1>2, <1>4 DEF MarkIndexing, MarkError, MarkIdle, Goto, At
  <2>3. TableListed'
    BY <1>1, <1>4, <2>2, WritesListed DEF MarkIndexing, MarkError, MarkIdle
  <2>4. QED
    BY <2>1, <2>3 DEF ListedSound
<1>5. CASE \/ IndexSucceeds(w) \/ IndexFails(w) \/ ReadHeadFails(w)
           \/ ReadStatusFails(w) \/ RefreshFetch(w) \/ RefreshFails(w)
           \/ RefreshSwap(w)
  <2>1. JobsListed'
    BY <1>1, <1>5, GotoListed DEF IndexSucceeds, IndexFails, ReadHeadFails,
       ReadStatusFails, RefreshFetch, RefreshFails, RefreshSwap
  <2>2. repos' = repos
    BY <1>5 DEF IndexSucceeds, IndexFails, ReadHeadFails,
       ReadStatusFails, RefreshFetch, RefreshFails, RefreshSwap
  <2>3. QED
    BY <1>1, <2>1, <2>2, SameTableListed DEF ListedSound
<1>6. CASE \/ Acquire(w) \/ Release(w) \/ Unmark(w)
           \/ \E sha : ReadHead(w, sha)
  <2>1. PICK new : /\ worker' = [worker EXCEPT ![w] = new]
                   /\ new.built = worker[w].built /\ new.pc # "scan"
    <3> DEFINE at(to)    == [worker[w] EXCEPT !.pc = to]
               read(sha) == [worker[w] EXCEPT !.pc = "record", !.sha = sha]
    <3>1. \A to : at(to).built = worker[w].built /\ at(to).pc = to
      BY <1>1 DEF WorkerState
    <3>2. \A sha : read(sha).built = worker[w].built /\ read(sha).pc = "record"
      BY <1>1 DEF WorkerState
    <3>3. \/ \E to \in {"mark", "unmark", "done"} :
                worker' = [worker EXCEPT ![w] = at(to)]
          \/ \E sha : worker' = [worker EXCEPT ![w] = read(sha)]
      BY <1>6 DEF Acquire, Release, Unmark, ReadHead
    <3> HIDE DEF at, read
    <3>4. QED
      BY <3>1, <3>2, <3>3
  <2>2. repos' = repos
    BY <1>6 DEF Acquire, Release, Unmark, ReadHead
  <2>3. QED
    BY <1>1, <1>2, <2>1, <2>2, BuiltListed, SameTableListed DEF ListedSound
<1>7. CASE RecordIndexed(w)
  <2> DEFINE new == [worker[w] EXCEPT !.pc = "settle", !.sha = NoSHA]
  <2>1. new.built = worker[w].built /\ new.pc = "settle"
    BY <1>1 DEF WorkerState
  <2>2. worker' = [worker EXCEPT ![w] = new]
    BY <1>7 DEF RecordIndexed
  <2> HIDE DEF new
  <2>3. JobsListed'
    BY <1>1, <1>2, <2>1, <2>2, BuiltListed
  <2>4. TableListed'
    BY <1>1, <1>2, <1>7, WritesListed DEF RecordIndexed, At
  <2>5. QED
    BY <2>3, <2>4 DEF ListedSound
<1>8. CASE PublishDelta(w)
  <2> DEFINE new == [worker[w] EXCEPT !.pc = "refresh", !.built = NoDelta]
  <2>1. new.built = NoDelta /\ new.pc = "refresh"
    BY <1>1 DEF WorkerState
  <2>2. worker' = [worker EXCEPT ![w] = new]
    BY <1>8 DEF PublishDelta
  <2> HIDE DEF new
  <2>3. JobsListed'
    BY <1>1, <2>1, <2>2, BuiltListed DEF Showable
  <2>4. TableListed'
    BY <1>1, <1>2, <1>8, WritesListed DEF PublishDelta, At
  <2>5. QED
    BY <2>3, <2>4 DEF ListedSound
<1>9. CASE \/ \E dirty : ReadStatus(w, dirty)
           \/ \E f \in Files, content \in Contents \union {Absent} :
                 ReadFile(w, f, content)
  <2>1. repos' = repos
    BY <1>9 DEF ReadStatus, ReadFile
  <2>2. QED
    BY <1>1, <1>9, <2>1, ReadingListed, SameTableListed DEF ListedSound
<1>10. CASE Done(w)
  <2>1. worker' = [worker EXCEPT ![w] = IdleWorker] /\ repos' = repos
    BY <1>10 DEF Done
  <2>2. IdleWorker.built = NoDelta /\ IdleWorker.pc = "idle"
    BY DEF IdleWorker
  <2>3. QED
    BY <1>1, <2>1, <2>2, BuiltListed, SameTableListed DEF ListedSound, Showable
<1>11. Acquire(w) \/ JobStep(w) \/ UNCHANGED vars
  BY <1>1, JobIsManagers DEF Shape
<1>12. QED
  BY <1>3, <1>4, <1>5, <1>6, <1>7, <1>8, <1>9, <1>10, <1>11 DEF JobStep

\* A goroutine that is started keeps what its worker had: no delta to speak of.
LEMMA SpawnListed ==
    ASSUME TypeOK, JobsListed, NEW c \in Callers, Spawn(c)
    PROVE  JobsListed'
<1>1. PICK w \in Workers :
          worker' = [worker EXCEPT ![w] =
                        [@ EXCEPT !.pc = "acquire", !.repo = claimed[c]]]
  BY DEF Spawn
<1> DEFINE new == [worker[w] EXCEPT !.pc = "acquire", !.repo = claimed[c]]
<1>2. worker' = [worker EXCEPT ![w] = new]
  BY <1>1
<1>3. new.built = worker[w].built /\ new.pc = "acquire"
  BY DEF TypeOK, WorkerState
<1> HIDE DEF new
<1>4. Showable(worker[w].built)
  BY DEF JobsListed
<1>5. QED
  BY <1>2, <1>3, <1>4, BuiltListed

-----------------------------------------------------------------------------
(***************************************************************************)
(* The program.                                                            *)
(***************************************************************************)
LEMMA StepListed ==
    ASSUME SystemSound, ListedSound, [SystemNext]_allVars
    PROVE  ListedSound'
<1>1. WorldShape /\ TypeOK /\ TableListed /\ JobsListed
  BY DEF SystemSound, Shape, ListedSound
<1>2. CASE \E w \in Workers : JobMakes(w)
  BY <1>2, JobListed
<1>3. ASSUME \/ UserActs \/ FileEvent
             \/ \E p \in Pollers :
                    PollerMakes(p) \/ SyncWatches(p) \/ FlushReady(p)
             \/ \E g \in Refreshers : RefreshTick(g)
             \/ \E c \in Schedulers \union Handlers : CallerMakes(c)
             \/ UNCHANGED allVars
      PROVE  ListedSound'
  <2>1. JobsListed'
    <3>1. CASE worker' = worker
      BY <1>1, <3>1 DEF JobsListed, At
    <3>2. QED
      BY <1>1, <1>3, <3>1, WorkersElsewhere, SpawnListed
  <2>2. ASSUME NEW p \in Pollers, PollerMakes(p)
        PROVE  TableListed'
    BY <1>1, <2>2, PollListed DEF PollerMakes
  <2>3. ASSUME \/ UserActs \/ FileEvent
               \/ \E p \in Pollers : SyncWatches(p) \/ FlushReady(p)
               \/ \E g \in Refreshers : RefreshTick(g)
               \/ \E c \in Schedulers \union Handlers : CallerMakes(c)
               \/ UNCHANGED allVars
        PROVE  repos' = repos
    BY <2>3 DEF UserActs, FileEvent, Event, SyncWatches, Sync, FlushReady, Flush,
       RefreshTick, CallerMakes, StartAll, StartOne, SweepStep, Spawn, allVars, vars
  <2>4. TableListed'
    BY <1>1, <1>3, <2>2, <2>3, SameTableListed
  <2>5. QED
    BY <2>1, <2>4 DEF ListedSound
<1>4. QED
  BY <1>1, <1>2, <1>3, SystemSteps

LEMMA ListedInvariance == SystemSpec => [](SystemSound /\ ListedSound)
<1>1. SystemSound /\ ListedSound /\ [SystemNext]_allVars =>
          SystemSound' /\ ListedSound'
  BY SystemStepSound, StepListed
<1>2. QED
  BY SystemInitSound, ListedStarts, <1>1, PTL DEF SystemSpec

\* proxy.go:144: Search asks zoekt and reads the maps and the table.  It writes
\* none of what the rest of the program, or the index, holds, so that whatever
\* is shown of the program without searches holds with them.
LEMMA SearchesOnlyRead == SearchSpec => SystemSpec
<1>1. SearchInit => SystemInit
  BY DEF SearchInit
<1>2. [SearchNext]_<<allVars, search>> => [SystemNext]_allVars
  BY DEF SearchNext, Ask, ReadMaps, Merge, SearchFrame
<1>3. QED
  BY <1>1, <1>2, PTL DEF SearchSpec, SystemSpec

-----------------------------------------------------------------------------
(***************************************************************************)
(* The searches.                                                           *)
(***************************************************************************)
SearchesTyped == search \in [Searchers -> SearchState]

LEMMA SearchStep ==
    ASSUME SystemSound, SearchesTyped, [SearchNext]_<<allVars, search>>
    PROVE  SearchesTyped'
<1>1. shard \in [Repos -> SHA] /\ KnownRepos \subseteq Repos
  BY HeadAssumption DEF SystemSound, ShardsSound, KnownRepos
<1>2. NoSearch \in SearchState
  BY DEF NoSearch, SearchState, EmptyMap, NoSHA, SHA
<1>3. ASSUME NEW s \in Searchers, Ask(s) \/ ReadMaps(s) \/ Merge(s)
      PROVE  SearchesTyped'
  <2>1. search[s] \in SearchState
    BY DEF SearchesTyped
  <2>2. /\ [search[s] EXCEPT !.pc = "asked", !.answer = shard] \in SearchState
        /\ [search[s] EXCEPT !.pc = "mapped", !.known = KnownRepos] \in SearchState
    BY <1>1, <2>1 DEF SearchState
  <2>3. QED
    BY <1>2, <1>3, <2>2 DEF SearchesTyped, Ask, ReadMaps, Merge
<1>4. CASE UNCHANGED search
  BY <1>4 DEF SearchesTyped
<1>5. QED
  BY <1>3, <1>4 DEF SearchNext

LEMMA SearchInvariance == SearchSpec => [](SystemSound /\ SearchesTyped)
<1>1. SearchInit => SearchesTyped
  BY DEF SearchInit, SearchesTyped, NoSearch, SearchState, EmptyMap, NoSHA, SHA
<1>2. SystemSound /\ SearchesTyped /\ [SearchNext]_<<allVars, search>> =>
          SearchesTyped'
  BY SearchStep
<1>3. SearchSpec => []SystemSound
  BY SearchesOnlyRead, SystemInvariance, PTL
<1>4. QED
  BY <1>1, <1>2, <1>3, PTL DEF SearchSpec

\* Every variable of the program and every local of its searches keeps its
\* type: proxy.go:144 works on maps of the repos the table can hold.
THEOREM SearchTyped == SearchSpec => []SearchType
<1>1. SystemSound /\ SearchesTyped => SearchType
  BY SoundIsTyped DEF SearchType, SearchesTyped
<1>2. QED
  BY <1>1, SearchInvariance, PTL

\* proxy.go:200: of a repo that a search knows, no file is shown twice.  The
\* delta of the snapshot may be newer than zoekt's answer and the maps, and than
\* the dirty files it was built from; it still hides what it brings.
THEOREM FilesShownOnce == SearchSpec => []FilesAreShownOnce
<1>1. SearchesTyped /\ ListedSound => FilesAreShownOnce
  <2> SUFFICES ASSUME SearchesTyped, ListedSound, NEW s \in Searchers,
                      search[s].pc = "mapped", NEW r \in search[s].known,
                      NEW f \in FromDelta(repos, r)
               PROVE  f \notin FromZoekt(search[s].answer, search[s].known, repos, r)
    BY DEF FilesAreShownOnce
  <2>1. r \in Repos
    BY DEF SearchesTyped, SearchState
  <2>2. HasDelta(repos, r) /\ f \in IndexedFiles(repos[r].delta)
    BY DEF FromDelta
  <2>3. f \in repos[r].delta.dirtyPaths
    BY <2>1, <2>2 DEF HasDelta, ListedSound, TableListed, Showable, Listed
  <2>4. QED
    BY <2>2, <2>3 DEF FromZoekt
<1>2. SearchSpec => [](SystemSound /\ ListedSound)
  BY SearchesOnlyRead, ListedInvariance, PTL
<1>3. QED
  BY <1>1, <1>2, SearchInvariance, PTL
=============================================================================
