------------------------------- MODULE Vanzelf -------------------------------
(***************************************************************************)
(* zoekt-vanzelf serve (cmdServe of cmd/zoekt-vanzelf/main.go): poller,    *)
(* watcher, reindex jobs, scheduler, the HTTP handlers that trigger work   *)
(* and the goroutine that refreshes the repo map, over one state table,    *)
(* with the repositories they read and the shards zoekt-git-index writes.  *)
(* This is the program from its start until it is told to stop.            *)
(***************************************************************************)
EXTENDS Watcher, World

CONSTANTS
    Schedulers,   \* the goroutine of scheduler.go
    Handlers,     \* goroutines of POST /api/reindex and /api/reindex/{repo}
    Refreshers,   \* cmdServe's goroutine that refreshes the repo map
    NoListing,    \* "no answer of /api/list in hand"
    GitMayFail,   \* git commands may fail or time out
    IndexMayFail, \* zoekt-git-index may fail or time out
    ZoektMayFail  \* requests to zoekt may fail

\* A goroutine runs one function; git answers the commits a repo can have.
ASSUME VanzelfAssumption ==
    /\ Schedulers \union Handlers \subseteq Callers
    /\ Pollers \intersect (Schedulers \union Handlers) = {}
    /\ Refreshers \intersect Workers = {}
    /\ 0..MaxCommits \subseteq Heads
    /\ {GitMayFail, IndexMayFail, ZoektMayFail} \subseteq BOOLEAN

VARIABLES
    shard,  \* per repo: the commit of the shard on disk
    run,    \* per worker: its zoekt-git-index process
    listing \* per goroutine in RefreshRepoMap: zoekt's answer

external == <<shard, run>>

allVars == <<vars, pollVars, watchVars, world, external, listing>>

\* zoekt-git-index resolves HEAD when it starts and renames the shard of that
\* commit into place when it ends.
Run   == [stage : {"none", "resolved", "published"}, sha : SHA]
NoRun == [stage |-> "none", sha |-> NoSHA]

NoRuns     == [w \in Workers |-> NoRun]
NoListings == [g \in Workers \union Refreshers |-> NoListing]
EmptyMap   == [r \in Repos |-> NoSHA]

SystemInit ==
    /\ Init
    /\ PollerInit
    /\ WatcherInit
    /\ WorldInit
    /\ run = NoRuns
    /\ listing = NoListings
    \* Shards of an earlier run of the program, and whether zoekt is up.
    /\ shard \in [Repos -> {NoSHA, 1}]
    /\ \A r \in Repos : shard[r] <= Len(history[r])
    /\ pathToSHA \in {shard, EmptyMap}

-----------------------------------------------------------------------------
(***************************************************************************)
(* The poller with git's and the file system's answers.                    *)
(***************************************************************************)
Content(r, f) == IF r \in onDisk THEN wt[r][f] ELSE Absent

PollStep(p) ==
    \/ TrackedPaths(p)
    \/ EndOfList(p)
    \/ Discover(p, onDisk)
    \/ GitMayFail /\ DiscoveryFails(p)
    \/ \E r \in Repos :
          \/ RemoveGone(p, r)
          \/ NextRepo(p, r)
          \/ r \in onDisk /\ PollBranch(p, r, branch[r])
          \/ r \in onDisk /\ PollHead(p, r, HeadOf(r))
          \/ (GitMayFail \/ r \notin onDisk) /\ PollHead(p, r, NoSHA)
          \/ r \in onDisk /\ PollStatus(p, r, GitStatus(r))
          \/ (GitMayFail \/ r \notin onDisk) /\ PollFails(p, r)
          \/ UpdateTable(p, r)
          \/ LookUpShard(p, r)
          \/ RecordShard(p, r)
          \/ SettleNew(p, r)
          \/ \E f \in Files : PollFile(p, r, f, Content(r, f))
          \/ PublishPolled(p, r)
          \/ ClearDelta(p, r)
          \/ MarkStale(p, r)
          \/ DropDelta(p, r)
          \/ PollTriggers(p, r)
          \/ PollSpawns(p, r)

\* All that a goroutine of the poller leaves alone.
PollFrame == UNCHANGED <<sweep, main, pathToSHA, world, external, listing>>

PollerStep(p) == PollStep(p) /\ PollFrame /\ UNCHANGED watchVars

PollLocks(p) ==
    /\ \E r \in Repos : Lock(p, r)
    /\ PollFrame /\ UNCHANGED watchVars

PollTick      == PollAll /\ PollFrame /\ UNCHANGED watchVars
DiscoverTick  == StartDiscovery(Ticker) /\ PollFrame /\ UNCHANGED watchVars
HandleRescan(p) == StartDiscovery(p) /\ PollFrame /\ UNCHANGED watchVars

Ticks(p) == p = Ticker /\ (PollTick \/ DiscoverTick)

SyncWatches(p) == Sync(p) /\ PollFrame

FileEvent == (\E r \in Repos : Event(r)) /\ PollFrame
FlushReady(p) == (\E ready \in SUBSET pending : Flush(p, ready)) /\ PollFrame

-----------------------------------------------------------------------------
(***************************************************************************)
(* The jobs with their zoekt-git-index processes.                          *)
(***************************************************************************)
ResolveHead(w) ==
    LET r == worker[w].repo
    IN  /\ At(w, "index") /\ run[w].stage = "none"
        /\ r \in onDisk /\ HeadOf(r) # NoSHA
        /\ run' = [run EXCEPT ![w] = [stage |-> "resolved", sha |-> HeadOf(r)]]
        /\ UNCHANGED <<vars, shard, listing>>

PublishShard(w) ==
    /\ At(w, "index") /\ run[w].stage = "resolved"
    /\ shard' = [shard EXCEPT ![worker[w].repo] = run[w].sha]
    /\ run' = [run EXCEPT ![w].stage = "published"]
    /\ UNCHANGED <<vars, listing>>

RunEnds(w) ==
    /\ run[w].stage = "published"
    /\ IndexSucceeds(w)
    /\ run' = [run EXCEPT ![w] = NoRun]
    /\ UNCHANGED <<shard, listing>>

RunFails(w) ==
    LET r == worker[w].repo
    IN  /\ IndexFails(w)
        /\ \/ IndexMayFail /\ run[w].stage # "none"
           \/ r \notin onDisk \/ HeadOf(r) = NoSHA
        /\ run' = [run EXCEPT ![w] = NoRun]
        /\ UNCHANGED <<shard, listing>>

\* The steps that use git's answers, or nothing outside the program.
ReadingStep(w) ==
    LET r == worker[w].repo
    IN  \/ MarkIndexing(w)
        \/ MarkError(w)
        \/ At(w, "head") /\ r \in onDisk /\ ReadHead(w, HeadOf(r))
        \/ At(w, "head") /\ (GitMayFail \/ r \notin onDisk)
              /\ (ReadHead(w, NoSHA) \/ ReadHeadFails(w))
        \/ RecordIndexed(w)
        \/ MarkIdle(w)
        \/ At(w, "status") /\ r \in onDisk /\ ReadStatus(w, GitStatus(r))
        \/ At(w, "status") /\ (GitMayFail \/ r \notin onDisk)
              /\ ReadStatusFails(w)
        \/ At(w, "scan")
              /\ \E f \in Files : ReadFile(w, f, Content(r, f))
        \/ PublishDelta(w)
        \/ Release(w)
        \/ Unmark(w)
        \/ Done(w)

JobFrame == UNCHANGED <<lock, poll, watchVars, world>>

Runs(w) ==
    /\ \/ ResolveHead(w)
       \/ RunFails(w)
       \/ ReadingStep(w) /\ UNCHANGED <<external, listing>>
    /\ JobFrame /\ UNCHANGED pathToSHA

Publishes(w) == PublishShard(w) /\ JobFrame /\ UNCHANGED pathToSHA
Indexed(w)   == RunEnds(w) /\ JobFrame /\ UNCHANGED pathToSHA

TakesSlot(w) ==
    /\ Acquire(w)
    /\ JobFrame /\ UNCHANGED <<pathToSHA, external, listing>>

-----------------------------------------------------------------------------
(***************************************************************************)
(* RefreshRepoMap, by a job or by the refresher: the answer is built from  *)
(* what zoekt has on disk, and the maps are swapped later.                 *)
(***************************************************************************)
Fetch(g) ==
    /\ listing[g] = NoListing
    /\ listing' = [listing EXCEPT ![g] = shard]
    /\ UNCHANGED pathToSHA

Swap(g) ==
    /\ listing[g] # NoListing
    /\ pathToSHA' = listing[g]
    /\ listing' = [listing EXCEPT ![g] = NoListing]

JobRefreshes(w) ==
    /\ \/ RefreshFetch(w) /\ Fetch(w)
       \/ ZoektMayFail /\ RefreshFails(w) /\ UNCHANGED <<listing, pathToSHA>>
       \/ RefreshSwap(w) /\ Swap(w)
    /\ JobFrame /\ UNCHANGED external

RefreshTick(g) ==
    /\ Fetch(g) \/ Swap(g)
    /\ JobFrame /\ UNCHANGED <<vars, external>>

-----------------------------------------------------------------------------
(***************************************************************************)
(* The scheduler and the handlers.                                         *)
(***************************************************************************)
CallerFrame == JobFrame /\ UNCHANGED <<pathToSHA, external, listing>>

ReindexTick(c)   == StartAll(c) /\ CallerFrame
HandleReindex(c) == (StartAll(c) \/ StartOne(c)) /\ CallerFrame
SweepOn(c)       == (SweepStep(c) \/ Spawn(c)) /\ CallerFrame

UserActs == UserStep /\ UNCHANGED <<vars, pollVars, watchVars, external, listing>>

SystemNext ==
    \/ UserActs
    \/ \E p \in Pollers : PollerStep(p) \/ PollLocks(p) \/ SyncWatches(p)
    \/ PollTick
    \/ DiscoverTick
    \/ \E p \in Rescans : HandleRescan(p)
    \/ FileEvent
    \/ \E p \in Flushers : FlushReady(p)
    \/ \E w \in Workers :
          \/ TakesSlot(w) \/ Runs(w) \/ Publishes(w)
          \/ Indexed(w) \/ JobRefreshes(w)
    \/ \E g \in Refreshers : RefreshTick(g)
    \/ \E c \in Schedulers : ReindexTick(c)
    \/ \E c \in Handlers : HandleReindex(c)
    \/ \E c \in Schedulers \union Handlers : SweepOn(c)

SystemSpec == SystemInit /\ [][SystemNext]_allVars

(***************************************************************************)
(* Go runs every goroutine on, its mutexes and channels serve waiters in   *)
(* turn, a ticker that fired is received sooner or later by the select     *)
(* that waits for several, git and zoekt-git-index are given a timeout and *)
(* zoekt answers.  Strong fairness is left out where nobody contends: weak *)
(* fairness then says the same.  (With IndexMayFail a run may fail again   *)
(* and again, and nothing says that its repo is ever indexed.)             *)
(***************************************************************************)
LockRivals == {p \in Pollers : Cardinality(Pollers) > 1}
SlotRivals == {w \in Workers : Cardinality(Workers) > MaxConcurrentReindex}

PollerFairness ==
    /\ \A p \in Pollers :
          WF_allVars(PollerStep(p) \/ SyncWatches(p) \/ Ticks(p) \/ PollLocks(p))
    /\ \A p \in LockRivals : SF_allVars(PollLocks(p))
    /\ SF_allVars(DiscoverTick)

JobFairness ==
    /\ \A w \in Workers : WF_allVars(Runs(w) \/ JobRefreshes(w) \/ TakesSlot(w)
                                        \/ Publishes(w) \/ Indexed(w))
    /\ \A w \in SlotRivals : SF_allVars(TakesSlot(w))

SchedulerFairness ==
    \A c \in Schedulers : SF_allVars(ReindexTick(c) \/ SweepOn(c))

FairSystemSpec ==
    /\ SystemSpec
    /\ PollerFairness
    /\ JobFairness
    /\ SchedulerFairness

-----------------------------------------------------------------------------
(***************************************************************************)
(* What SearchProxy.Search makes of zoekt's answer (the shards it answered *)
(* from), the names in the repo map and the state table.  Neither side     *)
(* finds anything in a binary file.                                        *)
(***************************************************************************)
Text(content) == IF content \in BinaryContents THEN Absent ELSE content

HasDelta(table, r) == Tracked(table, r) /\ table[r].delta # NoDelta

\* The repos that RefreshRepoMap has a name of.  It takes the name also of a
\* repo without a HEAD version; zoekt lists none, since zoekt-git-index is told
\* to index the branch HEAD (reindex.go:126).
KnownRepos == {r \in Repos : pathToSHA[r] # NoSHA}

\* Mutant: the dirty paths are not suppressed.
AllOfZoekt(answer, known, table, r) ==
    {f \in Files : Text(CommitTree(r, answer[r])[f]) # Absent}

\* The files of zoekt's answer that are kept: of a repo whose name the map
\* does not know, all of them.
FromZoekt(answer, known, table, r) ==
    {f \in Files :
        /\ Text(CommitTree(r, answer[r])[f]) # Absent
        /\ r \in known /\ HasDelta(table, r)
              => f \notin table[r].delta.dirtyPaths}

FromDelta(table, r) ==
    IF HasDelta(table, r) THEN IndexedFiles(table[r].delta) ELSE {}

\* A search now shows the texts of the working tree and no others.
UpToDate(r) ==
    LET zoekt == FromZoekt(shard, KnownRepos, repos, r)
        delta == FromDelta(repos, r)
    IN  /\ zoekt \union delta = {f \in Files : Text(wt[r][f]) # Absent}
        /\ \A f \in zoekt : CommitTree(r, shard[r])[f] = wt[r][f]
        /\ \A f \in delta : repos[r].delta.files[f] = wt[r][f]

-----------------------------------------------------------------------------
(***************************************************************************)
(* Properties.                                                             *)
(***************************************************************************)
SystemType ==
    /\ TypeOK /\ PollerType /\ WatcherType /\ WorldType
    /\ shard \in [Repos -> SHA]
    /\ run \in [Workers -> Run]
    /\ listing \in [Workers \union Refreshers ->
                        [Repos -> SHA] \union {NoListing}]

\* pollRepo reads HEAD and writes it to the table under the repo's lock, so
\* that an answer the ticker read before a commit is not written over the one
\* the watcher read after it.  (For repositories where HEAD only advances.)
HeadNeverGoesBack ==
    [][\A r \in Paths(repos) :
          Tracked(repos', r) => repos'[r].head >= repos[r].head]_allVars

\* Between polls, a repo that shows "idle" has a shard, or nothing to index: no path through
\* a failed run, a dropped trigger, a trusted shard of an earlier run or a
\* repo that was removed and found again ends in "idle" without one.
IdleHasShard ==
    \A r \in Paths(repos) :
        repos[r].status = "idle" /\ lock[r] = NoPoller
            => shard[r] # NoSHA \/ repos[r].head = NoSHA

Born(r) == HeadOf(r) # NoSHA

\* When the user stops, the shard of each repo that has a commit ends up being
\* of HEAD, whichever triggers were dropped, and whatever a commit between two
\* questions of a poll or an older index run left behind: the hourly reindex
\* takes every repo, those that say they are idle included.
IndexCatchesUp == <>[](\A r \in onDisk : Born(r) => shard[r] = HeadOf(r))

\* When the user stops, searches end up showing the working tree of each repo
\* that has a commit: an edit that the polls missed, and an older delta that a
\* job published over a poll's, are made good by the hourly reindex.
EditsBecomeSearchable == <>[](\A r \in onDisk : Born(r) => UpToDate(r))

\* With the hourly reindex no repo with a commit is stuck in "stale", "error"
\* or "indexing".
StatusSettles ==
    \A r \in Repos :
        []<>(Tracked(repos, r) /\ Born(r) => repos[r].status = "idle")

\* Polling alone does not reindex for ever: each trigger, the threshold's
\* included, needs a change, and a run of the index is none.
Quiesces == <>[](busy = {})

\* When no more repositories come or go, the table and the watches hold
\* exactly those that exist, whatever a poll or a rescan that began earlier
\* still writes.
TableFollowsDisk == <>[](Paths(repos) = onDisk /\ watched = onDisk)

(***************************************************************************)
(* What the repository's text says and the code does not do.               *)
(***************************************************************************)

\* README.md:159: the delta is rebuilt from scratch each poll cycle, so that
\* (README.md:3) edits are searchable with no reindex.
PollsMakeEditsSearchable == <>[](\A r \in onDisk : UpToDate(r))

\* state.go:12: idle means that the index is current.  At rest, with HEAD
\* only advancing, the shard is not of an older commit than the polled HEAD.
IdleIndexIsCurrent ==
    \A r \in Paths(repos) :
        repos[r].status = "idle" /\ r \notin busy /\ lock[r] = NoPoller
            => shard[r] >= repos[r].head
=============================================================================
