------------------------------- MODULE Poller -------------------------------
(***************************************************************************)
(* internal/rapid/poller.go: the goroutines that compare the repositories  *)
(* with the state table.  The ticker is Poller.Run; a rescan is the        *)
(* goroutine of a POST /api/rescan; the flusher is the watcher's, which    *)
(* polls single repos.  A goroutine's pc names the statement of pollRepo   *)
(* or discoverAndPoll it is about to execute.                              *)
(*                                                                         *)
(* What git and the file system answer is a parameter, as in               *)
(* ReindexManager, whose TriggerReindex a poll calls.                      *)
(***************************************************************************)
EXTENDS ReindexManager

CONSTANTS
    Ticker,        \* the goroutine of Poller.Run
    Flushers,      \* the flush goroutine of the watcher, if there is one
    Rescans,       \* goroutines of POST /api/rescan
    NoPoller,      \* the owner of a free repo lock
    GapMode,       \* config ReindexGapMode: "stale" or "blackout"
    MaxDirtyFiles, \* config
    MaxDeltaBytes  \* config, where a file counts as one byte

Pollers == {Ticker} \union Flushers \union Rescans

ASSUME PollerAssumption ==
    /\ Pollers \subseteq Callers
    /\ NoPoller \notin Pollers
    /\ NoSHA \in Heads \* git.go answers it for a repo without a commit
    /\ GapMode \in {"stale", "blackout"}
    /\ MaxDirtyFiles \in Nat
    /\ MaxDeltaBytes \in Nat

VARIABLES
    lock,     \* per repo: the goroutine that holds its repoLock
    poll,     \* per polling goroutine: its pc and locals
    pathToSHA \* the proxy's map of the commits zoekt says it has indexed

pollVars == <<lock, poll, pathToSHA>>

\* The statements of pollRepo between mu.Lock() and the deferred mu.Unlock().
InPoll == {"branch", "head", "status", "update", "shard", "current", "settle",
           "outdated", "scan", "delta", "clear", "stale", "drop", "trigger",
           "spawn"}
PollPC == {"idle", "discover", "paths", "remove", "next", "lock", "sync"}
              \union InPoll

PollState == [pc        : PollPC,
              discovers : BOOLEAN,        \* in discoverAndPoll
              found     : SUBSET Repos,   \* repos still to poll
              gone      : SUBSET Repos,   \* tracked paths still to remove
              repo      : Repos \union {NoRepo},
              bh        : [branch : Branches \union {NoBranch}, sha : SHA],
              indexed   : SHA,            \* indexedSHA
              dirty     : DirtyLists,     \* in "scan": files not yet read
              built     : DeltaIndex \union {NoDelta}]

NoHead == [branch |-> NoBranch, sha |-> NoSHA]

IdlePoller == [pc |-> "idle", discovers |-> FALSE, found |-> {}, gone |-> {},
               repo |-> NoRepo, bh |-> NoHead, indexed |-> NoSHA,
               dirty |-> Clean, built |-> NoDelta]

PollerType ==
    /\ lock \in [Repos -> Pollers \union {NoPoller}]
    /\ poll \in [Pollers -> PollState]
    /\ pathToSHA \in [Repos -> SHA]

\* The ticker starts with a discovery, after cmdServe has refreshed the map.
FreshPollers ==
    [p \in Pollers |->
        IF p = Ticker
        THEN [IdlePoller EXCEPT !.pc = "discover", !.discovers = TRUE]
        ELSE IdlePoller]

AllFree == [r \in Repos |-> NoPoller]

PollerInit == lock = AllFree /\ poll = FreshPollers

\* p executes the statement pc of its poll of r.
Polls(p, pc, r) == poll[p].pc = pc /\ poll[p].repo = r

Step(p, state) == poll' = [poll EXCEPT ![p] = state]

GotoPoll(p, pc) == Step(p, [poll[p] EXCEPT !.pc = pc]) /\ UNCHANGED lock

\* Return from pollRepo of r: unlock, and on to the next repo of the list.
Return(p, r) ==
    /\ lock' = [lock EXCEPT ![r] = NoPoller]
    /\ Step(p, [IdlePoller EXCEPT !.pc = "next",
                                  !.discovers = poll[p].discovers,
                                  !.found = poll[p].found])

-----------------------------------------------------------------------------
(***************************************************************************)
(* Run, discoverAndPoll and pollAll.                                       *)
(***************************************************************************)
PollAll ==
    /\ poll[Ticker].pc = "idle"
    /\ Step(Ticker, [IdlePoller EXCEPT !.pc = "next", !.found = Paths(repos)])
    /\ UNCHANGED <<repos, jobVars, lock>>

StartDiscovery(p) ==
    /\ p \in {Ticker} \union Rescans
    /\ poll[p].pc = "idle"
    /\ Step(p, [IdlePoller EXCEPT !.pc = "discover", !.discovers = TRUE])
    /\ UNCHANGED <<repos, jobVars, lock>>

Discover(p, found) ==
    /\ poll[p].pc = "discover"
    /\ Step(p, [poll[p] EXCEPT !.pc = "paths", !.found = found])
    /\ UNCHANGED <<repos, jobVars, lock>>

DiscoveryFails(p) ==
    /\ poll[p].pc = "discover"
    /\ Step(p, IdlePoller)
    /\ UNCHANGED <<repos, jobVars, lock>>

\* Mutant: what was tracked and not found is left in the table.
TrackedPathsKept(p) ==
    /\ poll[p].pc = "paths"
    /\ Step(p, [poll[p] EXCEPT !.pc = "next"])
    /\ UNCHANGED <<repos, jobVars, lock>>

TrackedPaths(p) ==
    LET gone == Paths(repos) \ poll[p].found
    IN  /\ poll[p].pc = "paths"
        /\ Step(p, [poll[p] EXCEPT !.pc = IF gone = {} THEN "next" ELSE "remove",
                                   !.gone = gone])
        /\ UNCHANGED <<repos, jobVars, lock>>

RemoveGone(p, r) ==
    /\ poll[p].pc = "remove"
    /\ r \in poll[p].gone
    /\ repos' = Remove(repos, r)
    /\ Step(p, [poll[p] EXCEPT
                   !.pc = IF poll[p].gone = {r} THEN "next" ELSE "remove",
                   !.gone = @ \ {r}])
    /\ UNCHANGED <<jobVars, lock>>

NextRepo(p, r) ==
    /\ poll[p].pc = "next"
    /\ r \in poll[p].found
    /\ Step(p, [poll[p] EXCEPT !.pc = "lock", !.repo = r, !.found = @ \ {r}])
    /\ UNCHANGED <<repos, jobVars, lock>>

EndOfList(p) ==
    /\ poll[p].pc = "next"
    /\ poll[p].found = {}
    /\ Step(p, [IdlePoller EXCEPT !.pc = IF poll[p].discovers
                                         THEN "sync" ELSE "idle"])
    /\ UNCHANGED <<repos, jobVars, lock>>

-----------------------------------------------------------------------------
(***************************************************************************)
(* pollRepo.                                                               *)
(***************************************************************************)
\* Mutant: pollRepo without the repo's lock.
LockShared(p, r) ==
    /\ Polls(p, "lock", r)
    /\ lock' = [lock EXCEPT ![r] = p]
    /\ Step(p, [poll[p] EXCEPT !.pc = "branch"])
    /\ UNCHANGED <<repos, jobVars>>

Lock(p, r) ==
    /\ Polls(p, "lock", r)
    /\ lock[r] = NoPoller
    /\ lock' = [lock EXCEPT ![r] = p]
    /\ Step(p, [poll[p] EXCEPT !.pc = "branch"])
    /\ UNCHANGED <<repos, jobVars>>

\* GetBranchAndHead is two questions; an error of the second one is taken to
\* mean that there is no commit yet.
PollBranch(p, r, b) ==
    /\ Polls(p, "branch", r)
    /\ Step(p, [poll[p] EXCEPT !.pc = "head", !.bh.branch = b])
    /\ UNCHANGED <<repos, jobVars, lock>>

PollHead(p, r, sha) ==
    /\ Polls(p, "head", r)
    /\ Step(p, [poll[p] EXCEPT !.pc = "status", !.bh.sha = sha])
    /\ UNCHANGED <<repos, jobVars, lock>>

PollStatus(p, r, dirty) ==
    /\ Polls(p, "status", r)
    /\ Step(p, [poll[p] EXCEPT !.pc = "update", !.dirty = dirty])
    /\ UNCHANGED <<repos, jobVars, lock>>

\* symbolic-ref and its fallback fail, or git status does.
PollFails(p, r) ==
    /\ Polls(p, "branch", r) \/ Polls(p, "status", r)
    /\ Return(p, r)
    /\ UNCHANGED <<repos, jobVars>>

\* The branch of the last if statement: what happens to the delta of a repo
\* that needs no reindex.
RebuildDelta(p, r, dirtyChanged) ==
    IF poll[p].dirty = Clean
    THEN GotoPoll(p, "clear")
    ELSE IF dirtyChanged
    THEN /\ Step(p, [poll[p] EXCEPT !.pc = "scan", !.built = EmptyDelta])
         /\ UNCHANGED lock
    ELSE Return(p, r)

UpdateTable(p, r) ==
    LET change == StateChange(repos, r, poll[p].bh, poll[p].dirty)
        isNew  == change.branchChanged /\ change.oldBranch = NoBranch
    IN  /\ Polls(p, "update", r)
        /\ repos' = Update(repos, r, poll[p].bh, poll[p].dirty)
        /\ IF isNew THEN GotoPoll(p, "shard")
           ELSE IF change.branchChanged \/ change.headChanged
           THEN GotoPoll(p, "stale")
           ELSE RebuildDelta(p, r, change.dirtyChanged)
        /\ UNCHANGED jobVars

\* A new repo: does zoekt have a shard of its HEAD, of another commit, or none?
LookUpShard(p, r) ==
    LET sha == pathToSHA[r]
    IN  /\ Polls(p, "shard", r)
        /\ Step(p, [poll[p] EXCEPT
                       !.pc = IF sha = poll[p].bh.sha THEN "current"
                              ELSE IF sha # NoSHA THEN "outdated"
                              ELSE "stale",
                       !.indexed = sha])
        /\ UNCHANGED <<repos, jobVars, lock>>

RecordShard(p, r) ==
    /\ repos' = SetIndexed(repos, r, poll[p].indexed)
    /\ \/ Polls(p, "current", r) /\ GotoPoll(p, "settle")
       \/ Polls(p, "outdated", r) /\ GotoPoll(p, "stale")
    /\ UNCHANGED jobVars

SettleNew(p, r) ==
    /\ Polls(p, "settle", r)
    /\ repos' = SetStatus(repos, r, "idle")
    /\ RebuildDelta(p, r, TRUE)
    /\ UNCHANGED jobVars

PollFile(p, r, f, content) ==
    /\ Polls(p, "scan", r)
    /\ f \in DOMAIN poll[p].dirty
    /\ LET rest == DOMAIN poll[p].dirty \ {f}
       IN  Step(p, [poll[p] EXCEPT
              !.pc = IF rest = {} THEN "delta" ELSE "scan",
              !.dirty = [g \in rest |-> @[g]],
              !.built = AddFile(@, f, poll[p].dirty[f], content)])
    /\ UNCHANGED <<repos, jobVars, lock>>

DeltaExceedsThreshold(delta) ==
    \/ Cardinality(delta.dirtyPaths) > MaxDirtyFiles
    \/ Cardinality(IndexedFiles(delta)) > MaxDeltaBytes

PublishPolled(p, r) ==
    /\ Polls(p, "delta", r)
    /\ repos' = SetDelta(repos, r, poll[p].built)
    /\ IF DeltaExceedsThreshold(poll[p].built)
       THEN GotoPoll(p, "stale")
       ELSE Return(p, r)
    /\ UNCHANGED jobVars

ClearDelta(p, r) ==
    /\ Polls(p, "clear", r)
    /\ repos' = SetDelta(repos, r, NoDelta)
    /\ Return(p, r)
    /\ UNCHANGED jobVars

MarkStale(p, r) ==
    /\ Polls(p, "stale", r)
    /\ repos' = SetStatus(repos, r, "stale")
    /\ GotoPoll(p, IF GapMode = "blackout" THEN "drop" ELSE "trigger")
    /\ UNCHANGED jobVars

DropDelta(p, r) ==
    /\ Polls(p, "drop", r)
    /\ repos' = SetDelta(repos, r, NoDelta)
    /\ GotoPoll(p, "trigger")
    /\ UNCHANGED jobVars

PollTriggers(p, r) ==
    /\ Polls(p, "trigger", r)
    /\ Trigger(p, r)
    /\ IF r \in busy THEN Return(p, r) ELSE GotoPoll(p, "spawn")
    /\ UNCHANGED repos

PollSpawns(p, r) ==
    /\ Polls(p, "spawn", r)
    /\ Spawn(p)
    /\ Return(p, r)
=============================================================================
