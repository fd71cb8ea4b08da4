--------------------------- MODULE ReindexManager ---------------------------
(***************************************************************************)
(* internal/rapid/reindex.go: the jobs that run zoekt-git-index.           *)
(*                                                                         *)
(* A caller of TriggerReindex (the poller, the watcher's flush goroutine,  *)
(* the scheduler, an HTTP handler) claims a repo under rm.mu and, after    *)
(* unlocking, adds to the wait group and starts a goroutine; a repo that   *)
(* is already claimed is dropped.  The goroutine, here a worker, takes one *)
(* of MaxConcurrentReindex slots and runs the job.  A worker's pc names    *)
(* the statement of reindex() it is about to execute; the deferred calls   *)
(* are the pcs "release", "unmark" and "done", in the order Go runs them.  *)
(*                                                                         *)
(* What git and the file system answer is a parameter of the actions, so   *)
(* that a module with a model of them can supply it.  Spec, below, lets    *)
(* them answer anything.                                                   *)
(***************************************************************************)
EXTENDS StateTable

CONSTANTS
    Callers,              \* goroutines that call TriggerReindex
    Workers,              \* goroutines that can run reindex() at one time
    MaxConcurrentReindex, \* capacity of rm.sem
    Heads,                \* commits git may answer for HEAD (NoSHA: none yet)
    NoRepo                \* "no repo"

ASSUME SlotAssumption == MaxConcurrentReindex \in Nat \ {0}
ASSUME WorkerAssumption == IsFiniteSet(Workers)
ASSUME HeadAssumption == Heads \subseteq SHA
ASSUME NoRepoAssumption == NoRepo \notin Repos

VARIABLES
    repos,   \* the state table
    busy,    \* rm.busy
    sem,     \* occupied slots of rm.sem
    wg,      \* the counter of rm.wg
    claimed, \* per caller: the repo it has put in busy and not yet spawned
    sweep,   \* per caller: the repos its ReindexAll has still to trigger
    worker,  \* per worker: its pc and the locals of reindex()
    main     \* cmdServe: where the main goroutine is

jobVars == <<busy, sem, wg, claimed, worker>>
vars    == <<repos, busy, sem, wg, claimed, sweep, worker, main>>

InSlot  == {"mark", "index", "fail", "head", "record", "settle", "status",
            "scan", "delta", "refresh", "swap", "release"}
WorkerPC == {"idle", "acquire", "unmark", "done"} \union InSlot
MainPC  == {"serving", "waiting", "returned", "exited"}

\* The fields of a worker are set when reindex() assigns the local they stand
\* for and reset when it no longer uses it.
WorkerState == [pc    : WorkerPC,
                repo  : Repos \union {NoRepo},
                sha   : SHA,                       \* bh.SHA
                todo  : DirtyLists,                \* dirty files not yet read
                built : DeltaIndex \union {NoDelta}]

IdleWorker == [pc |-> "idle", repo |-> NoRepo, sha |-> NoSHA,
               todo |-> Clean, built |-> NoDelta]

At(w, pc) == worker[w].pc = pc

Live == {w \in Workers : worker[w].pc # "idle"}

JobsInit ==
    /\ busy = {}
    /\ sem = 0
    /\ wg = 0
    /\ claimed = [c \in Callers |-> NoRepo]
    /\ sweep = [c \in Callers |-> {}]
    /\ worker = [w \in Workers |-> IdleWorker]
    /\ main = "serving"

Init == repos = EmptyTable /\ JobsInit

-----------------------------------------------------------------------------
(***************************************************************************)
(* TriggerReindex.                                                         *)
(***************************************************************************)

\* Mutant: the claim is not looked at first.
TriggerUnchecked(c, r) ==
    /\ claimed[c] = NoRepo
    /\ busy' = busy \union {r}
    /\ claimed' = [claimed EXCEPT ![c] = r]
    /\ UNCHANGED <<sem, wg, worker>>

\* The critical section: claim the repo, or return because it is claimed.
Trigger(c, r) ==
    /\ claimed[c] = NoRepo
    /\ IF r \in busy
       THEN UNCHANGED <<busy, claimed>>
       ELSE /\ busy' = busy \union {r}
            /\ claimed' = [claimed EXCEPT ![c] = r]
    /\ UNCHANGED <<sem, wg, worker>>

\* Mutant: the wait group is not told of the new goroutine.
SpawnUncounted(c) ==
    /\ claimed[c] # NoRepo
    /\ \E w \in Workers :
          /\ At(w, "idle")
          /\ worker' = [worker EXCEPT ![w] =
                            [@ EXCEPT !.pc = "acquire", !.repo = claimed[c]]]
    /\ claimed' = [claimed EXCEPT ![c] = NoRepo]
    /\ UNCHANGED <<repos, busy, sem, wg, sweep, main>>

\* After the unlock: rm.wg.Add(1); go rm.reindex(repoPath).
Spawn(c) ==
    /\ claimed[c] # NoRepo
    /\ \E w \in Workers :
          /\ At(w, "idle")
          /\ worker' = [worker EXCEPT ![w] =
                            [@ EXCEPT !.pc = "acquire", !.repo = claimed[c]]]
    /\ wg' = wg + 1
    /\ claimed' = [claimed EXCEPT ![c] = NoRepo]
    /\ UNCHANGED <<repos, busy, sem, sweep, main>>

\* Mutant: the paths that are idle are left out.
StartAllStale(c) ==
    /\ sweep[c] = {} /\ claimed[c] = NoRepo
    /\ sweep' = [sweep EXCEPT ![c] = {r \in Paths(repos) : repos[r].status # "idle"}]
    /\ UNCHANGED <<repos, jobVars, main>>

\* ReindexAll, called by the scheduler and POST /api/reindex, takes a list of
\* the tracked paths and triggers each.
StartAll(c) ==
    /\ sweep[c] = {} /\ claimed[c] = NoRepo
    /\ sweep' = [sweep EXCEPT ![c] = Paths(repos)]
    /\ UNCHANGED <<repos, jobVars, main>>

\* POST /api/reindex/{repo} looks one path up and triggers it.
StartOne(c) ==
    /\ sweep[c] = {} /\ claimed[c] = NoRepo
    /\ \E r \in Paths(repos) : sweep' = [sweep EXCEPT ![c] = {r}]
    /\ UNCHANGED <<repos, jobVars, main>>

SweepStep(c) ==
    \E r \in sweep[c] :
        /\ Trigger(c, r)
        /\ sweep' = [sweep EXCEPT ![c] = @ \ {r}]
        /\ UNCHANGED <<repos, main>>

-----------------------------------------------------------------------------
(***************************************************************************)
(* reindex().                                                              *)
(***************************************************************************)

\* A step of w that only moves it from one statement to the next.
Goto(w, from, to) ==
    /\ At(w, from)
    /\ worker' = [worker EXCEPT ![w].pc = to]
    /\ UNCHANGED <<busy, sem, wg, claimed, sweep, main>>

\* Mutant: the job runs without a slot of its own.
AcquireNothing(w) ==
    /\ Goto(w, "acquire", "mark")
    /\ sem < MaxConcurrentReindex
    /\ UNCHANGED repos

Acquire(w) ==
    /\ At(w, "acquire")
    /\ sem < MaxConcurrentReindex
    /\ sem' = sem + 1
    /\ worker' = [worker EXCEPT ![w].pc = "mark"]
    /\ UNCHANGED <<repos, busy, wg, claimed, sweep, main>>

\* Mutant: the repo stops being busy when its run starts.
MarkIndexingUnclaims(w) ==
    /\ At(w, "mark")
    /\ worker' = [worker EXCEPT ![w].pc = "index"]
    /\ repos' = SetStatus(repos, worker[w].repo, "indexing")
    /\ busy' = busy \ {worker[w].repo}
    /\ UNCHANGED <<sem, wg, claimed, sweep, main>>

MarkIndexing(w) ==
    /\ Goto(w, "mark", "index")
    /\ repos' = SetStatus(repos, worker[w].repo, "indexing")

IndexSucceeds(w) ==
    /\ Goto(w, "index", "head")
    /\ UNCHANGED repos

\* Mutant: the error of runZoektGitIndex is ignored.
IndexFailureIgnored(w) ==
    /\ Goto(w, "index", "head")
    /\ UNCHANGED repos

\* A non-zero exit, or the five minutes are over and the process is killed.
IndexFails(w) ==
    /\ Goto(w, "index", "fail")
    /\ UNCHANGED repos

\* Mutants: the early return skips the deferred release; it leaves the status.
MarkErrorKeepsSlot(w) ==
    /\ Goto(w, "fail", "unmark")
    /\ repos' = SetStatus(repos, worker[w].repo, "error")

MarkErrorSilently(w) ==
    /\ Goto(w, "fail", "release")
    /\ UNCHANGED repos

MarkError(w) ==
    /\ Goto(w, "fail", "release")
    /\ repos' = SetStatus(repos, worker[w].repo, "error")

\* GetBranchAndHead answers, or fails and SetIndexed is skipped.
ReadHead(w, sha) ==
    /\ At(w, "head")
    /\ worker' = [worker EXCEPT ![w] = [@ EXCEPT !.pc = "record", !.sha = sha]]
    /\ UNCHANGED <<repos, busy, sem, wg, claimed, sweep, main>>

\* Mutant: the index is run again until git answers.
ReadHeadRetries(w) ==
    /\ Goto(w, "head", "index")
    /\ UNCHANGED repos

ReadHeadFails(w) ==
    /\ Goto(w, "head", "settle")
    /\ UNCHANGED repos

RecordIndexed(w) ==
    /\ At(w, "record")
    /\ repos' = SetIndexed(repos, worker[w].repo, worker[w].sha)
    /\ worker' = [worker EXCEPT ![w] =
                      [@ EXCEPT !.pc = "settle", !.sha = NoSHA]]
    /\ UNCHANGED <<busy, sem, wg, claimed, sweep, main>>

MarkIdle(w) ==
    /\ Goto(w, "settle", "status")
    /\ repos' = SetStatus(repos, worker[w].repo, "idle")

\* GetDirtyFiles answers, or fails and the delta is left alone.
ReadStatus(w, dirty) ==
    /\ At(w, "status")
    /\ worker' = [worker EXCEPT ![w] =
           IF dirty = Clean
           THEN [@ EXCEPT !.pc = "delta"]
           ELSE [@ EXCEPT !.pc = "scan", !.todo = dirty, !.built = EmptyDelta]]
    /\ UNCHANGED <<repos, busy, sem, wg, claimed, sweep, main>>

ReadStatusFails(w) ==
    /\ Goto(w, "status", "refresh")
    /\ UNCHANGED repos

\* BuildDeltaIndex reads one of the dirty files.
ReadFile(w, f, content) ==
    /\ At(w, "scan")
    /\ f \in DOMAIN worker[w].todo
    /\ LET job  == worker[w]
           rest == DOMAIN job.todo \ {f}
       IN  worker' = [worker EXCEPT ![w] =
             [job EXCEPT
                !.pc = IF rest = {} THEN "delta" ELSE "scan",
                !.todo = [g \in rest |-> job.todo[g]],
                !.built = AddFile(job.built, f, job.todo[f], content)]]
    /\ UNCHANGED <<repos, busy, sem, wg, claimed, sweep, main>>

\* Mutant: the delta that was built is not published.
PublishDeltaForgotten(w) ==
    /\ At(w, "delta")
    /\ worker' = [worker EXCEPT ![w] =
                      [@ EXCEPT !.pc = "refresh", !.built = NoDelta]]
    /\ UNCHANGED <<repos, busy, sem, wg, claimed, sweep, main>>

PublishDelta(w) ==
    /\ At(w, "delta")
    /\ repos' = SetDelta(repos, worker[w].repo, worker[w].built)
    /\ worker' = [worker EXCEPT ![w] =
                      [@ EXCEPT !.pc = "refresh", !.built = NoDelta]]
    /\ UNCHANGED <<busy, sem, wg, claimed, sweep, main>>

\* RefreshRepoMap: the answer of zoekt's /api/list, then the swap of the maps
\* (state of the search proxy), or a return because the request failed.
RefreshFetch(w) == Goto(w, "refresh", "swap") /\ UNCHANGED repos
RefreshFails(w) == Goto(w, "refresh", "release") /\ UNCHANGED repos
RefreshSwap(w)  == Goto(w, "swap", "release") /\ UNCHANGED repos

Release(w) ==
    /\ At(w, "release")
    /\ sem' = sem - 1
    /\ worker' = [worker EXCEPT ![w].pc = "unmark"]
    /\ UNCHANGED <<repos, busy, wg, claimed, sweep, main>>

\* Mutant: the repo is left in the inflight map.
UnmarkForgotten(w) ==
    /\ At(w, "unmark")
    /\ worker' = [worker EXCEPT ![w].pc = "done"]
    /\ UNCHANGED <<repos, busy, sem, wg, claimed, sweep, main>>

Unmark(w) ==
    /\ At(w, "unmark")
    /\ busy' = busy \ {worker[w].repo}
    /\ worker' = [worker EXCEPT ![w].pc = "done"]
    /\ UNCHANGED <<repos, sem, wg, claimed, sweep, main>>

Done(w) ==
    /\ At(w, "done")
    /\ wg' = wg - 1
    /\ worker' = [worker EXCEPT ![w] = IdleWorker]
    /\ UNCHANGED <<repos, busy, sem, claimed, sweep, main>>

-----------------------------------------------------------------------------
(***************************************************************************)
(* The end of cmdServe.  Nothing stops the goroutines that trigger jobs    *)
(* before the process itself ends.                                         *)
(***************************************************************************)
Shutdown ==
    /\ main = "serving"
    /\ main' = "waiting"
    /\ UNCHANGED <<repos, jobVars, sweep>>

WaitReturns ==
    /\ main = "waiting"
    /\ wg = 0
    /\ main' = "returned"
    /\ UNCHANGED <<repos, jobVars, sweep>>

Exit ==
    /\ main = "returned"
    /\ main' = "exited"
    /\ UNCHANGED <<repos, jobVars, sweep>>

-----------------------------------------------------------------------------
(***************************************************************************)
(* The poller, seen from here: it calls TriggerReindex, and writes to the  *)
(* table whatever a poll and a discovery can write, at any time.           *)
(***************************************************************************)
BranchHeads == [branch : Branches, sha : Heads]

PollerTriggers(c) ==
    \E r \in Repos : Trigger(c, r) /\ sweep[c] = {}
                  /\ UNCHANGED <<repos, sweep, main>>

PollerWrites ==
    /\ \E r \in Repos :
          \/ \E bh \in BranchHeads, dirty \in DirtyLists :
                repos' = Update(repos, r, bh, dirty)
          \/ repos' = Remove(repos, r)
          \/ \E status \in {"idle", "stale"} :
                repos' = SetStatus(repos, r, status)
          \/ \E sha \in Heads : repos' = SetIndexed(repos, r, sha)
          \/ \E delta \in {NoDelta} \union
                          {d \in DeltaIndex : d.dirtyPaths # {}} :
                repos' = SetDelta(repos, r, delta)
    /\ UNCHANGED <<jobVars, sweep, main>>

CallerStep(c) ==
    \/ PollerTriggers(c)
    \/ Spawn(c)
    \/ StartAll(c)
    \/ StartOne(c)
    \/ SweepStep(c)

\* The job's steps after the slot is taken, and its way out.
JobStep(w) ==
    \/ MarkIndexing(w)
    \/ IndexSucceeds(w)
    \/ IndexFails(w)
    \/ MarkError(w)
    \/ \E sha \in Heads : ReadHead(w, sha)
    \/ ReadHeadFails(w)
    \/ RecordIndexed(w)
    \/ MarkIdle(w)
    \/ \E dirty \in DirtyLists : ReadStatus(w, dirty)
    \/ ReadStatusFails(w)
    \/ \E f \in Files, content \in Contents \union {Absent} :
          ReadFile(w, f, content)
    \/ PublishDelta(w)
    \/ RefreshFetch(w)
    \/ RefreshFails(w)
    \/ RefreshSwap(w)
    \/ Release(w)
    \/ Unmark(w)
    \/ Done(w)

MainStep == Shutdown \/ WaitReturns \/ Exit

Terminated == main = "exited" /\ UNCHANGED vars

ManagerNext ==
    \/ \E c \in Callers : CallerStep(c)
    \/ \E w \in Workers : Acquire(w) \/ JobStep(w)
    \/ MainStep

Next ==
    \/ main # "exited" /\ (ManagerNext \/ PollerWrites)
    \/ Terminated

Spec == Init /\ [][Next]_vars

\* Each goroutine runs on: git and zoekt-git-index are called with a timeout
\* and zoekt is assumed to answer /api/list.  A blocked send on rm.sem is
\* served in FIFO order, hence strong fairness.  Spawn is strongly fair because
\* it waits for a member of Workers, where Go always makes a new goroutine.
\* The process does not exit.
Fairness ==
    /\ \A w \in Workers : WF_vars(main # "exited" /\ JobStep(w))
    /\ \A w \in Workers : SF_vars(main # "exited" /\ Acquire(w))
    /\ \A c \in Callers : SF_vars(main # "exited" /\ Spawn(c))

FairSpec == Spec /\ Fairness

-----------------------------------------------------------------------------
(***************************************************************************)
(* Properties.                                                             *)
(***************************************************************************)
TypeOK ==
    /\ repos \in Table
    /\ busy \subseteq Repos
    /\ sem \in Nat
    /\ wg \in Nat
    /\ claimed \in [Callers -> Repos \union {NoRepo}]
    /\ sweep \in [Callers -> SUBSET Repos]
    /\ worker \in [Workers -> WorkerState]
    /\ main \in MainPC

Holders == {w \in Workers : worker[w].pc \in InSlot}

\* rm.sem bounds the jobs: its count is that of the goroutines between their
\* send and their receive, whichever way they leave reindex(), and no more
\* than MaxConcurrentReindex of them run zoekt-git-index.
SlotBound ==
    /\ sem = Cardinality(Holders)
    /\ sem <= MaxConcurrentReindex

\* The callers and workers that are responsible for taking r out of rm.busy.
Claimants(r) == {c \in Callers : claimed[c] = r}
Jobs(r)      == {w \in Live : worker[w].repo = r /\ ~At(w, "done")}

\* rm.busy is exact: a busy repo has one owner, the caller that claimed it or
\* the one worker that will unmark it, so that two index runs of a repo never
\* overlap and a repo is never left busy with nobody to release it.
BusyIsOwned ==
    \A r \in Repos :
        /\ r \in busy <=> Claimants(r) \union Jobs(r) # {}
        /\ \A c \in Claimants(r) : Claimants(r) = {c} /\ Jobs(r) = {}
        /\ \A w \in Jobs(r) : Jobs(r) = {w}

\* A repo that shows "indexing" has a job at work that will give it another
\* status, whatever the poller wrote, removed or added in the meantime: no
\* repo is left showing "indexing".
IndexingHasJob ==
    \A r \in Paths(repos) :
        repos[r].status = "indexing" =>
            \E w \in Jobs(r) :
                worker[w].pc \in {"index", "fail", "head", "record", "settle"}

\* rm.wg counts the goroutines from before they run until their last deferred
\* call, so that Wait does not return with a job between its start and its
\* end; a goroutine is counted before its first statement.
WaitCoversJobs ==
    /\ wg = Cardinality(Live)
    /\ wg = 0 => sem = 0

\* What a caller is promised (ReindexQueue).
Phase(r) ==
    IF r \notin busy THEN "none"
    ELSE IF \E w \in Jobs(r) : w \in Holders THEN "running"
    ELSE IF \E w \in Jobs(r) : At(w, "unmark") THEN "leaving"
    ELSE "queued"

Queue == INSTANCE ReindexQueue
             WITH Slots <- MaxConcurrentReindex,
                  phase <- [r \in Repos |-> Phase(r)],
                  up <- main # "exited"

\* Every step of callers and workers is a step of the queue or leaves it alone:
\* a repo is not started twice for one request, not skipped, and leaves the
\* queue only after its run.
ImplementsQueue == Queue!Safety

\* A request is served: the queue's fairness follows from the goroutines', so
\* that every claimed repo is indexed and becomes free for the next request.
ServesQueue == Queue!Spec
=============================================================================
