---------------------------- MODULE WatchedDirs ----------------------------
(***************************************************************************)
(* internal/rapid/watcher.go at the level of directories: Sync follows the *)
(* table with one file system watch per directory, the event loop finds    *)
(* the repo of each event and moves its deadline, and the flush goroutine  *)
(* polls the repos whose deadline has passed.  Module Watcher is the same  *)
(* component as the rest of the program sees it, per repo.                 *)
(*                                                                         *)
(* The user's directories and the watches the file system keeps for the    *)
(* program are external.  An event is named by the directory that was      *)
(* created or removed, or holds the file that changed.  The walk of the    *)
(* roots and that of one repo's tree are each one step.                    *)
(***************************************************************************)
EXTENDS Discovery, FiniteSets

CONSTANTS
    AllDirs,    \* the directories that may exist
    SkipDirs,   \* config WatchSkipDirs: names that are not watched
    Debounce,   \* the debounce time, in ticks of the flush goroutine
    NoDeadline, \* "not in pending"
    MaxChanges  \* bound: what the user does

ASSUME WatchedDirsAssumption ==
    /\ Roots \subseteq AllDirs
    /\ AllDirs \subseteq Seq(UNION {Range(d) : d \in AllDirs})
    /\ \A root \in Roots, d \in AllDirs : \* and those on the way from a root
          IsPrefix(root, d) => \A n \in Len(root)..Len(d) : SubSeq(d, 1, n) \in AllDirs
    /\ Debounce \in Nat
    /\ NoDeadline \notin Nat
    /\ MaxChanges \in Nat

VARIABLES
    dirs,     \* the directories on disk
    gits,     \* those with a .git directory
    changes,  \* what the user did so far
    tracked,  \* the paths of the state table
    sync,     \* the goroutine in discoverAndPoll: its pc and locals
    repoDirs, \* w.repoDirs
    watches,  \* the watch list of w.watcher
    events,   \* events not yet received from w.watcher.Events
    pending,  \* per repo: ticks until its deadline
    ready,    \* the flush goroutine: repos still to poll
    polling,  \* the flush goroutine: the repo it is polling, if any
    unpolled  \* history: <<d, r>> if a watch saw a change at d, in r, and the
              \* flush goroutine has begun no poll of r since

treeVars  == <<dirs, gits, changes>>
syncVars  == <<tracked, sync, repoDirs>>
flushVars == <<pending, ready, polling>>
watchVars == <<treeVars, syncVars, watches, events, flushVars, unpolled>>

Deadline == 0..Debounce \union {NoDeadline}

SyncState == [pc : {"idle", "poll", "add", "remove"},
              found   : SUBSET AllDirs, \* repos still to poll
              current : SUBSET AllDirs,
              todo    : SUBSET AllDirs] \* repos still to remove, add, remove

NoSync == [pc |-> "idle", found |-> {}, current |-> {}, todo |-> {}]

WatchType ==
    /\ dirs \subseteq AllDirs
    /\ gits \subseteq dirs
    /\ changes \in 0..MaxChanges
    /\ tracked \subseteq AllDirs
    /\ sync \in SyncState
    /\ repoDirs \subseteq AllDirs
    /\ watches \subseteq dirs
    /\ events \subseteq AllDirs
    /\ pending \in [AllDirs -> Deadline]
    /\ ready \subseteq AllDirs
    /\ polling \subseteq AllDirs /\ Cardinality(polling) <= 1
    /\ unpolled \subseteq AllDirs \X AllDirs

IsTree(set) == \A d \in set, e \in AllDirs : IsPrefix(e, d) => e \in set

WatchInit ==
    /\ dirs \in {set \in SUBSET AllDirs : IsTree(set)}
    /\ gits \in SUBSET dirs
    /\ changes = 0
    /\ tracked = {} /\ repoDirs = {} /\ sync = NoSync
    /\ watches = {} /\ events = {}
    /\ pending = [d \in AllDirs |-> NoDeadline]
    /\ ready = {} /\ polling = {}
    /\ unpolled = {}

\* The managed repos that contain d, as repoForPath compares the paths.
Owners(d) == {r \in repoDirs : IsPrefix(r, d)}

-----------------------------------------------------------------------------
(***************************************************************************)
(* The user, and the events of the file system: a watch of a directory     *)
(* reports what happens to its entries, and ends with the directory.       *)
(***************************************************************************)
Notify(seen) ==
    /\ events' = events \union seen
    /\ unpolled' = unpolled \union {change \in seen \X AllDirs :
                                      IsPrefix(change[2], change[1])}
    /\ changes < MaxChanges
    /\ changes' = changes + 1
    /\ UNCHANGED <<syncVars, flushVars>>

Parents(d) == {e \in dirs : d \in Children(AllDirs, e)}

MakeDir(d) ==
    /\ d \notin dirs
    /\ IsTree(dirs \union {d})
    /\ dirs' = dirs \union {d}
    /\ Notify({e \in {d} : Parents(e) \intersect watches # {}})
    /\ UNCHANGED <<gits, watches>>

RemoveDir(d) ==
    /\ d \in dirs
    /\ dirs' = dirs \ Below(dirs, d)
    /\ gits' = gits \ Below(dirs, d)
    /\ watches' = watches \ Below(dirs, d)
    /\ Notify({e \in Below(dirs, d) : (Parents(e) \union {e}) \intersect watches # {}})

\* git init, or rm -rf of .git.  What git writes inside .git is not seen.
ToggleGit(d) ==
    /\ d \in dirs
    /\ gits' = IF d \in gits THEN gits \ {d} ELSE gits \union {d}
    /\ Notify({d} \intersect watches)
    /\ UNCHANGED <<dirs, watches>>

ChangeFile(d) ==
    /\ d \in watches
    /\ Notify({d})
    /\ UNCHANGED <<dirs, gits, watches>>

UserChanges ==
    \E d \in AllDirs :
        MakeDir(d) \/ RemoveDir(d) \/ ToggleGit(d) \/ ChangeFile(d)

-----------------------------------------------------------------------------
(***************************************************************************)
(* discoverAndPoll.  The flush goroutine may come in anywhere.             *)
(***************************************************************************)
Goto(pc, todo) == sync' = [sync EXCEPT !.pc = pc, !.todo = todo]

Walk ==
    /\ sync.pc = "idle"
    /\ LET found == DiscoverRepos(dirs, gits)
       IN  sync' = [sync EXCEPT !.pc = "poll", !.found = found,
                                !.todo = tracked \ found]
    /\ UNCHANGED <<treeVars, tracked, repoDirs, watches, events, flushVars,
                   unpolled>>

Forget(r) ==
    /\ sync.pc = "poll" /\ r \in sync.todo
    /\ tracked' = tracked \ {r}
    /\ Goto("poll", sync.todo \ {r})
    /\ UNCHANGED <<treeVars, repoDirs, watches, events, flushVars, unpolled>>

\* git -C r answers for the repo that r is or lies in.
InRepo(r) == r \in dirs /\ \E g \in gits : IsPrefix(g, r)

\* pollRepo, under the lock of r.  A poll that git fails leaves the table as
\* it is; any other ends with Update.  Nothing of this module changes between
\* git's answers and Update that the poll of discovery would see.
PollFound(r) ==
    /\ sync.pc = "poll" /\ sync.todo = {} /\ r \in sync.found \ polling
    /\ \/ InRepo(r) /\ tracked' = tracked \union {r}
       \/ UNCHANGED tracked
    /\ sync' = [sync EXCEPT !.found = @ \ {r}]
    /\ UNCHANGED <<treeVars, repoDirs, watches, events, flushVars, unpolled>>

-----------------------------------------------------------------------------
(***************************************************************************)
(* Sync, which holds w.mu from reading the table to the end.               *)
(***************************************************************************)
StartSync ==
    /\ sync.pc = "poll" /\ sync.todo = {} /\ sync.found = {}
    /\ sync' = [pc |-> "add", found |-> {}, current |-> tracked,
                todo |-> tracked \ repoDirs]
    /\ UNCHANGED <<treeVars, tracked, repoDirs, watches, events, flushVars,
                   unpolled>>

SyncHolds == sync.pc \in {"add", "remove"}

\* addRecursive: the walk neither watches nor enters a skipped directory.
Skipped(root, d) ==
    Range(SubSeq(d, Len(root), Len(d))) \intersect SkipDirs # {}

\* Mutant: the repo's own directory is taken for watched although it is gone.
AddRootUnchecked(r) ==
    /\ sync.pc = "add" /\ r \in sync.todo
    /\ watches' = watches \union {r}
                     \union {d \in Below(dirs, r) : ~Skipped(r, d)}
    /\ Goto(sync.pc, sync.todo \ {r})
    /\ UNCHANGED <<treeVars, tracked, repoDirs, events, flushVars, unpolled>>

AddRecursive(r) ==
    /\ sync.pc = "add" /\ r \in sync.todo
    /\ watches' = watches \union {d \in Below(dirs, r) : ~Skipped(r, d)}
    /\ Goto(sync.pc, sync.todo \ {r})
    /\ UNCHANGED <<treeVars, tracked, repoDirs, events, flushVars, unpolled>>

AllAdded ==
    /\ sync.pc = "add" /\ sync.todo = {}
    /\ Goto("remove", repoDirs \ sync.current)
    /\ UNCHANGED <<treeVars, tracked, repoDirs, watches, events, flushVars,
                   unpolled>>

\* Mutant: only the watch of the repo's own directory is removed.
RemoveRootOnly(r) ==
    /\ sync.pc = "remove" /\ r \in sync.todo
    /\ watches' = watches \ {r}
    /\ Goto(sync.pc, sync.todo \ {r})
    /\ UNCHANGED <<treeVars, tracked, repoDirs, events, flushVars, unpolled>>

RemoveRecursive(r) ==
    /\ sync.pc = "remove" /\ r \in sync.todo
    /\ watches' = watches \ Below(AllDirs, r)
    /\ Goto(sync.pc, sync.todo \ {r})
    /\ UNCHANGED <<treeVars, tracked, repoDirs, events, flushVars, unpolled>>

\* Changes in a repo that is not managed any more need no poll.
EndSync ==
    /\ sync.pc = "remove" /\ sync.todo = {}
    /\ repoDirs' = sync.current
    /\ sync' = NoSync
    /\ unpolled' = {change \in unpolled :
                       \A r \in repoDirs \ sync.current : ~IsPrefix(r, change[1])}
    /\ UNCHANGED <<treeVars, tracked, watches, events, flushVars>>

SyncStep ==
    \/ Walk \/ StartSync \/ AllAdded \/ EndSync
    \/ \E r \in AllDirs : \/ Forget(r) \/ PollFound(r)
                          \/ AddRecursive(r) \/ RemoveRecursive(r)

-----------------------------------------------------------------------------
(***************************************************************************)
(* The event loop and the flush goroutine of Run.                          *)
(***************************************************************************)

\* An event of two nested repos goes to the one the map's order yields first.
HandleEvent(e) ==
    /\ e \in events
    /\ ~SyncHolds
    /\ events' = events \ {e}
    /\ IF Owners(e) = {} THEN UNCHANGED pending
       ELSE \E r \in Owners(e) : pending' = [pending EXCEPT ![r] = Debounce]
    /\ UNCHANGED <<treeVars, syncVars, watches, ready, polling, unpolled>>

TimePasses ==
    /\ \E r \in AllDirs : pending[r] \notin {0, NoDeadline}
    /\ pending' = [r \in AllDirs |->
                      IF pending[r] \in {0, NoDeadline}
                      THEN pending[r] ELSE pending[r] - 1]
    /\ UNCHANGED <<treeVars, syncVars, watches, events, ready, polling, unpolled>>

Due == {r \in AllDirs : pending[r] = 0}

FlushTick ==
    /\ ready = {} /\ polling = {} /\ Due # {}
    /\ ready' = Due
    /\ pending' = [r \in AllDirs |-> IF r \in Due THEN NoDeadline ELSE pending[r]]
    /\ UNCHANGED <<treeVars, syncVars, watches, events, polling, unpolled>>

\* pollRepo locks r and asks git; it returns when git fails.
StartPoll(r) ==
    /\ r \in ready /\ polling = {}
    /\ ready' = ready \ {r}
    /\ \/ InRepo(r) /\ polling' = {r}
       \/ UNCHANGED polling
    /\ unpolled' = {change \in unpolled : change[2] # r}
    /\ UNCHANGED <<treeVars, syncVars, watches, events, pending>>


\* Update adds r to the table, also if discovery removed it since.
EndPoll(r) ==
    /\ r \in polling
    /\ polling' = {}
    /\ tracked' = tracked \union {r}
    /\ UNCHANGED <<treeVars, sync, repoDirs, watches, events, pending, ready,
                   unpolled>>

EventStep == \E e \in AllDirs : HandleEvent(e)
FlushStep == FlushTick \/ (\E r \in AllDirs : StartPoll(r) \/ EndPoll(r))

WatchNext == UserChanges \/ SyncStep \/ EventStep \/ TimePasses \/ FlushStep

WatchSpec == WatchInit /\ [][WatchNext]_watchVars

\* Goroutines run on, and time passes.
FairWatchSpec ==
    /\ WatchSpec
    /\ WF_watchVars(SyncStep)
    /\ SF_watchVars(EventStep)
    /\ WF_watchVars(TimePasses)
    /\ WF_watchVars(FlushStep)

-----------------------------------------------------------------------------
(***************************************************************************)
(* Properties.                                                             *)
(***************************************************************************)

\* The walk stops at a repo, at the depth limit and at nothing else: it finds
\* the outermost repo on each path below a root, unless it is excluded.
DiscoveryFindsOutermost ==
    DiscoverRepos(dirs, gits) =
        {d \in gits : /\ ~Excluded(d)
                      /\ \E root \in Roots :
                            /\ IsPrefix(root, d) /\ Depth(root, d) <= ScanDepth
                            /\ \A e \in gits \ {d} :
                                  ~(IsPrefix(root, e) /\ IsPrefix(e, d))}

\* Between two runs of Sync there is no watch outside of the managed repos:
\* repos that come and go leave no watches behind.
WatchesAreManaged == sync.pc = "idle" => \A d \in watches : Owners(d) # {}

=============================================================================
