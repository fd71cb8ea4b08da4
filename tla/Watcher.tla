------------------------------- MODULE Watcher -------------------------------
(***************************************************************************)
(* internal/rapid/watcher.go: file events become polls of the repo they    *)
(* happened in.  An event may come from any file below a watched repo, an  *)
(* ignored one included, so one is possible at any time.                   *)
(***************************************************************************)
EXTENDS Poller

VARIABLES
    watched, \* w.repoDirs
    pending  \* repos with an event that has not been flushed

watchVars == <<watched, pending>>

WatcherType ==
    /\ watched \subseteq Repos
    /\ pending \subseteq Repos

WatcherInit == watched = {} /\ pending = {}

\* The end of discoverAndPoll.
Sync(p) ==
    /\ poll[p].pc = "sync"
    /\ watched' = Paths(repos)
    /\ Step(p, IdlePoller)
    /\ UNCHANGED <<repos, jobVars, lock, pending>>

Event(r) ==
    /\ r \in watched
    /\ pending' = pending \union {r}
    /\ UNCHANGED <<repos, jobVars, lock, poll, watched>>

\* The flush goroutine takes the repos whose debounce time is over.
Flush(p, ready) ==
    /\ poll[p].pc = "idle"
    /\ ready # {} /\ ready \subseteq pending
    /\ pending' = pending \ ready
    /\ Step(p, [IdlePoller EXCEPT !.pc = "next", !.found = ready])
    /\ UNCHANGED <<repos, jobVars, lock, watched>>
=============================================================================
