---------------------------- MODULE ReindexQueue ----------------------------
(***************************************************************************)
(* What the reindex manager promises its callers, without goroutines,      *)
(* locks or counters: a request for a repo is queued unless the repo is    *)
(* already in the queue, at most Slots repos are indexed at one time, and  *)
(* every queued repo is indexed and leaves the queue while the process is  *)
(* up.                                                                     *)
(***************************************************************************)
EXTENDS Naturals, FiniteSets

CONSTANTS Repos, Slots

VARIABLES
    phase, \* per repo: "none", "queued", "running" or "leaving"
    up     \* the process has not ended

vars == <<phase, up>>

Phase == {"none", "queued", "running", "leaving"}

Running == {r \in Repos : phase[r] = "running"}

Init ==
    /\ phase = [r \in Repos |-> "none"]
    /\ up = TRUE

Move(r, from, to) ==
    /\ up
    /\ phase[r] = from
    /\ phase' = [phase EXCEPT ![r] = to]
    /\ UNCHANGED up

Request(r) == Move(r, "none", "queued")
Start(r)   == Cardinality(Running) < Slots /\ Move(r, "queued", "running")
Finish(r)  == Move(r, "running", "leaving")
Leave(r)   == Move(r, "leaving", "none")

Stop ==
    /\ up
    /\ up' = FALSE
    /\ UNCHANGED phase

Next ==
    \/ \E r \in Repos : Request(r) \/ Start(r) \/ Finish(r) \/ Leave(r)
    \/ Stop

Fairness ==
    \A r \in Repos : /\ SF_vars(Start(r))
                     /\ WF_vars(Finish(r))
                     /\ WF_vars(Leave(r))

Safety == Init /\ [][Next]_vars
Spec   == Safety /\ Fairness
=============================================================================
