----------------------------- MODULE MCVanzelf -----------------------------
(***************************************************************************)
(* Instances of Vanzelf for TLC.                                           *)
(***************************************************************************)
EXTENDS Vanzelf

CONSTANTS r1, w1, a, b, f1, main_branch, topic,
          ticker, flusher, rescan, scheduler, handler, refresher

OneRepo       == {r1}
OneFile       == {f1}
OneText       == {a}
Texts         == {a, b}
OneBranch     == {main_branch}
TwoBranches   == {main_branch, topic}
OneWorker     == {w1}
Commits       == 0..MaxCommits
Rescan        == {rescan}
Flusher       == {flusher}
Scheduler     == {scheduler}
Handler       == {handler}
Refresher     == {refresher}

\* Texts may be permuted, so that one first tree stands for all.
OneTree       == {[f \in Files |-> a]}
EmptyTree     == {[f \in Files |-> Absent]}

AllCallers    == {Ticker} \union Flushers \union Rescans \union Schedulers
                     \union Handlers
=============================================================================
