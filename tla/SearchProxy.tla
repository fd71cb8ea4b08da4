---------------------------- MODULE SearchProxy ----------------------------
(***************************************************************************)
(* SearchProxy.Search of internal/rapid/proxy.go, called by the handler of *)
(* POST /api/search: it asks zoekt, takes the maps of repo names, takes a  *)
(* snapshot of the state table and merges, with polls, reindexes and       *)
(* refreshes of the maps going on between these steps.                     *)
(***************************************************************************)
EXTENDS Vanzelf

CONSTANT Searchers \* goroutines of POST /api/search

VARIABLE search \* per searcher: its pc and locals

SearchState == [pc     : {"idle", "asked", "mapped"},
                answer : [Repos -> SHA],  \* the shards zoekt answered from
                known  : SUBSET Repos]    \* the paths in nameToPath

NoSearch == [pc |-> "idle", answer |-> EmptyMap, known |-> {}]

SearchInit == SystemInit /\ search = [s \in Searchers |-> NoSearch]

SearchFrame == UNCHANGED allVars

\* queryZoektRaw.  A search that fails here ends with an error page.
Ask(s) ==
    /\ search[s].pc = "idle"
    /\ search' = [search EXCEPT ![s] = [@ EXCEPT !.pc = "asked",
                                                 !.answer = shard]]
    /\ SearchFrame

ReadMaps(s) ==
    /\ search[s].pc = "asked"
    /\ search' = [search EXCEPT ![s] = [@ EXCEPT !.pc = "mapped",
                                                 !.known = KnownRepos]]
    /\ SearchFrame

\* The answer is merged with one snapshot of the table, state.All().
Merge(s) ==
    /\ search[s].pc = "mapped"
    /\ search' = [search EXCEPT ![s] = NoSearch]
    /\ SearchFrame

SearchNext ==
    \/ SystemNext /\ UNCHANGED search
    \/ \E s \in Searchers : Ask(s) \/ ReadMaps(s) \/ Merge(s)

SearchSpec == SearchInit /\ [][SearchNext]_<<allVars, search>>

-----------------------------------------------------------------------------
(***************************************************************************)
(* Properties.                                                             *)
(***************************************************************************)
SearchType == SystemType /\ search \in [Searchers -> SearchState]

\* No file of a repo that the map knows is shown twice, as the index has it
\* and as the delta has it, whatever was polled, published or swapped since
\* zoekt was asked.
FilesAreShownOnce ==
    \A s \in Searchers : search[s].pc = "mapped" =>
        \A r \in search[s].known :
            FromZoekt(search[s].answer, search[s].known, repos, r)
                \intersect FromDelta(repos, r) = {}
=============================================================================
