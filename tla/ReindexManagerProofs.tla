------------------------- MODULE ReindexManagerProofs -------------------------
(***************************************************************************)
(* Proofs about ReindexManager, for any repos, callers and files, any      *)
(* finite number of goroutines, any MaxConcurrentReindex and whatever git, *)
(* zoekt-git-index and the poller do.                                      *)
(*                                                                         *)
(* TypeOK is not inductive: sem - 1 and wg - 1 are natural numbers only    *)
(* because the counters are the numbers of goroutines between two          *)
(* statements, and what a job writes to the table is of its type only      *)
(* because the job has a repo and, while it reads files, a delta.  Shape   *)
(* and Counts say so.                                                      *)
(*                                                                         *)
(* A job takes most of its steps inside its slot.  Work(w) is what all of  *)
(* those have in common as far as counters and claims are concerned, so    *)
(* that an invariant about these has one case for them.                    *)
(***************************************************************************)
EXTENDS ReindexManager, FiniteSetTheorems, TLAPS

-----------------------------------------------------------------------------
(***************************************************************************)
(* The operators of StateTable: each method of state.go keeps the table a  *)
(* table, and BuildDeltaIndex keeps a delta a delta.                       *)
(***************************************************************************)
LEMMA TrackedRepo ==
    ASSUME NEW table \in Table, NEW r \in Repos, Tracked(table, r)
    PROVE  table[r] \in RepoState
BY DEF Table, Tracked

\* state.go:92
LEMMA SetStatusType ==
    ASSUME NEW table \in Table, NEW r \in Repos, NEW status \in Status
    PROVE  SetStatus(table, r, status) \in Table
<1>1. CASE Tracked(table, r)
  <2>1. table[r] \in RepoState
    BY <1>1, TrackedRepo
  <2>2. [table[r] EXCEPT !.status = status] \in RepoState
    BY <2>1 DEF RepoState
  <2>3. QED
    BY <1>1, <2>2 DEF SetStatus, Table
<1>2. CASE ~Tracked(table, r)
  BY <1>2 DEF SetStatus
<1>3. QED
  BY <1>1, <1>2

\* state.go:101
LEMMA SetIndexedType ==
    ASSUME NEW table \in Table, NEW r \in Repos, NEW sha \in SHA
    PROVE  SetIndexed(table, r, sha) \in Table
<1>1. CASE Tracked(table, r)
  <2>1. table[r] \in RepoState
    BY <1>1, TrackedRepo
  <2>2. [table[r] EXCEPT !.indexed = sha] \in RepoState
    BY <2>1 DEF RepoState
  <2>3. QED
    BY <1>1, <2>2 DEF SetIndexed, Table
<1>2. CASE ~Tracked(table, r)
  BY <1>2 DEF SetIndexed
<1>3. QED
  BY <1>1, <1>2

\* state.go:83
LEMMA SetDeltaType ==
    ASSUME NEW table \in Table, NEW r \in Repos,
           NEW delta \in DeltaIndex \union {NoDelta}
    PROVE  SetDelta(table, r, delta) \in Table
<1>1. CASE Tracked(table, r)
  <2>1. table[r] \in RepoState
    BY <1>1, TrackedRepo
  <2>2. [table[r] EXCEPT !.delta = delta] \in RepoState
    BY <2>1 DEF RepoState
  <2>3. QED
    BY <1>1, <2>2 DEF SetDelta, Table
<1>2. CASE ~Tracked(table, r)
  BY <1>2 DEF SetDelta
<1>3. QED
  BY <1>1, <1>2

\* state.go:162
LEMMA RemoveType ==
    ASSUME NEW table \in Table, NEW r \in Repos
    PROVE  Remove(table, r) \in Table
BY DEF Remove, Table

\* state.go:111
LEMMA UpdateType ==
    ASSUME NEW table \in Table, NEW r \in Repos,
           NEW bh \in [branch : Branches, sha : SHA], NEW dirty \in DirtyLists
    PROVE  Update(table, r, bh, dirty) \in Table
<1>1. CASE Tracked(table, r)
  <2>1. table[r] \in RepoState
    BY <1>1, TrackedRepo
  <2>2. [table[r] EXCEPT !.branch = bh.branch, !.head = bh.sha, !.dirty = dirty]
            \in RepoState
    BY <2>1 DEF RepoState
  <2>3. QED
    BY <1>1, <2>2 DEF Update, Table
<1>2. CASE ~Tracked(table, r)
  <2>1. NewRepoState(bh, dirty) \in RepoState
    BY DEF NewRepoState, RepoState, NoSHA, SHA, Status
  <2>2. QED
    BY <1>2, <2>1 DEF Update, Table
<1>3. QED
  BY <1>1, <1>2

\* A dirty list of which some files have been read is a dirty list.
LEMMA DirtyListRest ==
    ASSUME NEW dirty \in DirtyLists, NEW rest \in SUBSET DOMAIN dirty
    PROVE  [f \in rest |-> dirty[f]] \in DirtyLists
BY DEF DirtyLists

LEMMA CleanType == Clean \in DirtyLists
<1>1. Clean \in [{} -> FileStatus]
  BY DEF Clean
<1>2. QED
  BY <1>1 DEF DirtyLists

\* delta.go:42 and delta.go:50
LEMMA EmptyDeltaType == EmptyDelta \in DeltaIndex
BY DEF EmptyDelta, DeltaIndex

LEMMA AddFileType ==
    ASSUME NEW delta \in DeltaIndex, NEW f \in Files, NEW status,
           NEW content \in Contents \union {Absent}
    PROVE  AddFile(delta, f, status, content) \in DeltaIndex
BY DEF AddFile, DeltaIndex

-----------------------------------------------------------------------------
(***************************************************************************)
(* What each method leaves alone.  No setter makes an entry; Update does,  *)
(* or changes the one there is.                                            *)
(***************************************************************************)
LEMMA SetStatusFields ==
    ASSUME NEW table \in Table, NEW r \in Repos, NEW status,
           NEW q \in Repos, Tracked(SetStatus(table, r, status), q)
    PROVE  LET new == SetStatus(table, r, status)
           IN  /\ Tracked(table, q)
               /\ new[q].head = table[q].head
               /\ new[q].delta = table[q].delta
               /\ new[q].status = IF q = r THEN status ELSE table[q].status
<1>1. CASE Tracked(table, r)
  <2>1. table[r] \in RepoState
    BY <1>1, TrackedRepo
  <2>2. SetStatus(table, r, status)[q] =
            IF q = r THEN [table[r] EXCEPT !.status = status] ELSE table[q]
    BY <1>1 DEF SetStatus, Table
  <2>3. QED
    BY <1>1, <2>1, <2>2 DEF RepoState, Tracked
<1>2. CASE ~Tracked(table, r)
  BY <1>2 DEF SetStatus, Tracked
<1>3. QED
  BY <1>1, <1>2

LEMMA SetIndexedFields ==
    ASSUME NEW table \in Table, NEW r \in Repos, NEW sha,
           NEW q \in Repos, Tracked(SetIndexed(table, r, sha), q)
    PROVE  LET new == SetIndexed(table, r, sha)
           IN  /\ Tracked(table, q)
               /\ new[q].head = table[q].head
               /\ new[q].delta = table[q].delta
               /\ new[q].status = table[q].status
<1>1. CASE Tracked(table, r)
  <2>1. table[r] \in RepoState
    BY <1>1, TrackedRepo
  <2>2. SetIndexed(table, r, sha)[q] =
            IF q = r THEN [table[r] EXCEPT !.indexed = sha] ELSE table[q]
    BY <1>1 DEF SetIndexed, Table
  <2>3. QED
    BY <1>1, <2>1, <2>2 DEF RepoState, Tracked
<1>2. CASE ~Tracked(table, r)
  BY <1>2 DEF SetIndexed
<1>3. QED
  BY <1>1, <1>2

LEMMA SetDeltaFields ==
    ASSUME NEW table \in Table, NEW r \in Repos, NEW delta,
           NEW q \in Repos, Tracked(SetDelta(table, r, delta), q)
    PROVE  LET new == SetDelta(table, r, delta)
           IN  /\ Tracked(table, q)
               /\ new[q].head = table[q].head
               /\ new[q].delta = IF q = r THEN delta ELSE table[q].delta
               /\ new[q].status = table[q].status
<1>1. CASE Tracked(table, r)
  <2>1. table[r] \in RepoState
    BY <1>1, TrackedRepo
  <2>2. SetDelta(table, r, delta)[q] =
            IF q = r THEN [table[r] EXCEPT !.delta = delta] ELSE table[q]
    BY <1>1 DEF SetDelta, Table
  <2>3. QED
    BY <1>1, <2>1, <2>2 DEF RepoState, Tracked
<1>2. CASE ~Tracked(table, r)
  BY <1>2 DEF SetDelta, Tracked
<1>3. QED
  BY <1>1, <1>2

LEMMA RemoveFields ==
    ASSUME NEW table \in Table, NEW r \in Repos,
           NEW q \in Repos, Tracked(Remove(table, r), q)
    PROVE  q # r /\ Tracked(table, q) /\ Remove(table, r)[q] = table[q]
BY DEF Remove, Tracked, Table

LEMMA UpdateOthers ==
    ASSUME NEW table \in Table, NEW r \in Repos, NEW bh, NEW dirty,
           NEW q \in Repos \ {r}
    PROVE  Update(table, r, bh, dirty)[q] = table[q]
BY DEF Update, Table

LEMMA UpdateNewEntry ==
    ASSUME NEW table \in Table, NEW r \in Repos, NEW bh, NEW dirty,
           ~Tracked(table, r)
    PROVE  LET entry == Update(table, r, bh, dirty)[r]
           IN  /\ entry.head = bh.sha
               /\ entry.delta = NoDelta
               /\ entry.status = "stale"
BY DEF Update, NewRepoState, Table

LEMMA UpdateOldEntry ==
    ASSUME NEW table \in Table, NEW r \in Repos, NEW bh, NEW dirty,
           Tracked(table, r)
    PROVE  LET entry == Update(table, r, bh, dirty)[r]
           IN  /\ entry.head = bh.sha
               /\ entry.delta = table[r].delta
               /\ entry.status = table[r].status
<1>1. table[r] \in RepoState
  BY TrackedRepo
<1>2. Update(table, r, bh, dirty)[r] =
          [table[r] EXCEPT !.branch = bh.branch, !.head = bh.sha, !.dirty = dirty]
  BY DEF Update, Table
<1>3. QED
  BY <1>1, <1>2 DEF RepoState

-----------------------------------------------------------------------------
(***************************************************************************)
(* The shape of the program's state.                                       *)
(***************************************************************************)
JobsHaveRepo   == \A w \in Live : worker[w].repo \in Repos
ScansHaveDelta == \A w \in Workers : At(w, "scan") => worker[w].built \in DeltaIndex

Shape == TypeOK /\ JobsHaveRepo /\ ScansHaveDelta

Counts == /\ sem = Cardinality(Holders)
          /\ wg = Cardinality(Live)
          /\ sem <= MaxConcurrentReindex

\* The steps a job takes inside its slot.
Working(w) ==
    \/ MarkIndexing(w)
    \/ IndexSucceeds(w)
    \/ IndexFails(w)
    \/ MarkError(w)
    \/ \E sha \in Heads : ReadHead(w, sha)
    \/ ReadHeadFails(w)
    \/ RecordIndexed(w)
    \/ MarkIdle(w)
    \/ \E dirty \in DirtyLists : ReadStatus(w, dirty)
    \/ ReadStatusFails(w)
    \/ \E f \in Files, content \in Contents \union {Absent} :
          ReadFile(w, f, content)
    \/ PublishDelta(w)
    \/ RefreshFetch(w)
    \/ RefreshFails(w)
    \/ RefreshSwap(w)

\* The other goroutines stay where they are.
OnlyMoves(w) ==
    /\ worker' \in [Workers -> WorkerState]
    /\ \A v \in Workers \ {w} : worker'[v] = worker[v]

Work(w) ==
    /\ repos' \in Table
    /\ OnlyMoves(w)
    /\ worker[w].pc \in InSlot /\ worker'[w].pc \in InSlot
    /\ worker'[w].repo = worker[w].repo
    /\ worker'[w].pc = "scan" => worker'[w].built \in DeltaIndex
    /\ UNCHANGED <<busy, sem, wg, claimed, sweep, main>>

-----------------------------------------------------------------------------
(***************************************************************************)
(* The steps of a job.                                                     *)
(***************************************************************************)
LEMMA IdleWorkerType == IdleWorker \in WorkerState
BY CleanType DEF IdleWorker, WorkerState, WorkerPC, SHA, NoSHA

\* A step that moves w inside its slot and leaves its locals alone.
LEMMA GotoWorks ==
    ASSUME TypeOK, NEW w \in Workers, NEW from \in InSlot,
           NEW to \in InSlot \ {"scan"}, Goto(w, from, to), repos' \in Table
    PROVE  Work(w)
<1>1. worker[w] \in WorkerState
  BY DEF TypeOK
<1>2. [worker[w] EXCEPT !.pc = to] \in WorkerState
  BY <1>1 DEF WorkerState, WorkerPC
<1>3. worker' = [worker EXCEPT ![w] = [worker[w] EXCEPT !.pc = to]]
  BY DEF Goto
<1>4. OnlyMoves(w)
  BY <1>2, <1>3 DEF OnlyMoves, TypeOK
<1>5. worker'[w] = [worker[w] EXCEPT !.pc = to]
  BY <1>3 DEF TypeOK
<1>6. /\ worker'[w].pc = to
      /\ worker'[w].repo = worker[w].repo
  BY <1>1, <1>5 DEF WorkerState
<1>7. QED
  BY <1>4, <1>6 DEF Work, Goto, At

LEMMA WorkingWorks ==
    ASSUME Shape, NEW w \in Workers, Working(w)
    PROVE  Work(w)
<1> DEFINE job == worker[w]
           r   == worker[w].repo
<1>1. job \in WorkerState /\ repos \in Table
  BY DEF Shape, TypeOK
<1>2. /\ job.pc \in InSlot => r \in Repos
      /\ job.pc = "scan" => job.built \in DeltaIndex
  BY DEF Shape, JobsHaveRepo, ScansHaveDelta, Live, At, InSlot
<1>3. TypeOK
  BY DEF Shape
<1>4. CASE MarkIndexing(w)
  <2>1. Goto(w, "mark", "index") /\ job.pc = "mark"
    BY <1>4 DEF MarkIndexing, Goto, At
  <2>2. repos' \in Table
    BY <1>4, <1>1, <1>2, <2>1, SetStatusType DEF MarkIndexing, InSlot, Status
  <2>3. QED
    BY <1>3, <2>1, <2>2, GotoWorks DEF InSlot
<1>5. CASE IndexSucceeds(w)
  BY <1>5, <1>1, <1>3, GotoWorks DEF IndexSucceeds, InSlot
<1>6. CASE IndexFails(w)
  BY <1>6, <1>1, <1>3, GotoWorks DEF IndexFails, InSlot
<1>7. CASE MarkError(w)
  <2>1. Goto(w, "fail", "release") /\ job.pc = "fail"
    BY <1>7 DEF MarkError, Goto, At
  <2>2. repos' \in Table
    BY <1>7, <1>1, <1>2, <2>1, SetStatusType DEF MarkError, InSlot, Status
  <2>3. QED
    BY <1>3, <2>1, <2>2, GotoWorks DEF InSlot
<1>8. ASSUME NEW sha \in Heads, ReadHead(w, sha)
      PROVE  Work(w)
  <2> DEFINE new == [job EXCEPT !.pc = "record", !.sha = sha]
  <2>1. worker' = [worker EXCEPT ![w] = new]
    BY <1>8 DEF ReadHead
  <2>2. new \in WorkerState /\ new.pc = "record" /\ new.repo = r
    BY <1>1, HeadAssumption DEF WorkerState, WorkerPC, InSlot
  <2>3. worker'[w] = new /\ OnlyMoves(w)
    BY <2>1, <2>2, <1>3 DEF OnlyMoves, TypeOK
  <2>4. QED
    BY <1>1, <1>8, <2>2, <2>3 DEF Work, ReadHead, At, InSlot
<1>9. CASE ReadHeadFails(w)
  BY <1>9, <1>1, <1>3, GotoWorks DEF ReadHeadFails, InSlot
<1>10. CASE RecordIndexed(w)
  <2> DEFINE new == [job EXCEPT !.pc = "settle", !.sha = NoSHA]
  <2>1. worker' = [worker EXCEPT ![w] = new] /\ job.pc = "record"
    BY <1>10 DEF RecordIndexed, At
  <2>2. new \in WorkerState /\ new.pc = "settle" /\ new.repo = r
    BY <1>1 DEF WorkerState, WorkerPC, InSlot, SHA, NoSHA
  <2>3. worker'[w] = new /\ OnlyMoves(w)
    BY <2>1, <2>2, <1>3 DEF OnlyMoves, TypeOK
  <2>4. job.sha \in SHA
    BY <1>1 DEF WorkerState
  <2>5. repos' \in Table
    BY <1>10, <1>1, <1>2, <2>1, <2>4, SetIndexedType DEF RecordIndexed, InSlot
  <2>6. QED
    BY <1>10, <2>1, <2>2, <2>3, <2>5 DEF Work, RecordIndexed, InSlot
<1>11. CASE MarkIdle(w)
  <2>1. Goto(w, "settle", "status") /\ job.pc = "settle"
    BY <1>11 DEF MarkIdle, Goto, At
  <2>2. repos' \in Table
    BY <1>11, <1>1, <1>2, <2>1, SetStatusType DEF MarkIdle, InSlot, Status
  <2>3. QED
    BY <1>3, <2>1, <2>2, GotoWorks DEF InSlot
<1>12. ASSUME NEW dirty \in DirtyLists, ReadStatus(w, dirty)
       PROVE  Work(w)
  <2> DEFINE new == IF dirty = Clean
                    THEN [job EXCEPT !.pc = "delta"]
                    ELSE [job EXCEPT !.pc = "scan", !.todo = dirty,
                                     !.built = EmptyDelta]
  <2>1. worker' = [worker EXCEPT ![w] = new] /\ job.pc = "status"
    BY <1>12 DEF ReadStatus, At
  <2>2. /\ new \in WorkerState /\ new.pc \in {"delta", "scan"} /\ new.repo = r
        /\ new.pc = "scan" => new.built \in DeltaIndex
    <3>1. CASE dirty = Clean
      BY <1>1, <3>1 DEF WorkerState, WorkerPC, InSlot
    <3>2. CASE dirty # Clean
      BY <1>1, <3>2, EmptyDeltaType DEF WorkerState, WorkerPC, InSlot
    <3>3. QED
      BY <3>1, <3>2
  <2>3. worker'[w] = new /\ OnlyMoves(w)
    BY <2>1, <2>2, <1>3 DEF OnlyMoves, TypeOK
  <2> HIDE DEF new
  <2>4. QED
    BY <1>1, <1>12, <2>1, <2>2, <2>3 DEF Work, ReadStatus, InSlot
<1>13. CASE ReadStatusFails(w)
  BY <1>13, <1>1, <1>3, GotoWorks DEF ReadStatusFails, InSlot
<1>14. ASSUME NEW f \in Files, NEW content \in Contents \union {Absent},
              ReadFile(w, f, content)
       PROVE  Work(w)
  <2> DEFINE rest  == DOMAIN job.todo \ {f}
             left  == [g \in rest |-> job.todo[g]]
             pc    == IF rest = {} THEN "delta" ELSE "scan"
             delta == AddFile(job.built, f, job.todo[f], content)
             new   == [job EXCEPT !.pc = pc, !.todo = left, !.built = delta]
  <2>1. worker' = [worker EXCEPT ![w] = new] /\ job.pc = "scan"
    BY <1>14 DEF ReadFile, At
  <2>2. left \in DirtyLists
    BY <1>1, DirtyListRest DEF WorkerState
  <2>3. delta \in DeltaIndex
    BY <1>2, <2>1, AddFileType DEF InSlot
  <2> HIDE DEF left, delta, rest
  <2>4. /\ new \in WorkerState /\ new.pc \in {"delta", "scan"} /\ new.repo = r
        /\ new.built \in DeltaIndex
    BY <1>1, <2>2, <2>3 DEF WorkerState, WorkerPC, InSlot
  <2>5. worker'[w] = new /\ OnlyMoves(w)
    BY <2>1, <2>4, <1>3 DEF OnlyMoves, TypeOK
  <2> HIDE DEF new
  <2>6. QED
    BY <1>1, <1>14, <2>1, <2>4, <2>5 DEF Work, ReadFile, InSlot
<1>15. CASE PublishDelta(w)
  <2> DEFINE new == [job EXCEPT !.pc = "refresh", !.built = NoDelta]
  <2>1. worker' = [worker EXCEPT ![w] = new] /\ job.pc = "delta"
    BY <1>15 DEF PublishDelta, At
  <2>2. new \in WorkerState /\ new.pc = "refresh" /\ new.repo = r
    BY <1>1 DEF WorkerState, WorkerPC, InSlot
  <2>3. worker'[w] = new /\ OnlyMoves(w)
    BY <2>1, <2>2, <1>3 DEF OnlyMoves, TypeOK
  <2>4. job.built \in DeltaIndex \union {NoDelta}
    BY <1>1 DEF WorkerState
  <2>5. repos' \in Table
    BY <1>15, <1>1, <1>2, <2>1, <2>4, SetDeltaType DEF PublishDelta, InSlot
  <2>6. QED
    BY <1>15, <2>1, <2>2, <2>3, <2>5 DEF Work, PublishDelta, InSlot
<1>16. CASE RefreshFetch(w)
  BY <1>16, <1>1, <1>3, GotoWorks DEF RefreshFetch, InSlot
<1>17. CASE RefreshFails(w)
  BY <1>17, <1>1, <1>3, GotoWorks DEF RefreshFails, InSlot
<1>18. CASE RefreshSwap(w)
  BY <1>18, <1>1, <1>3, GotoWorks DEF RefreshSwap, InSlot
<1>19. QED
  BY <1>4, <1>5, <1>6, <1>7, <1>8, <1>9, <1>10, <1>11, <1>12, <1>13, <1>14,
     <1>15, <1>16, <1>17, <1>18 DEF Working

-----------------------------------------------------------------------------
(***************************************************************************)
(* Counting goroutines.                                                    *)
(***************************************************************************)
LEMMA GoroutinesFinite ==
    ASSUME TypeOK
    PROVE  /\ IsFiniteSet(Holders) /\ Cardinality(Holders) \in Nat
           /\ IsFiniteSet(Live) /\ Cardinality(Live) \in Nat
           /\ Holders \subseteq Live
<1>1. Holders \in SUBSET Workers /\ Live \in SUBSET Workers
  BY DEF Holders, Live
<1>2. Holders \subseteq Live
  BY DEF Holders, Live, InSlot
<1>3. QED
  BY <1>1, <1>2, WorkerAssumption, FS_Subset, FS_CardinalityType

\* Both sets of goroutines after a step of w alone.
LEMMA MovedGoroutines ==
    ASSUME NEW w \in Workers, OnlyMoves(w)
    PROVE  /\ Holders' = IF worker'[w].pc \in InSlot
                         THEN Holders \union {w} ELSE Holders \ {w}
           /\ Live' = IF worker'[w].pc # "idle"
                      THEN Live \union {w} ELSE Live \ {w}
BY DEF OnlyMoves, Holders, Live

\* A step of w into its slot, out of it, into life or out of it.
LEMMA CountMove ==
    ASSUME TypeOK, Counts, NEW w \in Workers, OnlyMoves(w)
    PROVE  /\ Cardinality(Holders') =
                CASE w \in Holders /\ worker'[w].pc \notin InSlot -> sem - 1
                  [] w \notin Holders /\ worker'[w].pc \in InSlot -> sem + 1
                  [] OTHER -> sem
           /\ Cardinality(Live') =
                CASE w \in Live /\ worker'[w].pc = "idle" -> wg - 1
                  [] w \notin Live /\ worker'[w].pc # "idle" -> wg + 1
                  [] OTHER -> wg
<1>1. IsFiniteSet(Holders) /\ IsFiniteSet(Live)
  BY GoroutinesFinite
<1>2. /\ Cardinality(Holders \union {w}) =
            IF w \in Holders THEN Cardinality(Holders) ELSE Cardinality(Holders) + 1
      /\ Cardinality(Live \union {w}) =
            IF w \in Live THEN Cardinality(Live) ELSE Cardinality(Live) + 1
  BY <1>1, FS_AddElement
<1>3. /\ Cardinality(Holders \ {w}) =
            IF w \in Holders THEN Cardinality(Holders) - 1 ELSE Cardinality(Holders)
      /\ Cardinality(Live \ {w}) =
            IF w \in Live THEN Cardinality(Live) - 1 ELSE Cardinality(Live)
  BY <1>1, FS_RemoveElement
<1>4. /\ sem = Cardinality(Holders)
      /\ wg = Cardinality(Live)
  BY DEF Counts
<1>5. /\ Holders' = IF worker'[w].pc \in InSlot
                    THEN Holders \union {w} ELSE Holders \ {w}
      /\ Live' = IF worker'[w].pc # "idle"
                 THEN Live \union {w} ELSE Live \ {w}
  BY MovedGoroutines
<1> HIDE DEF Holders, Live
<1>6. QED
  BY <1>2, <1>3, <1>4, <1>5

\* The last goroutine in a slot, or alive, is one.
LEMMA CountsPositive ==
    ASSUME TypeOK, Counts, NEW w \in Workers
    PROVE  /\ w \in Holders => sem > 0
           /\ w \in Live => wg > 0
<1>1. IsFiniteSet(Holders) /\ IsFiniteSet(Live)
  BY GoroutinesFinite
<1>2. /\ Holders # {} => Cardinality(Holders) # 0
      /\ Live # {} => Cardinality(Live) # 0
  BY <1>1, FS_EmptySet
<1>3. Cardinality(Holders) \in Nat /\ Cardinality(Live) \in Nat
  BY GoroutinesFinite
<1>4. QED
  BY <1>2, <1>3 DEF Counts

-----------------------------------------------------------------------------
(***************************************************************************)
(* Shape and Counts are preserved.                                         *)
(***************************************************************************)
\* What Trigger does, whoever calls it.
LEMMA TriggerType ==
    ASSUME TypeOK, NEW c \in Callers, NEW r \in Repos, Trigger(c, r)
    PROVE  /\ busy' \subseteq Repos
           /\ claimed' \in [Callers -> Repos \union {NoRepo}]
BY DEF TypeOK, Trigger

\* Steps that leave counters and goroutines alone.
LEMMA QuietStep ==
    ASSUME Shape, Counts, TypeOK', UNCHANGED <<sem, wg, worker>>
    PROVE  Shape' /\ Counts'
BY DEF Shape, Counts, JobsHaveRepo, ScansHaveDelta, At, Live, Holders

LEMMA PollerWritesType ==
    ASSUME TypeOK, PollerWrites
    PROVE  repos' \in Table
<1>1. PICK r \in Repos :
          \/ \E bh \in BranchHeads, dirty \in DirtyLists :
                repos' = Update(repos, r, bh, dirty)
          \/ repos' = Remove(repos, r)
          \/ \E status \in {"idle", "stale"} :
                repos' = SetStatus(repos, r, status)
          \/ \E sha \in Heads : repos' = SetIndexed(repos, r, sha)
          \/ \E delta \in {NoDelta} \union
                          {d \in DeltaIndex : d.dirtyPaths # {}} :
                repos' = SetDelta(repos, r, delta)
  BY DEF PollerWrites
<1>2. repos \in Table
  BY DEF TypeOK
<1>3. ASSUME NEW bh \in BranchHeads, NEW dirty \in DirtyLists,
             repos' = Update(repos, r, bh, dirty)
      PROVE  repos' \in Table
  <2>1. bh \in [branch : Branches, sha : SHA]
    BY HeadAssumption DEF BranchHeads
  <2>2. QED
    BY <1>2, <1>3, <2>1, UpdateType
<1>4. CASE repos' = Remove(repos, r)
  BY <1>2, <1>4, RemoveType
<1>5. ASSUME NEW status \in {"idle", "stale"}, repos' = SetStatus(repos, r, status)
      PROVE  repos' \in Table
  BY <1>2, <1>5, SetStatusType DEF Status
<1>6. ASSUME NEW sha \in Heads, repos' = SetIndexed(repos, r, sha)
      PROVE  repos' \in Table
  BY <1>2, <1>6, SetIndexedType, HeadAssumption
<1>7. ASSUME NEW delta \in {NoDelta} \union {d \in DeltaIndex : d.dirtyPaths # {}},
             repos' = SetDelta(repos, r, delta)
      PROVE  repos' \in Table
  BY <1>2, <1>7, SetDeltaType
<1>8. QED
  BY <1>1, <1>3, <1>4, <1>5, <1>6, <1>7

\* A step of w to another statement.
LEMMA StatementStep ==
    ASSUME TypeOK, NEW w \in Workers, NEW to \in WorkerPC,
           worker' = [worker EXCEPT ![w].pc = to]
    PROVE  /\ OnlyMoves(w)
           /\ worker'[w].pc = to
           /\ worker'[w].repo = worker[w].repo
<1> DEFINE new == [worker[w] EXCEPT !.pc = to]
<1>1. worker[w] \in WorkerState
  BY DEF TypeOK
<1>2. new \in WorkerState /\ new.pc = to /\ new.repo = worker[w].repo
  BY <1>1 DEF WorkerState
<1>3. worker' = [worker EXCEPT ![w] = new]
  OBVIOUS
<1>4. worker'[w] = new /\ OnlyMoves(w)
  BY <1>2, <1>3 DEF OnlyMoves, TypeOK
<1>5. QED
  BY <1>2, <1>4

\* reindex.go:45: the claimed repo is handed to a goroutine that was not alive.
LEMMA SpawnStep ==
    ASSUME TypeOK, NEW c \in Callers, Spawn(c)
    PROVE  \E w \in Workers : /\ At(w, "idle")
                              /\ OnlyMoves(w)
                              /\ worker'[w].pc = "acquire"
                              /\ worker'[w].repo = claimed[c]
                              /\ claimed[c] \in Repos
<1>1. PICK w \in Workers :
          /\ At(w, "idle")
          /\ worker' = [worker EXCEPT ![w] =
                            [@ EXCEPT !.pc = "acquire", !.repo = claimed[c]]]
  BY DEF Spawn
<1> DEFINE new == [worker[w] EXCEPT !.pc = "acquire", !.repo = claimed[c]]
<1>2. claimed[c] \in Repos
  BY DEF TypeOK, Spawn
<1>3. new \in WorkerState /\ new.pc = "acquire" /\ new.repo = claimed[c]
  BY <1>2 DEF TypeOK, WorkerState, WorkerPC
<1>4. worker'[w] = new /\ OnlyMoves(w)
  BY <1>1, <1>3 DEF OnlyMoves, TypeOK
<1>5. QED
  BY <1>1, <1>2, <1>3, <1>4

\* reindex.go:62: the goroutine ends.
LEMMA DoneStep ==
    ASSUME TypeOK, NEW w \in Workers, Done(w)
    PROVE  OnlyMoves(w) /\ worker'[w].pc = "idle"
<1>1. worker' = [worker EXCEPT ![w] = IdleWorker]
  BY DEF Done
<1>2. worker'[w] = IdleWorker /\ OnlyMoves(w)
  BY <1>1, IdleWorkerType DEF OnlyMoves, TypeOK
<1>3. QED
  BY <1>2 DEF IdleWorker

\* The repo and the delta of every goroutine follow from those of the one that
\* moved.
LEMMA ShapeStep ==
    ASSUME Shape, TypeOK', NEW w \in Workers, OnlyMoves(w),
           worker'[w].pc # "idle" => worker'[w].repo \in Repos,
           worker'[w].pc = "scan" => worker'[w].built \in DeltaIndex
    PROVE  Shape'
BY DEF Shape, JobsHaveRepo, ScansHaveDelta, At, Live, OnlyMoves

LEMMA CallerPreserves ==
    ASSUME Shape, Counts, NEW c \in Callers, CallerStep(c)
    PROVE  Shape' /\ Counts'
<1>1. TypeOK
  BY DEF Shape
<1>2. CASE PollerTriggers(c)
  <2>1. PICK r \in Repos : Trigger(c, r) /\ UNCHANGED <<repos, sweep, main>>
    BY <1>2 DEF PollerTriggers
  <2>2. TypeOK'
    BY <1>1, <2>1, TriggerType DEF TypeOK, Trigger
  <2>3. QED
    BY <2>1, <2>2, QuietStep DEF Trigger
<1>3. CASE Spawn(c)
  <2>1. PICK w \in Workers : /\ At(w, "idle")
                             /\ OnlyMoves(w)
                             /\ worker'[w].pc = "acquire"
                             /\ worker'[w].repo = claimed[c]
                             /\ claimed[c] \in Repos
    BY <1>1, <1>3, SpawnStep
  <2>2. w \notin Live /\ w \notin Holders
    BY <2>1 DEF Live, Holders, At, InSlot
  <2>3. Cardinality(Holders') = sem /\ Cardinality(Live') = wg + 1
    BY <1>1, <2>1, <2>2, CountMove DEF InSlot
  <2>4. Counts'
    BY <1>3, <2>3 DEF Counts, Spawn
  <2>5. TypeOK'
    BY <1>1, <1>3, <2>1 DEF TypeOK, Spawn, OnlyMoves
  <2>6. Shape'
    BY <2>1, <2>5, ShapeStep
  <2>7. QED
    BY <2>4, <2>6
<1>4. CASE StartAll(c)
  <2>1. TypeOK'
    BY <1>1, <1>4 DEF TypeOK, StartAll, jobVars, Paths
  <2>2. QED
    BY <1>4, <2>1, QuietStep DEF StartAll, jobVars
<1>5. CASE StartOne(c)
  <2>1. TypeOK'
    BY <1>1, <1>5 DEF TypeOK, StartOne, jobVars, Paths
  <2>2. QED
    BY <1>5, <2>1, QuietStep DEF StartOne, jobVars
<1>6. CASE SweepStep(c)
  <2>1. PICK r \in sweep[c] : /\ Trigger(c, r)
                              /\ sweep' = [sweep EXCEPT ![c] = @ \ {r}]
                              /\ UNCHANGED <<repos, main>>
    BY <1>6 DEF SweepStep
  <2>2. r \in Repos
    BY <1>1, <2>1 DEF TypeOK
  <2>3. TypeOK'
    BY <1>1, <2>1, <2>2, TriggerType DEF TypeOK, Trigger
  <2>4. QED
    BY <2>1, <2>3, QuietStep DEF Trigger
<1>7. QED
  BY <1>2, <1>3, <1>4, <1>5, <1>6 DEF CallerStep

LEMMA WorkPreserves ==
    ASSUME Shape, Counts, NEW w \in Workers, Work(w)
    PROVE  Shape' /\ Counts'
<1>1. TypeOK /\ OnlyMoves(w)
  BY DEF Shape, Work
<1>2. w \in Holders /\ w \in Live /\ worker[w].repo \in Repos
  BY DEF Shape, JobsHaveRepo, Work, Holders, Live, InSlot
<1>3. Cardinality(Holders') = sem /\ Cardinality(Live') = wg
  BY <1>1, <1>2, CountMove DEF Work, InSlot
<1>4. TypeOK'
  BY <1>1 DEF TypeOK, Work, OnlyMoves
<1>5. QED
  BY <1>1, <1>2, <1>3, <1>4, ShapeStep DEF Counts, Work

LEMMA AcquirePreserves ==
    ASSUME Shape, Counts, NEW w \in Workers, Acquire(w)
    PROVE  Shape' /\ Counts'
<1>1. TypeOK
  BY DEF Shape
<1>2. OnlyMoves(w) /\ worker'[w].pc = "mark" /\ worker'[w].repo = worker[w].repo
  BY <1>1, StatementStep DEF Acquire, WorkerPC, InSlot
<1>3. w \notin Holders /\ w \in Live /\ worker[w].repo \in Repos
  BY DEF Shape, JobsHaveRepo, Acquire, At, Holders, Live, InSlot
<1>4. Cardinality(Holders') = sem + 1 /\ Cardinality(Live') = wg
  BY <1>1, <1>2, <1>3, CountMove DEF InSlot
<1>5. TypeOK'
  BY <1>1, <1>2 DEF TypeOK, Acquire, OnlyMoves
<1>6. Counts'
  BY <1>1, <1>4, SlotAssumption DEF Counts, Acquire, TypeOK
<1>7. QED
  BY <1>2, <1>3, <1>5, <1>6, ShapeStep

LEMMA ReleasePreserves ==
    ASSUME Shape, Counts, NEW w \in Workers, Release(w)
    PROVE  Shape' /\ Counts'
<1>1. TypeOK
  BY DEF Shape
<1>2. OnlyMoves(w) /\ worker'[w].pc = "unmark" /\ worker'[w].repo = worker[w].repo
  BY <1>1, StatementStep DEF Release, WorkerPC
<1>3. w \in Holders /\ w \in Live /\ worker[w].repo \in Repos
  BY DEF Shape, JobsHaveRepo, Release, At, Holders, Live, InSlot
<1>4. Cardinality(Holders') = sem - 1 /\ Cardinality(Live') = wg
  BY <1>1, <1>2, <1>3, CountMove DEF InSlot
<1>5. sem - 1 \in Nat
  BY <1>1, <1>3, CountsPositive DEF TypeOK
<1>6. TypeOK'
  BY <1>1, <1>2, <1>5 DEF TypeOK, Release, OnlyMoves
<1>7. Counts'
  BY <1>1, <1>4, SlotAssumption DEF Counts, Release, TypeOK
<1>8. QED
  BY <1>2, <1>3, <1>6, <1>7, ShapeStep

LEMMA UnmarkPreserves ==
    ASSUME Shape, Counts, NEW w \in Workers, Unmark(w)
    PROVE  Shape' /\ Counts'
<1>1. TypeOK
  BY DEF Shape
<1>2. OnlyMoves(w) /\ worker'[w].pc = "done" /\ worker'[w].repo = worker[w].repo
  BY <1>1, StatementStep DEF Unmark, WorkerPC
<1>3. w \notin Holders /\ w \in Live /\ worker[w].repo \in Repos
  BY DEF Shape, JobsHaveRepo, Unmark, At, Holders, Live, InSlot
<1>4. Cardinality(Holders') = sem /\ Cardinality(Live') = wg
  BY <1>1, <1>2, <1>3, CountMove DEF InSlot
<1>5. TypeOK'
  BY <1>1, <1>2 DEF TypeOK, Unmark, OnlyMoves
<1>6. Counts'
  BY <1>4 DEF Counts, Unmark
<1>7. QED
  BY <1>2, <1>3, <1>5, <1>6, ShapeStep

LEMMA DonePreserves ==
    ASSUME Shape, Counts, NEW w \in Workers, Done(w)
    PROVE  Shape' /\ Counts'
<1>1. TypeOK
  BY DEF Shape
<1>2. OnlyMoves(w) /\ worker'[w].pc = "idle"
  BY <1>1, DoneStep
<1>3. w \notin Holders /\ w \in Live
  BY DEF Done, At, Holders, Live, InSlot
<1>4. Cardinality(Holders') = sem /\ Cardinality(Live') = wg - 1
  BY <1>1, <1>2, <1>3, CountMove DEF InSlot
<1>5. wg - 1 \in Nat
  BY <1>1, <1>3, CountsPositive DEF TypeOK
<1>6. TypeOK'
  BY <1>1, <1>2, <1>5 DEF TypeOK, Done, OnlyMoves
<1>7. Counts'
  BY <1>4 DEF Counts, Done
<1>8. QED
  BY <1>2, <1>6, <1>7, ShapeStep

-----------------------------------------------------------------------------
(***************************************************************************)
(* The steps of Next, as the proofs below take them.                       *)
(***************************************************************************)
LEMMA NextSteps ==
    ASSUME [Next]_vars
    PROVE  \/ \E c \in Callers : CallerStep(c)
           \/ \E w \in Workers :
                 Acquire(w) \/ Working(w) \/ Release(w) \/ Unmark(w) \/ Done(w)
           \/ MainStep
           \/ PollerWrites
           \/ UNCHANGED vars
BY DEF Next, ManagerNext, JobStep, Working, Terminated

LEMMA InitShape == Init => Shape /\ Counts
<1> SUFFICES ASSUME Init PROVE Shape /\ Counts
  OBVIOUS
<1>1. repos \in Table
  BY DEF Init, EmptyTable, Table
<1>2. worker \in [Workers -> WorkerState]
  BY IdleWorkerType DEF Init, JobsInit
<1>3. \A w \in Workers : At(w, "idle")
  BY DEF Init, JobsInit, At, IdleWorker
<1>4. TypeOK
  BY <1>1, <1>2 DEF TypeOK, Init, JobsInit, MainPC
<1>5. Holders = {} /\ Live = {}
  BY <1>3 DEF Holders, Live, At, InSlot
<1>6. Counts
  BY <1>5, FS_EmptySet, SlotAssumption DEF Counts, Init, JobsInit
<1>7. QED
  BY <1>3, <1>4, <1>5, <1>6 DEF Shape, JobsHaveRepo, ScansHaveDelta, At

LEMMA NextShape ==
    ASSUME Shape, Counts, [Next]_vars
    PROVE  Shape' /\ Counts'
<1>1. TypeOK
  BY DEF Shape
<1>2. ASSUME NEW c \in Callers, CallerStep(c)
      PROVE  Shape' /\ Counts'
  BY <1>2, CallerPreserves
<1>3. ASSUME NEW w \in Workers,
             Acquire(w) \/ Working(w) \/ Release(w) \/ Unmark(w) \/ Done(w)
      PROVE  Shape' /\ Counts'
  BY <1>3, AcquirePreserves, WorkingWorks, WorkPreserves, ReleasePreserves,
     UnmarkPreserves, DonePreserves
<1>4. CASE MainStep
  <2>1. TypeOK'
    BY <1>1, <1>4 DEF TypeOK, MainStep, Shutdown, WaitReturns, Exit, jobVars, MainPC
  <2>2. UNCHANGED <<sem, wg, worker>>
    BY <1>4 DEF MainStep, Shutdown, WaitReturns, Exit, jobVars
  <2>3. QED
    BY <2>1, <2>2, QuietStep
<1>5. CASE PollerWrites
  <2>1. TypeOK'
    BY <1>1, <1>5, PollerWritesType DEF TypeOK, PollerWrites, jobVars
  <2>2. QED
    BY <1>5, <2>1, QuietStep DEF PollerWrites, jobVars
<1>6. CASE UNCHANGED vars
  <2>1. TypeOK'
    BY <1>1, <1>6 DEF TypeOK, vars
  <2>2. QED
    BY <1>6, <2>1, QuietStep DEF vars
<1>7. QED
  BY <1>2, <1>3, <1>4, <1>5, <1>6, NextSteps

-----------------------------------------------------------------------------
(***************************************************************************)
(* The theorems.                                                           *)
(***************************************************************************)
LEMMA Invariance == Spec => [](Shape /\ Counts)
<1>1. Shape /\ Counts /\ [Next]_vars => Shape' /\ Counts'
  BY NextShape
<1>2. QED
  BY InitShape, <1>1, PTL DEF Spec

\* Every variable keeps its type whatever git and the poller answer and write;
\* in particular neither rm.sem nor rm.wg is ever taken below zero, which in Go
\* would block a job for ever or panic.
THEOREM TypeCorrect == Spec => []TypeOK
<1>1. Shape /\ Counts => TypeOK
  BY DEF Shape
<1>2. QED
  BY Invariance, <1>1, PTL

LEMMA SoundCounts == Shape /\ Counts => SlotBound /\ WaitCoversJobs
<1> SUFFICES ASSUME Shape, Counts
             PROVE  SlotBound /\ WaitCoversJobs
  OBVIOUS
<1>1. TypeOK
  BY DEF Shape
<1>2. wg = 0 => Live = {}
  BY <1>1, GoroutinesFinite, FS_EmptySet DEF Counts
<1>3. Live = {} => Holders = {}
  BY <1>1, GoroutinesFinite
<1>4. Holders = {} => sem = 0
  BY FS_EmptySet DEF Counts
<1>5. QED
  BY <1>2, <1>3, <1>4 DEF Counts, SlotBound, WaitCoversJobs

\* At most MaxConcurrentReindex jobs run zoekt-git-index, and every way out of
\* reindex() gives its slot back.
THEOREM SlotsBounded == Spec => []SlotBound
BY Invariance, SoundCounts, PTL

\* rm.wg is the number of goroutines that have been started and not ended.
THEOREM WaitCovers == Spec => []WaitCoversJobs
BY Invariance, SoundCounts, PTL

-----------------------------------------------------------------------------
(***************************************************************************)
(* rm.busy.  BusyIsOwned is inductive once Shape holds.                    *)
(***************************************************************************)
LEMMA MovedJobs ==
    ASSUME NEW w \in Workers, OnlyMoves(w), NEW r
    PROVE  Jobs(r)' = IF worker'[w].pc \notin {"idle", "done"} /\ worker'[w].repo = r
                      THEN Jobs(r) \union {w} ELSE Jobs(r) \ {w}
BY DEF OnlyMoves, Jobs, Live, At

\* A job that stays at work, or steps that move no goroutine and no claim.
LEMMA SameOwners ==
    ASSUME BusyIsOwned, UNCHANGED <<busy, claimed>>,
           \A r \in Repos : Jobs(r)' = Jobs(r)
    PROVE  BusyIsOwned'
BY DEF BusyIsOwned, Claimants

LEMMA TriggerOwned ==
    ASSUME TypeOK, BusyIsOwned, NEW c \in Callers, NEW r \in Repos, Trigger(c, r)
    PROVE  BusyIsOwned'
<1>1. \A q \in Repos : Jobs(q)' = Jobs(q)
  BY DEF Trigger, Jobs, Live, At
<1>2. CASE r \in busy
  BY <1>1, <1>2, SameOwners DEF Trigger
<1>3. CASE r \notin busy
  <2>1. claimed[c] = NoRepo /\ claimed' = [claimed EXCEPT ![c] = r]
        /\ busy' = busy \union {r}
    BY <1>3 DEF Trigger
  <2>2. Claimants(r) = {} /\ Jobs(r) = {}
    BY <1>3 DEF BusyIsOwned
  <2>3. Claimants(r)' = {c}
    BY <2>1, <2>2 DEF Claimants, TypeOK
  <2>4. ASSUME NEW q \in Repos \ {r}
        PROVE  Claimants(q)' = Claimants(q)
    BY <2>1, <2>4, NoRepoAssumption DEF Claimants, TypeOK
  <2> HIDE DEF Claimants, Jobs
  <2>5. QED
    BY <1>1, <2>1, <2>2, <2>3, <2>4 DEF BusyIsOwned
<1>4. QED
  BY <1>2, <1>3

LEMMA SpawnOwned ==
    ASSUME TypeOK, BusyIsOwned, NEW c \in Callers, Spawn(c)
    PROVE  BusyIsOwned'
<1>1. PICK w \in Workers : /\ At(w, "idle")
                           /\ OnlyMoves(w)
                           /\ worker'[w].pc = "acquire"
                           /\ worker'[w].repo = claimed[c]
                           /\ claimed[c] \in Repos
  BY SpawnStep
<1> PICK r \in Repos : r = claimed[c]
  BY <1>1
<1>2. busy' = busy /\ claimed' = [claimed EXCEPT ![c] = NoRepo]
  BY DEF Spawn
<1>3. Claimants(r) = {c} /\ Jobs(r) = {} /\ r \in busy
  BY <1>1 DEF BusyIsOwned, Claimants
<1>4. Claimants(r)' = {}
  BY <1>2, <1>3, <1>1, NoRepoAssumption DEF Claimants, TypeOK
<1>5. Jobs(r)' = {w}
  BY <1>1, <1>3, MovedJobs
<1>6. ASSUME NEW q \in Repos \ {r}
      PROVE  Claimants(q)' = Claimants(q) /\ Jobs(q)' = Jobs(q)
  <2>1. Claimants(q)' = Claimants(q)
    BY <1>2, <1>6, NoRepoAssumption DEF Claimants, TypeOK
  <2>2. w \notin Jobs(q)
    BY <1>1 DEF Jobs, Live, At
  <2>3. QED
    BY <1>1, <1>6, <2>1, <2>2, MovedJobs
<1> HIDE DEF Claimants, Jobs
<1>7. QED
  BY <1>1, <1>2, <1>3, <1>4, <1>5, <1>6 DEF BusyIsOwned

\* A goroutine that is at work before and after its step.
LEMMA AtWorkOwned ==
    ASSUME BusyIsOwned, NEW w \in Workers, OnlyMoves(w),
           UNCHANGED <<busy, claimed>>,
           worker[w].pc \notin {"idle", "done"},
           worker'[w].pc \notin {"idle", "done"},
           worker'[w].repo = worker[w].repo
    PROVE  BusyIsOwned'
<1>1. ASSUME NEW r \in Repos
      PROVE  Jobs(r)' = Jobs(r)
  <2>1. w \in Jobs(r) <=> worker[w].repo = r
    BY DEF Jobs, Live, At
  <2>2. QED
    BY <2>1, MovedJobs
<1>2. QED
  BY <1>1, SameOwners

LEMMA UnmarkOwned ==
    ASSUME TypeOK, JobsHaveRepo, BusyIsOwned, NEW w \in Workers, Unmark(w)
    PROVE  BusyIsOwned'
<1> PICK r \in Repos : r = worker[w].repo
  BY DEF JobsHaveRepo, Unmark, At, Live
<1>1. OnlyMoves(w) /\ worker'[w].pc = "done"
  BY StatementStep DEF Unmark, WorkerPC
<1>2. busy' = busy \ {r} /\ claimed' = claimed
  BY DEF Unmark
<1>3. w \in Jobs(r)
  BY DEF Unmark, At, Live, Jobs
<1>4. Jobs(r) = {w} /\ Claimants(r) = {}
  BY <1>3 DEF BusyIsOwned
<1>5. Jobs(r)' = {} /\ Claimants(r)' = {}
  BY <1>1, <1>2, <1>4, MovedJobs DEF Claimants
<1>6. ASSUME NEW q \in Repos \ {r}
      PROVE  Claimants(q)' = Claimants(q) /\ Jobs(q)' = Jobs(q)
  <2>1. w \notin Jobs(q)
    BY <1>6 DEF Jobs
  <2>2. QED
    BY <1>1, <1>2, <2>1, MovedJobs DEF Claimants
<1> HIDE DEF Claimants, Jobs
<1>7. QED
  BY <1>2, <1>3, <1>5, <1>6 DEF BusyIsOwned

LEMMA DoneOwned ==
    ASSUME TypeOK, BusyIsOwned, NEW w \in Workers, Done(w)
    PROVE  BusyIsOwned'
<1>1. OnlyMoves(w) /\ worker'[w].pc = "idle"
  BY DoneStep
<1>2. ASSUME NEW r \in Repos
      PROVE  Jobs(r)' = Jobs(r)
  <2>1. w \notin Jobs(r)
    BY DEF Done, Jobs, At
  <2>2. QED
    BY <1>1, <2>1, MovedJobs
<1>3. QED
  BY <1>2, SameOwners DEF Done

\* What leaves claims and goroutines alone.
LEMMA QuietOwned ==
    ASSUME BusyIsOwned, UNCHANGED <<busy, claimed, worker>>
    PROVE  BusyIsOwned'
BY SameOwners DEF Jobs, Live, At

LEMMA NextOwned ==
    ASSUME Shape, BusyIsOwned, [Next]_vars
    PROVE  BusyIsOwned'
<1>1. TypeOK /\ JobsHaveRepo
  BY DEF Shape
<1>2. ASSUME NEW c \in Callers, CallerStep(c)
      PROVE  BusyIsOwned'
  <2>1. CASE PollerTriggers(c)
    BY <1>1, <2>1, TriggerOwned DEF PollerTriggers
  <2>2. CASE Spawn(c)
    BY <1>1, <2>2, SpawnOwned
  <2>3. CASE StartAll(c) \/ StartOne(c)
    BY <2>3, QuietOwned DEF StartAll, StartOne, jobVars
  <2>4. CASE SweepStep(c)
    <3>1. PICK r \in sweep[c] : Trigger(c, r)
      BY <2>4 DEF SweepStep
    <3>2. r \in Repos
      BY <1>1, <3>1 DEF TypeOK
    <3>3. QED
      BY <1>1, <3>1, <3>2, TriggerOwned
  <2>5. QED
    BY <1>2, <2>1, <2>2, <2>3, <2>4 DEF CallerStep
<1>3. ASSUME NEW w \in Workers, Acquire(w) \/ Working(w) \/ Release(w)
      PROVE  BusyIsOwned'
  <2>1. CASE Acquire(w)
    <3>1. OnlyMoves(w) /\ worker'[w].pc = "mark" /\ worker'[w].repo = worker[w].repo
      BY <1>1, <2>1, StatementStep DEF Acquire, WorkerPC, InSlot
    <3>2. QED
      BY <2>1, <3>1, AtWorkOwned DEF Acquire, At
  <2>2. CASE Working(w)
    BY <2>2, WorkingWorks, AtWorkOwned DEF Work, InSlot
  <2>3. CASE Release(w)
    <3>1. OnlyMoves(w) /\ worker'[w].pc = "unmark" /\ worker'[w].repo = worker[w].repo
      BY <1>1, <2>3, StatementStep DEF Release, WorkerPC
    <3>2. QED
      BY <2>3, <3>1, AtWorkOwned DEF Release, At
  <2>4. QED
    BY <1>3, <2>1, <2>2, <2>3
<1>4. ASSUME NEW w \in Workers, Unmark(w) \/ Done(w)
      PROVE  BusyIsOwned'
  BY <1>1, <1>4, UnmarkOwned, DoneOwned
<1>5. CASE MainStep \/ PollerWrites \/ UNCHANGED vars
  BY <1>5, QuietOwned
     DEF MainStep, Shutdown, WaitReturns, Exit, PollerWrites, jobVars, vars
<1>6. QED
  BY <1>2, <1>3, <1>4, <1>5, NextSteps

LEMMA InitOwned == Init => BusyIsOwned
BY NoRepoAssumption
   DEF Init, JobsInit, BusyIsOwned, Claimants, Jobs, Live, IdleWorker

\* A busy repo has exactly one owner: no repo is indexed twice at one time, and
\* none stays busy with nobody left to release it.
THEOREM BusyOwned == Spec => []BusyIsOwned
<1>1. BusyIsOwned /\ Shape /\ [Next]_vars => BusyIsOwned'
  BY NextOwned
<1>2. QED
  BY InitOwned, <1>1, Invariance, PTL DEF Spec

-----------------------------------------------------------------------------
(***************************************************************************)
(* The status "indexing".                                                  *)
(***************************************************************************)
Indexing(table, r) == Tracked(table, r) /\ table[r].status = "indexing"

\* The statements between SetStatus(indexing) and the next SetStatus.
Settling == {"index", "fail", "head", "record", "settle"}

AtRun(w, r) == worker[w].repo = r /\ worker[w].pc \in Settling

LEMMA IndexingAtRun ==
    IndexingHasJob <=>
        \A r \in Repos : Indexing(repos, r) => \E w \in Workers : AtRun(w, r)
BY DEF IndexingHasJob, Indexing, Paths, AtRun, Jobs, Live, At, Settling

\* state.go:92
LEMMA SetStatusIndexing ==
    ASSUME NEW table \in Table, NEW r \in Repos, NEW status \in Status,
           NEW q \in Repos, Indexing(SetStatus(table, r, status), q)
    PROVE  IF q = r THEN status = "indexing" ELSE Indexing(table, q)
<1>1. CASE Tracked(table, r)
  <2>1. table[r] \in RepoState
    BY <1>1, TrackedRepo
  <2>2. [table[r] EXCEPT !.status = status].status = status
    BY <2>1 DEF RepoState
  <2>3. QED
    BY <1>1, <2>2 DEF Indexing, SetStatus, Tracked, Table
<1>2. CASE ~Tracked(table, r)
  BY <1>2 DEF Indexing, SetStatus, Tracked
<1>3. QED
  BY <1>1, <1>2

\* The other methods leave the status, or put "stale" or nothing in its place.
LEMMA SetIndexedIndexing ==
    ASSUME NEW table \in Table, NEW r \in Repos, NEW sha,
           NEW q \in Repos, Indexing(SetIndexed(table, r, sha), q)
    PROVE  Indexing(table, q)
<1>1. CASE Tracked(table, r)
  <2>1. table[r] \in RepoState
    BY <1>1, TrackedRepo
  <2>2. [table[r] EXCEPT !.indexed = sha].status = table[r].status
    BY <2>1 DEF RepoState
  <2>3. QED
    BY <1>1, <2>2 DEF Indexing, SetIndexed, Tracked, Table
<1>2. CASE ~Tracked(table, r)
  BY <1>2 DEF SetIndexed
<1>3. QED
  BY <1>1, <1>2

LEMMA SetDeltaIndexing ==
    ASSUME NEW table \in Table, NEW r \in Repos, NEW delta,
           NEW q \in Repos, Indexing(SetDelta(table, r, delta), q)
    PROVE  Indexing(table, q)
<1>1. CASE Tracked(table, r)
  <2>1. table[r] \in RepoState
    BY <1>1, TrackedRepo
  <2>2. [table[r] EXCEPT !.delta = delta].status = table[r].status
    BY <2>1 DEF RepoState
  <2>3. QED
    BY <1>1, <2>2 DEF Indexing, SetDelta, Tracked, Table
<1>2. CASE ~Tracked(table, r)
  BY <1>2 DEF SetDelta
<1>3. QED
  BY <1>1, <1>2

LEMMA UpdateIndexing ==
    ASSUME NEW table \in Table, NEW r \in Repos, NEW bh, NEW dirty,
           NEW q \in Repos, Indexing(Update(table, r, bh, dirty), q)
    PROVE  Indexing(table, q)
<1>1. CASE Tracked(table, r)
  <2>1. table[r] \in RepoState
    BY <1>1, TrackedRepo
  <2>2. [table[r] EXCEPT !.branch = bh.branch, !.head = bh.sha,
                         !.dirty = dirty].status = table[r].status
    BY <2>1 DEF RepoState
  <2>3. QED
    BY <1>1, <2>2 DEF Indexing, Update, Tracked, Table
<1>2. CASE ~Tracked(table, r)
  <2>1. NewRepoState(bh, dirty).status = "stale"
    BY DEF NewRepoState
  <2>2. QED
    BY <1>2, <2>1 DEF Indexing, Update, Tracked, Table
<1>3. QED
  BY <1>1, <1>2

LEMMA RemoveIndexing ==
    ASSUME NEW table \in Table, NEW r \in Repos,
           NEW q \in Repos, Indexing(Remove(table, r), q)
    PROVE  Indexing(table, q)
BY DEF Indexing, Remove, Tracked, Table

\* Steps that move no goroutine.
LEMMA QuietIndexing ==
    ASSUME IndexingHasJob, UNCHANGED worker,
           \A r \in Repos : Indexing(repos', r) => Indexing(repos, r)
    PROVE  IndexingHasJob'
<1>1. \A r \in Repos : Indexing(repos', r) => \E w \in Workers : AtRun(w, r)'
  BY IndexingAtRun DEF AtRun
<1>2. QED
  BY <1>1
     DEF IndexingHasJob, Indexing, Tracked, Paths, AtRun, Jobs, Live, At, Settling

\* A step of w: each repo that is indexing afterwards was indexing before and
\* is not the one w was in charge of, or w is in charge of it afterwards.
LEMMA MovedIndexing ==
    ASSUME IndexingHasJob, NEW w \in Workers, OnlyMoves(w),
           \A r \in Repos : Indexing(repos', r) =>
               \/ Indexing(repos, r) /\ ~AtRun(w, r)
               \/ AtRun(w, r)'
    PROVE  IndexingHasJob'
<1>1. ASSUME NEW r \in Repos, Indexing(repos', r)
      PROVE  \E v \in Workers : AtRun(v, r)'
  <2>1. CASE AtRun(w, r)'
    BY <2>1
  <2>2. CASE Indexing(repos, r) /\ ~AtRun(w, r)
    <3>1. PICK v \in Workers : AtRun(v, r)
      BY <2>2, IndexingAtRun
    <3>2. v # w
      BY <2>2, <3>1
    <3>3. AtRun(v, r)'
      BY <3>1, <3>2 DEF AtRun, OnlyMoves
    <3>4. QED
      BY <3>3
  <2>3. QED
    BY <1>1, <2>1, <2>2
<1>2. QED
  BY <1>1
     DEF IndexingHasJob, Indexing, Tracked, Paths, AtRun, Jobs, Live, At, Settling

LEMMA WorkingIndexing ==
    ASSUME Shape, IndexingHasJob, NEW w \in Workers, Working(w)
    PROVE  IndexingHasJob'
<1>1. TypeOK /\ Work(w) /\ OnlyMoves(w) /\ worker'[w].repo = worker[w].repo
  BY WorkingWorks DEF Shape, Work
<1>2. PICK r \in Repos : r = worker[w].repo
  BY <1>1 DEF Shape, JobsHaveRepo, Work, Live, InSlot
<1>3. repos \in Table
  BY <1>1 DEF TypeOK
<1>4. CASE MarkIndexing(w)
  <2>1. worker'[w].pc = "index"
    BY <1>1, <1>4, StatementStep DEF MarkIndexing, Goto, WorkerPC, InSlot
  <2>2. ~\E q \in Repos : AtRun(w, q)
    BY <1>4 DEF MarkIndexing, Goto, At, AtRun, Settling
  <2>3. AtRun(w, r)'
    BY <1>1, <1>2, <2>1 DEF AtRun, Settling
  <2>4. ASSUME NEW q \in Repos, Indexing(repos', q), q # r
        PROVE  Indexing(repos, q)
    BY <1>2, <1>3, <1>4, <2>4, SetStatusIndexing DEF MarkIndexing, Status
  <2>5. QED
    BY <1>1, <2>2, <2>3, <2>4, MovedIndexing
<1>5. CASE MarkError(w) \/ MarkIdle(w)
  <2>1. \/ repos' = SetStatus(repos, r, "error")
        \/ repos' = SetStatus(repos, r, "idle")
    BY <1>2, <1>5 DEF MarkError, MarkIdle
  <2>2. ASSUME NEW q \in Repos, Indexing(repos', q)
        PROVE  Indexing(repos, q) /\ q # r
    <3>1. CASE repos' = SetStatus(repos, r, "error")
      BY <1>3, <2>2, <3>1, SetStatusIndexing DEF Status
    <3>2. CASE repos' = SetStatus(repos, r, "idle")
      BY <1>3, <2>2, <3>2, SetStatusIndexing DEF Status
    <3>3. QED
      BY <2>1, <3>1, <3>2
  <2>3. \A q \in Repos : q # r => ~AtRun(w, q)
    BY <1>2 DEF AtRun
  <2>4. QED
    BY <1>1, <2>2, <2>3, MovedIndexing
<1>6. CASE IndexSucceeds(w) \/ IndexFails(w) \/ ReadHeadFails(w)
  <2>1. worker'[w].pc \in Settling
    BY <1>1, <1>6, StatementStep
       DEF IndexSucceeds, IndexFails, ReadHeadFails, Goto, WorkerPC, InSlot, Settling
  <2>2. \A q \in Repos : AtRun(w, q) => AtRun(w, q)'
    BY <1>1, <2>1 DEF AtRun
  <2>3. repos' = repos
    BY <1>6 DEF IndexSucceeds, IndexFails, ReadHeadFails
  <2>4. QED
    BY <1>1, <2>2, <2>3, MovedIndexing
<1>7. ASSUME NEW sha \in Heads, ReadHead(w, sha)
      PROVE  IndexingHasJob'
  <2>1. worker'[w] = [worker[w] EXCEPT !.pc = "record", !.sha = sha]
    BY <1>1, <1>7 DEF ReadHead, TypeOK
  <2>2. worker'[w].pc \in Settling
    BY <1>1, <2>1 DEF TypeOK, WorkerState, Settling
  <2>3. \A q \in Repos : AtRun(w, q) => AtRun(w, q)'
    BY <1>1, <2>2 DEF AtRun
  <2>4. repos' = repos
    BY <1>7 DEF ReadHead
  <2>5. QED
    BY <1>1, <2>3, <2>4, MovedIndexing
<1>8. CASE RecordIndexed(w)
  <2>1. worker'[w] = [worker[w] EXCEPT !.pc = "settle", !.sha = NoSHA]
    BY <1>1, <1>8 DEF RecordIndexed, TypeOK
  <2>2. worker'[w].pc \in Settling
    BY <1>1, <2>1 DEF TypeOK, WorkerState, Settling
  <2>3. \A q \in Repos : AtRun(w, q) => AtRun(w, q)'
    BY <1>1, <2>2 DEF AtRun
  <2>4. \A q \in Repos : Indexing(repos', q) => Indexing(repos, q)
    BY <1>2, <1>3, <1>8, SetIndexedIndexing DEF RecordIndexed
  <2>5. QED
    BY <1>1, <2>3, <2>4, MovedIndexing
<1>9. CASE PublishDelta(w)
  <2>1. \A q \in Repos : ~AtRun(w, q)
    BY <1>9 DEF PublishDelta, At, AtRun, Settling
  <2>2. \A q \in Repos : Indexing(repos', q) => Indexing(repos, q)
    BY <1>2, <1>3, <1>9, SetDeltaIndexing DEF PublishDelta
  <2>3. QED
    BY <1>1, <2>1, <2>2, MovedIndexing
<1>10. CASE \/ \E dirty \in DirtyLists : ReadStatus(w, dirty)
            \/ ReadStatusFails(w)
            \/ \E f \in Files, content \in Contents \union {Absent} :
                  ReadFile(w, f, content)
            \/ RefreshFetch(w) \/ RefreshFails(w) \/ RefreshSwap(w)
  <2>1. worker[w].pc \notin Settling /\ repos' = repos
    BY <1>10 DEF ReadStatus, ReadStatusFails, ReadFile, RefreshFetch, RefreshFails,
                 RefreshSwap, Goto, At, Settling
  <2>2. \A q \in Repos : ~AtRun(w, q)
    BY <2>1 DEF AtRun
  <2>3. QED
    BY <1>1, <2>1, <2>2, MovedIndexing
<1>11. QED
  BY <1>4, <1>5, <1>6, <1>7, <1>8, <1>9, <1>10 DEF Working

LEMMA PollerWritesIndexing ==
    ASSUME TypeOK, PollerWrites, NEW q \in Repos, Indexing(repos', q)
    PROVE  Indexing(repos, q)
<1>1. PICK r \in Repos :
          \/ \E bh \in BranchHeads, dirty \in DirtyLists :
                repos' = Update(repos, r, bh, dirty)
          \/ repos' = Remove(repos, r)
          \/ \E status \in {"idle", "stale"} :
                repos' = SetStatus(repos, r, status)
          \/ \E sha \in Heads : repos' = SetIndexed(repos, r, sha)
          \/ \E delta \in {NoDelta} \union
                          {d \in DeltaIndex : d.dirtyPaths # {}} :
                repos' = SetDelta(repos, r, delta)
  BY DEF PollerWrites
<1>2. repos \in Table
  BY DEF TypeOK
<1>3. CASE \E bh \in BranchHeads, dirty \in DirtyLists :
              repos' = Update(repos, r, bh, dirty)
  BY <1>2, <1>3, UpdateIndexing
<1>4. CASE repos' = Remove(repos, r)
  BY <1>2, <1>4, RemoveIndexing
<1>5. ASSUME NEW status \in {"idle", "stale"}, repos' = SetStatus(repos, r, status)
      PROVE  Indexing(repos, q)
  <2>1. IF q = r THEN status = "indexing" ELSE Indexing(repos, q)
    BY <1>2, <1>5, SetStatusIndexing DEF Status
  <2>2. QED
    BY <1>5, <2>1
<1>6. CASE \E sha \in Heads : repos' = SetIndexed(repos, r, sha)
  BY <1>2, <1>6, SetIndexedIndexing
<1>7. CASE \E delta \in {NoDelta} \union {d \in DeltaIndex : d.dirtyPaths # {}} :
              repos' = SetDelta(repos, r, delta)
  BY <1>2, <1>7, SetDeltaIndexing
<1>8. QED
  BY <1>1, <1>3, <1>4, <1>5, <1>6, <1>7

LEMMA NextIndexing ==
    ASSUME Shape, IndexingHasJob, [Next]_vars
    PROVE  IndexingHasJob'
<1>1. TypeOK
  BY DEF Shape
<1>2. ASSUME NEW c \in Callers, CallerStep(c)
      PROVE  IndexingHasJob'
  <2>1. repos' = repos
    BY <1>2 DEF CallerStep, PollerTriggers, Spawn, StartAll, StartOne, SweepStep
  <2>2. CASE Spawn(c)
    <3>1. PICK w \in Workers : At(w, "idle") /\ OnlyMoves(w)
      BY <1>1, <2>2, SpawnStep
    <3>2. \A r \in Repos : ~AtRun(w, r)
      BY <3>1 DEF At, AtRun, Settling
    <3>3. QED
      BY <2>1, <3>1, <3>2, MovedIndexing
  <2>3. CASE ~Spawn(c)
    <3>1. UNCHANGED worker
      BY <1>2, <2>3 DEF CallerStep, PollerTriggers, Trigger, StartAll, StartOne,
                        SweepStep, jobVars
    <3>2. QED
      BY <2>1, <3>1, QuietIndexing
  <2>4. QED
    BY <2>2, <2>3
<1>3. ASSUME NEW w \in Workers, Working(w)
      PROVE  IndexingHasJob'
  BY <1>3, WorkingIndexing
<1>4. ASSUME NEW w \in Workers, Acquire(w) \/ Release(w) \/ Unmark(w) \/ Done(w)
      PROVE  IndexingHasJob'
  <2>1. OnlyMoves(w)
    <3>1. CASE Acquire(w)
      BY <1>1, <3>1, StatementStep DEF Acquire, WorkerPC, InSlot
    <3>2. CASE Release(w)
      BY <1>1, <3>2, StatementStep DEF Release, WorkerPC
    <3>3. CASE Unmark(w)
      BY <1>1, <3>3, StatementStep DEF Unmark, WorkerPC
    <3>4. CASE Done(w)
      BY <1>1, <3>4, DoneStep
    <3>5. QED
      BY <1>4, <3>1, <3>2, <3>3, <3>4
  <2>2. repos' = repos /\ worker[w].pc \notin Settling
    BY <1>4 DEF Acquire, Release, Unmark, Done, At, Settling
  <2>3. \A r \in Repos : ~AtRun(w, r)
    BY <2>2 DEF AtRun
  <2>4. QED
    BY <2>1, <2>2, <2>3, MovedIndexing
<1>5. CASE MainStep \/ UNCHANGED vars
  BY <1>5, QuietIndexing DEF MainStep, Shutdown, WaitReturns, Exit, jobVars, vars
<1>6. CASE PollerWrites
  <2>1. UNCHANGED worker
    BY <1>6 DEF PollerWrites, jobVars
  <2>2. QED
    BY <1>1, <1>6, <2>1, PollerWritesIndexing, QuietIndexing
<1>7. QED
  BY <1>2, <1>3, <1>4, <1>5, <1>6, NextSteps

LEMMA InitIndexing == Init => IndexingHasJob
BY DEF Init, EmptyTable, IndexingHasJob, Paths, Tracked

\* A repo that shows "indexing" has a job that will settle it: whatever the
\* poller writes meanwhile and however the run ends, the status is not left
\* behind.
THEOREM IndexingEnds == Spec => []IndexingHasJob
<1>1. IndexingHasJob /\ Shape /\ [Next]_vars => IndexingHasJob'
  BY NextIndexing
<1>2. QED
  BY InitIndexing, <1>1, Invariance, PTL DEF Spec

-----------------------------------------------------------------------------
(***************************************************************************)
(* The manager implements ReindexQueue.                                    *)
(***************************************************************************)
\* The phase of a repo is where its job is.
PhaseAt(pc) == IF pc \in InSlot THEN "running"
               ELSE IF pc = "unmark" THEN "leaving"
               ELSE "queued"

PhaseIsJobs ==
    BusyIsOwned =>
        \A r \in Repos, w \in Workers :
            w \in Jobs(r) => Phase(r) = PhaseAt(worker[w].pc)

LEMMA PhaseOfJob == PhaseIsJobs
<1> SUFFICES ASSUME BusyIsOwned, NEW r \in Repos, NEW w \in Workers, w \in Jobs(r)
             PROVE  Phase(r) = PhaseAt(worker[w].pc)
  BY DEF PhaseIsJobs
<1>1. r \in busy /\ Jobs(r) = {w}
  BY DEF BusyIsOwned
<1> HIDE DEF Jobs
<1>2. QED
  BY <1>1 DEF Phase, PhaseAt, Holders, At, InSlot

\* A step of w in which it is not a job of q leaves q's phase alone.
LEMMA OtherPhase ==
    ASSUME NEW w \in Workers, OnlyMoves(w), NEW q \in Repos,
           q \in busy' <=> q \in busy,
           w \notin Jobs(q),
           worker'[w].repo # q \/ worker'[w].pc \in {"idle", "done"}
    PROVE  Phase(q)' = Phase(q)
<1>1. Jobs(q)' = Jobs(q)
  BY MovedJobs
<1>2. \A v \in Jobs(q) : v \in Workers /\ worker'[v] = worker[v]
  BY DEF OnlyMoves, Jobs, Live
<1> HIDE DEF Jobs
<1>3. \A v \in Jobs(q) : /\ v \in Holders' <=> v \in Holders
                         /\ At(v, "unmark")' <=> At(v, "unmark")
  BY <1>2 DEF Holders, At
<1>4. QED
  BY <1>1, <1>3 DEF Phase

LEMMA QueueMove ==
    ASSUME NEW r \in Repos, NEW from, NEW to,
           main # "exited", main' = main,
           Phase(r) = from, Phase(r)' = to,
           \A q \in Repos \ {r} : Phase(q)' = Phase(q)
    PROVE  Queue!Move(r, from, to)
BY DEF Queue!Move

LEMMA QueueStutters ==
    ASSUME \A q \in Repos : Phase(q)' = Phase(q), main' = main
    PROVE  UNCHANGED Queue!vars
BY DEF Queue!vars

\* No more repos are running than there are goroutines in a slot.
LEMMA RunningBound ==
    ASSUME TypeOK
    PROVE  /\ Cardinality(Queue!Running) \in Nat
           /\ Cardinality(Queue!Running) <= Cardinality(Holders)
<1> DEFINE Image == {worker[w].repo : w \in Holders}
<1>1. IsFiniteSet(Holders)
  BY GoroutinesFinite
<1>2. IsFiniteSet(Image) /\ Cardinality(Image) <= Cardinality(Holders)
  <2> DEFINE f == [w \in Holders |-> worker[w].repo]
  <2>1. f \in Surjection(Holders, Image)
    BY DEF Surjection
  <2>2. QED
    BY <1>1, <2>1, FS_Surjection
<1>3. Queue!Running \subseteq Image
  BY DEF Queue!Running, Phase, Jobs
<1>4. Cardinality(Queue!Running) <= Cardinality(Image)
  BY <1>2, <1>3, FS_Subset
<1>5. Cardinality(Queue!Running) \in Nat
  BY <1>2, <1>3, FS_Subset, FS_CardinalityType
<1>6. Cardinality(Image) \in Nat /\ Cardinality(Holders) \in Nat
  BY <1>1, <1>2, FS_CardinalityType
<1>7. QED
  BY <1>2, <1>4, <1>5, <1>6

\* Every claimed repo is queued.
LEMMA ClaimIsQueued ==
    ASSUME BusyIsOwned, NEW r \in Repos, NEW c \in Claimants(r)
    PROVE  Phase(r) = "queued"
<1>1. r \in busy /\ Jobs(r) = {}
  BY DEF BusyIsOwned
<1> HIDE DEF Jobs
<1>2. QED
  BY <1>1 DEF Phase

LEMMA TriggerRequests ==
    ASSUME TypeOK, BusyIsOwned, NEW c \in Callers, NEW r \in Repos, Trigger(c, r),
           main # "exited", main' = main
    PROVE  [Queue!Next]_Queue!vars
<1>1. \A q \in Repos : Jobs(q)' = Jobs(q) /\ (\A w \in Workers :
          (w \in Holders' <=> w \in Holders) /\ (At(w, "unmark")' <=> At(w, "unmark")))
  BY DEF Trigger, Jobs, Live, At, Holders
<1>2. ASSUME NEW q \in Repos, q \in busy' <=> q \in busy
      PROVE  Phase(q)' = Phase(q)
  <2>1. Jobs(q)' = Jobs(q) /\ Jobs(q) \subseteq Workers
    BY <1>1 DEF Jobs, Live
  <2> HIDE DEF Jobs, Holders
  <2>2. QED
    BY <1>1, <1>2, <2>1 DEF Phase
<1>3. CASE r \in busy
  <2>1. \A q \in Repos : Phase(q)' = Phase(q)
    BY <1>2, <1>3 DEF Trigger
  <2>2. QED
    BY <2>1, QueueStutters
<1>4. CASE r \notin busy
  <2>1. Phase(r) = "none"
    BY <1>4 DEF Phase
  <2>2. Jobs(r) = {}
    BY <1>4 DEF BusyIsOwned
  <2>3. Jobs(r)' = {} /\ r \in busy'
    BY <1>1, <1>4, <2>2 DEF Trigger
  <2>4. Phase(r)' = "queued"
    BY <2>3 DEF Phase
  <2>5. \A q \in Repos \ {r} : Phase(q)' = Phase(q)
    BY <1>2, <1>4 DEF Trigger
  <2>6. Queue!Request(r)
    BY <2>1, <2>4, <2>5, QueueMove DEF Queue!Request
  <2>7. QED
    BY <2>6 DEF Queue!Next
<1>5. QED
  BY <1>3, <1>4

LEMMA SpawnStutters ==
    ASSUME Shape, BusyIsOwned, BusyIsOwned', NEW c \in Callers, Spawn(c)
    PROVE  UNCHANGED Queue!vars
<1>1. TypeOK
  BY DEF Shape
<1>2. PICK w \in Workers : /\ At(w, "idle")
                           /\ OnlyMoves(w)
                           /\ worker'[w].pc = "acquire"
                           /\ worker'[w].repo = claimed[c]
                           /\ claimed[c] \in Repos
  BY <1>1, SpawnStep
<1>3. PICK r \in Repos : r = claimed[c]
  BY <1>2
<1>4. Phase(r) = "queued"
  BY <1>3, ClaimIsQueued DEF Claimants
<1>5. w \in Jobs(r)'
  BY <1>2, <1>3, MovedJobs
<1>6. PhaseIsJobs'
  BY PhaseOfJob, PTL
<1>7. Phase(r)' = "queued"
  BY <1>2, <1>5, <1>6 DEF PhaseIsJobs, PhaseAt, InSlot
<1>8. ASSUME NEW q \in Repos \ {r}
      PROVE  Phase(q)' = Phase(q)
  <2>1. w \notin Jobs(q)
    BY <1>2 DEF Jobs, Live, At
  <2>2. busy' = busy
    BY DEF Spawn
  <2>3. QED
    BY <1>2, <1>3, <1>8, <2>1, <2>2, OtherPhase
<1>9. main' = main
  BY DEF Spawn
<1>10. QED
  BY <1>4, <1>7, <1>8, <1>9, QueueStutters

\* A step of a job of r that is one before and after it.
LEMMA JobPhases ==
    ASSUME BusyIsOwned, BusyIsOwned', NEW w \in Workers, OnlyMoves(w),
           NEW r \in Repos, worker[w].repo = r, worker'[w].repo = r,
           worker[w].pc \notin {"idle", "done"},
           worker'[w].pc \notin {"idle", "done"},
           busy' = busy
    PROVE  /\ Phase(r) = PhaseAt(worker[w].pc)
           /\ Phase(r)' = PhaseAt(worker'[w].pc)
           /\ \A q \in Repos \ {r} : Phase(q)' = Phase(q)
<1>1. w \in Jobs(r)
  BY DEF Jobs, Live, At
<1>2. w \in Jobs(r)'
  BY MovedJobs
<1>3. PhaseIsJobs'
  BY PhaseOfJob, PTL
<1>4. Phase(r) = PhaseAt(worker[w].pc) /\ Phase(r)' = PhaseAt(worker'[w].pc)
  BY <1>1, <1>2, <1>3, PhaseOfJob DEF PhaseIsJobs
<1>5. ASSUME NEW q \in Repos \ {r}
      PROVE  Phase(q)' = Phase(q)
  <2>1. w \notin Jobs(q)
    BY <1>5 DEF Jobs
  <2>2. QED
    BY <1>5, <2>1, OtherPhase
<1>6. QED
  BY <1>4, <1>5

LEMMA JobImplements ==
    ASSUME Shape, Counts, BusyIsOwned, BusyIsOwned', NEW w \in Workers,
           Acquire(w) \/ Working(w) \/ Release(w) \/ Unmark(w) \/ Done(w),
           main # "exited"
    PROVE  [Queue!Next]_Queue!vars
<1>1. TypeOK
  BY DEF Shape
<1>2. CASE Acquire(w)
  <2>1. OnlyMoves(w) /\ worker'[w].pc = "mark" /\ worker'[w].repo = worker[w].repo
    BY <1>1, <1>2, StatementStep DEF Acquire, WorkerPC, InSlot
  <2>2. worker[w].pc = "acquire" /\ busy' = busy /\ main' = main
    BY <1>2 DEF Acquire, At
  <2>3. PICK r \in Repos : r = worker[w].repo
    BY <2>2 DEF Shape, JobsHaveRepo, Live
  <2>4. /\ Phase(r) = "queued" /\ Phase(r)' = "running"
        /\ \A q \in Repos \ {r} : Phase(q)' = Phase(q)
    BY <2>1, <2>2, <2>3, JobPhases DEF PhaseAt, InSlot
  <2>5. Queue!Move(r, "queued", "running")
    BY <2>2, <2>4, QueueMove
  <2>6. Cardinality(Queue!Running) < MaxConcurrentReindex
    <3>1. Cardinality(Queue!Running) <= Cardinality(Holders)
      BY <1>1, RunningBound
    <3>2. Cardinality(Holders) < MaxConcurrentReindex
      BY <1>2 DEF Counts, Acquire
    <3>3. Cardinality(Holders) \in Nat /\ Cardinality(Queue!Running) \in Nat
      BY <1>1, GoroutinesFinite, RunningBound
    <3>4. QED
      BY <3>1, <3>2, <3>3, SlotAssumption
  <2>7. Queue!Start(r)
    BY <2>5, <2>6, Zenon DEF Queue!Start, Queue!Cardinality, Cardinality
  <2>8. QED
    BY <2>7 DEF Queue!Next
<1>3. CASE Working(w)
  <2>1. Work(w)
    BY <1>3, WorkingWorks
  <2>2. PICK r \in Repos : r = worker[w].repo
    BY <2>1 DEF Shape, JobsHaveRepo, Live, Work, InSlot
  <2>3. /\ Phase(r)' = Phase(r)
        /\ \A q \in Repos \ {r} : Phase(q)' = Phase(q)
    BY <2>1, <2>2, JobPhases DEF Work, PhaseAt, InSlot
  <2>4. UNCHANGED Queue!vars
    BY <2>1, <2>3, QueueStutters DEF Work
  <2>5. QED
    BY <2>4
<1>4. CASE Release(w)
  <2>1. OnlyMoves(w) /\ worker'[w].pc = "unmark" /\ worker'[w].repo = worker[w].repo
    BY <1>1, <1>4, StatementStep DEF Release, WorkerPC
  <2>2. worker[w].pc = "release" /\ busy' = busy /\ main' = main
    BY <1>4 DEF Release, At
  <2>3. PICK r \in Repos : r = worker[w].repo
    BY <2>2 DEF Shape, JobsHaveRepo, Live
  <2>4. /\ Phase(r) = "running" /\ Phase(r)' = "leaving"
        /\ \A q \in Repos \ {r} : Phase(q)' = Phase(q)
    BY <2>1, <2>2, <2>3, JobPhases DEF PhaseAt, InSlot
  <2>5. Queue!Finish(r)
    BY <2>2, <2>4, QueueMove DEF Queue!Finish
  <2>6. QED
    BY <2>5 DEF Queue!Next
<1>5. CASE Unmark(w)
  <2>1. OnlyMoves(w) /\ worker'[w].pc = "done"
    BY <1>1, <1>5, StatementStep DEF Unmark, WorkerPC
  <2>2. worker[w].pc = "unmark" /\ main' = main
    BY <1>5 DEF Unmark, At
  <2>3. PICK r \in Repos : r = worker[w].repo
    BY <2>2 DEF Shape, JobsHaveRepo, Live
  <2>4. busy' = busy \ {r}
    BY <1>5, <2>3 DEF Unmark
  <2>5. w \in Jobs(r)
    BY <2>2, <2>3 DEF Jobs, Live, At
  <2>6. Phase(r) = "leaving"
    BY <2>2, <2>5, PhaseOfJob DEF PhaseIsJobs, PhaseAt, InSlot
  <2>7. Phase(r)' = "none"
    BY <2>4 DEF Phase
  <2>8. ASSUME NEW q \in Repos \ {r}
        PROVE  Phase(q)' = Phase(q)
    <3>1. w \notin Jobs(q)
      BY <2>3, <2>8 DEF Jobs
    <3>2. QED
      BY <2>1, <2>4, <2>8, <3>1, OtherPhase
  <2>9. Queue!Leave(r)
    BY <2>2, <2>6, <2>7, <2>8, QueueMove DEF Queue!Leave
  <2>10. QED
    BY <2>9 DEF Queue!Next
<1>6. CASE Done(w)
  <2>1. OnlyMoves(w) /\ worker'[w].pc = "idle"
    BY <1>1, <1>6, DoneStep
  <2>2. ASSUME NEW q \in Repos
        PROVE  Phase(q)' = Phase(q)
    <3>1. w \notin Jobs(q) /\ busy' = busy
      BY <1>6 DEF Done, Jobs, At
    <3>2. QED
      BY <2>1, <3>1, OtherPhase
  <2>3. QED
    BY <1>6, <2>2, QueueStutters DEF Done
<1>7. QED
  BY <1>2, <1>3, <1>4, <1>5, <1>6

\* Steps that move no goroutine and no claim.
LEMMA QuietPhases ==
    ASSUME UNCHANGED <<busy, worker>>
    PROVE  \A q \in Repos : Phase(q)' = Phase(q)
BY DEF Phase, Jobs, Holders, Live, At

LEMMA NextImplements ==
    ASSUME Shape, Counts, BusyIsOwned, BusyIsOwned', [Next]_vars
    PROVE  [Queue!Next]_Queue!vars
<1>1. TypeOK
  BY DEF Shape
<1>2. CASE UNCHANGED vars
  BY <1>2, QuietPhases, QueueStutters DEF vars
<1>3. CASE main # "exited" /\ PollerWrites
  BY <1>3, QuietPhases, QueueStutters DEF PollerWrites, jobVars
<1>4. CASE main # "exited" /\ MainStep
  <2>1. \A q \in Repos : Phase(q)' = Phase(q)
    BY <1>4, QuietPhases DEF MainStep, Shutdown, WaitReturns, Exit, jobVars
  <2>2. CASE Exit
    <3>1. Queue!Stop
      BY <1>4, <2>1, <2>2 DEF Queue!Stop, Exit
    <3>2. QED
      BY <3>1 DEF Queue!Next
  <2>3. CASE Shutdown \/ WaitReturns
    <3>1. (main # "exited")' = (main # "exited")
      BY <2>3 DEF Shutdown, WaitReturns
    <3>2. QED
      BY <2>1, <3>1 DEF Queue!vars
  <2>4. QED
    BY <1>4, <2>2, <2>3 DEF MainStep
<1>5. ASSUME NEW c \in Callers, CallerStep(c), main # "exited"
      PROVE  [Queue!Next]_Queue!vars
  <2>1. main' = main
    BY <1>5 DEF CallerStep, PollerTriggers, Spawn, StartAll, StartOne, SweepStep
  <2>2. CASE PollerTriggers(c)
    BY <1>1, <1>5, <2>1, <2>2, TriggerRequests DEF PollerTriggers
  <2>3. CASE Spawn(c)
    BY <2>3, SpawnStutters
  <2>4. CASE StartAll(c) \/ StartOne(c)
    BY <2>1, <2>4, QuietPhases, QueueStutters DEF StartAll, StartOne, jobVars
  <2>5. CASE SweepStep(c)
    <3>1. PICK r \in sweep[c] : Trigger(c, r)
      BY <2>5 DEF SweepStep
    <3>2. r \in Repos
      BY <1>1, <3>1 DEF TypeOK
    <3>3. QED
      BY <1>1, <1>5, <2>1, <3>1, <3>2, TriggerRequests
  <2>6. QED
    BY <1>5, <2>2, <2>3, <2>4, <2>5 DEF CallerStep
<1>6. ASSUME NEW w \in Workers, main # "exited",
             Acquire(w) \/ Working(w) \/ Release(w) \/ Unmark(w) \/ Done(w)
      PROVE  [Queue!Next]_Queue!vars
  BY <1>6, JobImplements
<1>7. CASE main # "exited" /\ ManagerNext
  BY <1>4, <1>5, <1>6, <1>7 DEF ManagerNext, JobStep, Working
<1>8. QED
  BY <1>2, <1>3, <1>7 DEF Next, Terminated

\* Goroutines, lock, channel and deferred calls together are a queue: a request
\* is dropped only if the repo is in the queue already, a repo starts once for
\* each request, with at most MaxConcurrentReindex running, and leaves only
\* after its run.
THEOREM ManagerImplementsQueue == Spec => ImplementsQueue
<1>1. Init => Queue!Init
  BY DEF Init, JobsInit, Phase, Queue!Init
<1>2. Shape /\ Counts /\ BusyIsOwned /\ BusyIsOwned' /\ [Next]_vars
          => [Queue!Next]_Queue!vars
  BY NextImplements
<1>3. QED
  BY <1>1, <1>2, Invariance, BusyOwned, PTL DEF Spec, ImplementsQueue, Queue!Safety
=============================================================================
