--------------------------- MODULE WatchedDirsProofs ---------------------------
(***************************************************************************)
(* Proofs about the watches of watcher.go and the walk of discovery.go,    *)
(* for any directories, roots and skipped names, whatever the user does    *)
(* and wherever Sync is when an event, a tick or a poll comes in between.  *)
(***************************************************************************)
EXTENDS WatchedDirs, FoldProofs

DirsExist == dirs \subseteq AllDirs /\ watches \subseteq AllDirs

SyncIsRecord ==
    sync = [pc |-> sync.pc, found |-> sync.found, current |-> sync.current,
            todo |-> sync.todo]

\* The repos that a watch may belong to: those that were managed before Sync
\* until it has added the new ones, and from then on those it will manage and
\* those whose watches it has still to remove.
Managed ==
    CASE sync.pc = "add"    -> repoDirs \union sync.current
      [] sync.pc = "remove" -> sync.current \union sync.todo
      [] OTHER              -> repoDirs

AddsCurrent == sync.pc = "add" => sync.todo \subseteq sync.current

WatchesOwned == \A d \in watches : \E r \in Managed : IsPrefix(r, d)

WatchesSound == DirsExist /\ SyncIsRecord /\ AddsCurrent /\ WatchesOwned

-----------------------------------------------------------------------------
(***************************************************************************)
(* The user's steps, and those of the event loop and the flush goroutine:  *)
(* watches only go, with their directories.                                *)
(***************************************************************************)
LEMMA WatchInitSound == WatchInit => WatchesSound
<1> SUFFICES ASSUME WatchInit PROVE WatchesSound
  OBVIOUS
<1>1. /\ sync = [pc |-> "idle", found |-> {}, current |-> {}, todo |-> {}]
      /\ watches = {}
  BY DEF WatchInit, NoSync
<1>2. dirs \subseteq AllDirs
  BY DEF WatchInit
<1>3. QED
  BY <1>1, <1>2 DEF WatchesSound, DirsExist, SyncIsRecord, AddsCurrent, WatchesOwned

LEMMA FewerWatches ==
    ASSUME WatchesSound, dirs' \subseteq AllDirs, watches' \subseteq watches,
           sync' = sync, repoDirs' = repoDirs
    PROVE  WatchesSound'
<1>1. DirsExist' /\ SyncIsRecord' /\ AddsCurrent'
  BY DEF WatchesSound, DirsExist, SyncIsRecord, AddsCurrent
<1>2. Managed' = Managed
  BY DEF Managed
<1>3. WatchesOwned'
  BY <1>2 DEF WatchesSound, WatchesOwned
<1>4. QED
  BY <1>1, <1>3 DEF WatchesSound

LEMMA UserSound ==
    ASSUME WatchesSound, UserChanges
    PROVE  WatchesSound'
<1>1. PICK d \in AllDirs :
          MakeDir(d) \/ RemoveDir(d) \/ ToggleGit(d) \/ ChangeFile(d)
  BY DEF UserChanges
<1>2. sync' = sync /\ repoDirs' = repoDirs
  BY <1>1 DEF MakeDir, RemoveDir, ToggleGit, ChangeFile, Notify, syncVars
<1>3. dirs' \subseteq AllDirs /\ watches' \subseteq watches
  BY <1>1 DEF MakeDir, RemoveDir, ToggleGit, ChangeFile, WatchesSound, DirsExist
<1>4. QED
  BY <1>2, <1>3, FewerWatches

LEMMA LoopSound ==
    ASSUME WatchesSound,
           EventStep \/ TimePasses \/ FlushStep \/ UNCHANGED watchVars
    PROVE  WatchesSound'
<1>1. UNCHANGED <<dirs, watches, sync, repoDirs>>
  BY DEF EventStep, HandleEvent, TimePasses, FlushStep, FlushTick, StartPoll,
         EndPoll, treeVars, syncVars, watchVars
<1>2. QED
  BY <1>1, FewerWatches DEF WatchesSound, DirsExist

-----------------------------------------------------------------------------
(***************************************************************************)
(* Sync.                                                                   *)
(***************************************************************************)
LEMMA DiscoverSound ==
    ASSUME WatchesSound, Walk \/ (\E r \in AllDirs : Forget(r) \/ PollFound(r))
    PROVE  WatchesSound'
<1>1. /\ sync.pc \in {"idle", "poll"}
      /\ sync' = [pc |-> "poll", found |-> sync'.found, current |-> sync.current,
                  todo |-> sync'.todo]
      /\ UNCHANGED <<dirs, repoDirs, watches>>
  BY DEF Walk, Forget, PollFound, Goto, WatchesSound, SyncIsRecord, treeVars
<1>2. Managed' = Managed
  BY <1>1 DEF Managed
<1>3. QED
  BY <1>1, <1>2 DEF WatchesSound, DirsExist, SyncIsRecord, AddsCurrent, WatchesOwned

\* watcher.go:54: nothing is unwatched before all of the new repos are watched.
LEMMA StartSyncSound ==
    ASSUME WatchesSound, StartSync
    PROVE  WatchesSound'
<1>1. /\ sync.pc = "poll"
      /\ sync' = [pc |-> "add", found |-> {}, current |-> tracked,
                  todo |-> tracked \ repoDirs]
      /\ UNCHANGED <<dirs, repoDirs, watches>>
  BY DEF StartSync, treeVars
<1>2. Managed = repoDirs /\ Managed' = repoDirs \union tracked
  BY <1>1 DEF Managed
<1>3. QED
  BY <1>1, <1>2 DEF WatchesSound, DirsExist, SyncIsRecord, AddsCurrent, WatchesOwned

\* The directories below a repo that Sync adds belong to it.
LEMMA AddSound ==
    ASSUME WatchesSound, NEW r, AddRecursive(r)
    PROVE  WatchesSound'
<1>1. /\ sync.pc = "add" /\ r \in sync.todo
      /\ sync' = [pc |-> "add", found |-> sync.found, current |-> sync.current,
                  todo |-> sync.todo \ {r}]
      /\ UNCHANGED <<dirs, repoDirs>>
  BY DEF AddRecursive, Goto, WatchesSound, SyncIsRecord, treeVars
<1>2. Managed' = Managed /\ r \in Managed
  BY <1>1 DEF Managed, WatchesSound, AddsCurrent
<1>3. \A d \in watches' : d \in watches \/ (d \in dirs /\ IsPrefix(r, d))
  BY DEF AddRecursive, Below
<1>4. WatchesOwned'
  BY <1>2, <1>3 DEF WatchesSound, WatchesOwned
<1>5. DirsExist' /\ SyncIsRecord' /\ AddsCurrent'
  BY <1>1, <1>3 DEF WatchesSound, DirsExist, SyncIsRecord, AddsCurrent
<1>6. QED
  BY <1>4, <1>5 DEF WatchesSound

LEMMA AllAddedSound ==
    ASSUME WatchesSound, AllAdded
    PROVE  WatchesSound'
<1>1. /\ sync.pc = "add"
      /\ sync' = [pc |-> "remove", found |-> sync.found, current |-> sync.current,
                  todo |-> repoDirs \ sync.current]
      /\ UNCHANGED <<dirs, repoDirs, watches>>
  BY DEF AllAdded, Goto, WatchesSound, SyncIsRecord, treeVars
<1>2. Managed' = Managed
  BY <1>1 DEF Managed
<1>3. QED
  BY <1>1, <1>2 DEF WatchesSound, DirsExist, SyncIsRecord, AddsCurrent, WatchesOwned

\* watcher.go:165: every watch below a repo that is gone is removed, so that
\* those that are left belong to another.
LEMMA RemoveSound ==
    ASSUME WatchesSound, NEW r, RemoveRecursive(r)
    PROVE  WatchesSound'
<1>1. /\ sync.pc = "remove"
      /\ sync' = [pc |-> "remove", found |-> sync.found, current |-> sync.current,
                  todo |-> sync.todo \ {r}]
      /\ UNCHANGED <<dirs, repoDirs>>
  BY DEF RemoveRecursive, Goto, WatchesSound, SyncIsRecord, treeVars
<1>2. \A d \in watches' : d \in watches /\ ~IsPrefix(r, d)
  BY DEF RemoveRecursive, Below, WatchesSound, DirsExist
<1>3. Managed \subseteq Managed' \union {r}
  BY <1>1 DEF Managed
<1>4. WatchesOwned'
  BY <1>2, <1>3 DEF WatchesSound, WatchesOwned
<1>5. DirsExist' /\ SyncIsRecord' /\ AddsCurrent'
  BY <1>1, <1>2 DEF WatchesSound, DirsExist, SyncIsRecord, AddsCurrent
<1>6. QED
  BY <1>4, <1>5 DEF WatchesSound

LEMMA EndSyncSound ==
    ASSUME WatchesSound, EndSync
    PROVE  WatchesSound'
<1>1. /\ sync.pc = "remove" /\ sync.todo = {} /\ repoDirs' = sync.current
      /\ sync' = [pc |-> "idle", found |-> {}, current |-> {}, todo |-> {}]
      /\ UNCHANGED <<dirs, watches>>
  BY DEF EndSync, NoSync, treeVars
<1>2. Managed' = Managed
  BY <1>1 DEF Managed
<1>3. QED
  BY <1>1, <1>2 DEF WatchesSound, DirsExist, SyncIsRecord, AddsCurrent, WatchesOwned

-----------------------------------------------------------------------------
LEMMA WatchStepSound == WatchesSound /\ [WatchNext]_watchVars => WatchesSound'
<1> SUFFICES ASSUME WatchesSound, [WatchNext]_watchVars PROVE WatchesSound'
  OBVIOUS
<1>1. CASE UserChanges
  BY <1>1, UserSound
<1>2. CASE SyncStep
  BY <1>2, DiscoverSound, StartSyncSound, AddSound, AllAddedSound, RemoveSound,
     EndSyncSound DEF SyncStep
<1>3. CASE EventStep \/ TimePasses \/ FlushStep \/ UNCHANGED watchVars
  BY <1>3, LoopSound
<1>4. QED
  BY <1>1, <1>2, <1>3 DEF WatchNext

\* Whatever comes and goes while Sync walks the trees, it leaves no watch
\* behind whose events would belong to no repo, for any trees and roots.
THEOREM WatchesManaged == WatchSpec => []WatchesAreManaged
<1>1. WatchesSound => WatchesAreManaged
  BY DEF WatchesSound, WatchesOwned, Managed, WatchesAreManaged, Owners
<1>2. QED
  BY <1>1, WatchInitSound, WatchStepSound, PTL DEF WatchSpec

-----------------------------------------------------------------------------
(***************************************************************************)
(* Paths as sequences of names.                                            *)
(***************************************************************************)
Names == UNION {Range(d) : d \in AllDirs}

LEMMA DirIsPath ==
    ASSUME NEW d \in AllDirs
    PROVE  d \in Seq(Names) /\ Len(d) \in Nat
BY WatchedDirsAssumption, LenProperties DEF Names

LEMMA PrefixByName ==
    ASSUME NEW d \in AllDirs, NEW e \in AllDirs
    PROVE  IsPrefix(d, e) <=> Len(d) <= Len(e) /\ \A i \in 1..Len(d) : d[i] = e[i]
<1>1. d \in Seq(Names) /\ e \in Seq(Names) /\ Len(d) \in Nat /\ Len(e) \in Nat
  BY DirIsPath
<1>2. SubSeq(d, 1, Len(d)) = d
  BY <1>1, SubSeqFull
<1>3. SUFFICES ASSUME Len(d) <= Len(e)
               PROVE  d = SubSeq(e, 1, Len(d)) <=> \A i \in 1..Len(d) : d[i] = e[i]
  BY <1>2 DEF IsPrefix
<1>4. \A i \in 1..Len(d) : e[i] \in Names
  BY <1>1, <1>3, ElementOfSeq
<1>5. /\ SubSeq(e, 1, Len(d)) \in Seq(Names)
      /\ Len(SubSeq(e, 1, Len(d))) = Len(d)
      /\ \A i \in 1..Len(d) : SubSeq(e, 1, Len(d))[i] = e[i]
  BY <1>1, <1>4, SubSeqProperties
<1>6. QED
  BY <1>1, <1>5, SeqEqual

LEMMA PrefixTransitive ==
    ASSUME NEW d \in AllDirs, NEW e \in AllDirs, NEW g \in AllDirs,
           IsPrefix(d, e), IsPrefix(e, g)
    PROVE  IsPrefix(d, g)
BY PrefixByName, DirIsPath

LEMMA PrefixAntisymmetric ==
    ASSUME NEW d \in AllDirs, NEW e \in AllDirs, IsPrefix(d, e), Len(d) = Len(e)
    PROVE  d = e
BY PrefixByName, DirIsPath, SeqEqual

\* Two directories on one path.
LEMMA PrefixesNest ==
    ASSUME NEW d \in AllDirs, NEW e \in AllDirs, NEW g \in AllDirs,
           IsPrefix(d, g), IsPrefix(e, g), Len(d) <= Len(e)
    PROVE  IsPrefix(d, e)
BY PrefixByName, DirIsPath

-----------------------------------------------------------------------------
(***************************************************************************)
(* What is on disk is a tree: with a directory, those above it, and a      *)
(* repository is a directory.                                              *)
(***************************************************************************)
DiskSound == dirs \subseteq AllDirs /\ gits \subseteq dirs /\ IsTree(dirs)

LEMMA RemovalLeavesTree ==
    ASSUME DiskSound, NEW d \in AllDirs
    PROVE  IsTree(dirs \ Below(dirs, d))
<1> SUFFICES ASSUME NEW g \in dirs \ Below(dirs, d), NEW e \in AllDirs, IsPrefix(e, g)
             PROVE  e \in dirs \ Below(dirs, d)
  BY DEF IsTree
<1>1. g \in AllDirs /\ e \in dirs
  BY DEF DiskSound, IsTree
<1>2. ~IsPrefix(d, e)
  BY <1>1, PrefixTransitive DEF Below
<1>3. QED
  BY <1>1, <1>2 DEF Below

LEMMA DiskStays == DiskSound /\ [WatchNext]_watchVars => DiskSound'
<1> SUFFICES ASSUME DiskSound, [WatchNext]_watchVars PROVE DiskSound'
  OBVIOUS
<1>1. CASE UNCHANGED <<dirs, gits>>
  BY <1>1 DEF DiskSound, IsTree
<1>2. ASSUME NEW d \in AllDirs, MakeDir(d) PROVE DiskSound'
  BY <1>2 DEF MakeDir, DiskSound
<1>3. ASSUME NEW d \in AllDirs, RemoveDir(d) PROVE DiskSound'
  <2>1. IsTree(dirs')
    BY <1>3, RemovalLeavesTree DEF RemoveDir
  <2>2. QED
    BY <1>3, <2>1 DEF RemoveDir, DiskSound
<1>4. ASSUME NEW d \in AllDirs, ToggleGit(d) PROVE DiskSound'
  BY <1>4 DEF ToggleGit, DiskSound, IsTree
<1>5. ASSUME NEW d \in AllDirs, ChangeFile(d) PROVE DiskSound'
  BY <1>5, <1>1 DEF ChangeFile
<1>6. CASE UserChanges
  BY <1>6, <1>2, <1>3, <1>4, <1>5 DEF UserChanges
<1>7. CASE SyncStep \/ EventStep \/ TimePasses \/ FlushStep \/ UNCHANGED watchVars
  BY <1>7, <1>1 DEF SyncStep, Walk, Forget, PollFound, StartSync, AllAdded, EndSync, AddRecursive,
         RemoveRecursive, EventStep, HandleEvent, TimePasses, FlushStep, FlushTick,
         StartPoll, EndPoll, treeVars, watchVars
<1>8. QED
  BY <1>6, <1>7 DEF WatchNext

-----------------------------------------------------------------------------
(***************************************************************************)
(* What the walk of discovery.go returns.  Outermost(root, d) is what it   *)
(* should find from d on: it satisfies the equation of the recursion, and  *)
(* by induction on the depth no other function does.                       *)
(***************************************************************************)
Outermost(root, d) ==
    {e \in gits : /\ IsPrefix(d, e) /\ ~Excluded(e) /\ Depth(root, e) <= ScanDepth
                  /\ \A h \in gits \ {e} : ~(IsPrefix(d, h) /\ IsPrefix(h, e))}

LEMMA TooDeep ==
    ASSUME DiskSound, NEW root \in AllDirs, NEW d \in dirs, Depth(root, d) > ScanDepth
    PROVE  Outermost(root, d) = {}
<1> SUFFICES ASSUME NEW e \in gits, IsPrefix(d, e), Depth(root, e) <= ScanDepth
             PROVE  FALSE
  BY DEF Outermost
<1>1. /\ d \in AllDirs /\ e \in AllDirs
      /\ Len(root) \in Nat /\ Len(d) \in Nat /\ Len(e) \in Nat
  BY DirIsPath DEF DiskSound
<1>2. QED
  BY <1>1, DiscoveryAssumption DEF IsPrefix, Depth

LEMMA StopsAtRepo ==
    ASSUME DiskSound, NEW root \in AllDirs, NEW d \in gits, Depth(root, d) <= ScanDepth
    PROVE  Outermost(root, d) = {e \in {d} : ~Excluded(e)}
<1>1. gits \subseteq AllDirs /\ d \in AllDirs
  BY DEF DiskSound
<1>2. IsPrefix(d, d)
  BY <1>1, DirIsPath, PrefixByName
<1>3. ASSUME NEW e \in Outermost(root, d) PROVE e = d
  BY <1>2 DEF Outermost
<1>4. ASSUME NEW h \in gits, IsPrefix(d, h), IsPrefix(h, d) PROVE h = d
  <2>1. Len(h) = Len(d)
    BY <1>1, <1>4, DirIsPath DEF IsPrefix
  <2>2. QED
    BY <1>1, <1>4, <2>1, PrefixAntisymmetric
<1>5. QED
  BY <1>2, <1>3, <1>4 DEF Outermost

\* The next directory on the way from d to a directory below it.
LEMMA NextOnPath ==
    ASSUME DiskSound, NEW root \in Roots, NEW d \in dirs, NEW e \in dirs,
           IsPrefix(root, d), IsPrefix(d, e), d # e
    PROVE  \E c \in Children(dirs, d) : IsPrefix(c, e)
<1> DEFINE c == SubSeq(e, 1, Len(d) + 1)
<1>1. /\ root \in AllDirs /\ d \in AllDirs /\ e \in AllDirs
      /\ Len(root) \in Nat /\ Len(d) \in Nat /\ Len(e) \in Nat /\ e \in Seq(Names)
  BY DirIsPath, WatchedDirsAssumption DEF DiskSound
<1>2. Len(root) <= Len(d) /\ Len(d) <= Len(e) /\ IsPrefix(root, e)
  BY <1>1, PrefixTransitive DEF IsPrefix
<1>3. Len(d) + 1 <= Len(e)
  BY <1>1, <1>2, PrefixAntisymmetric
<1>4. c \in AllDirs
  BY <1>1, <1>2, <1>3, WatchedDirsAssumption
<1>5. Len(c) = Len(d) + 1 /\ \A i \in 1..Len(c) : c[i] = e[i]
  <2>1. \A i \in 1..(Len(d) + 1) : e[i] \in Names
    BY <1>1, <1>3, ElementOfSeq
  <2>2. /\ Len(c) = Len(d) + 1
        /\ \A i \in 1..(Len(d) + 1) : c[i] = e[i]
    BY <1>1, <2>1, SubSeqProperties
  <2>3. QED
    BY <2>2
<1> HIDE DEF c
<1>6. IsPrefix(c, e)
  BY <1>1, <1>3, <1>4, <1>5, PrefixByName
<1>7. IsPrefix(d, c)
  BY <1>1, <1>4, <1>5, <1>6, PrefixesNest
<1>8. c \in dirs
  BY <1>4, <1>6 DEF DiskSound, IsTree
<1>9. QED
  BY <1>5, <1>6, <1>7, <1>8 DEF Children, Below

LEMMA GoesOnBelow ==
    ASSUME DiskSound, NEW root \in Roots, NEW d \in dirs, IsPrefix(root, d), d \notin gits
    PROVE  Outermost(root, d) = UNION {Outermost(root, c) : c \in Children(dirs, d)}
<1>1. /\ root \in AllDirs /\ d \in AllDirs /\ gits \subseteq dirs /\ dirs \subseteq AllDirs
      /\ Children(dirs, d) \subseteq dirs
      /\ \A c \in Children(dirs, d) : IsPrefix(d, c) /\ Len(c) = Len(d) + 1
  BY WatchedDirsAssumption DEF DiskSound, Children, Below
<1>2. ASSUME NEW e \in Outermost(root, d)
      PROVE  \E c \in Children(dirs, d) : e \in Outermost(root, c)
  <2>1. e \in gits /\ IsPrefix(d, e) /\ d # e
    BY <1>2 DEF Outermost
  <2>2. PICK c \in Children(dirs, d) : IsPrefix(c, e)
    BY <1>1, <2>1, NextOnPath
  <2>3. \A h \in gits : IsPrefix(c, h) => IsPrefix(d, h)
    BY <1>1, <2>2, PrefixTransitive
  <2>4. e \in Outermost(root, c)
    BY <1>2, <2>2, <2>3 DEF Outermost
  <2>5. QED
    BY <2>4
<1>3. ASSUME NEW c \in Children(dirs, d), NEW e \in Outermost(root, c)
      PROVE  e \in Outermost(root, d)
  <2>1. e \in gits /\ IsPrefix(c, e)
    BY <1>3 DEF Outermost
  <2>2. IsPrefix(d, e)
    BY <1>1, <2>1, PrefixTransitive
  <2>3. ASSUME NEW h \in gits, IsPrefix(d, h), IsPrefix(h, e) PROVE IsPrefix(c, h)
    <3>1. h \in AllDirs /\ c \in AllDirs /\ e \in AllDirs
      BY <1>1, <2>1
    <3>2. Len(h) # Len(d)
      BY <1>1, <2>3, <3>1, PrefixAntisymmetric
    <3>3. Len(c) <= Len(h)
      BY <1>1, <2>3, <3>1, <3>2, DirIsPath DEF IsPrefix
    <3>4. QED
      BY <3>1, <3>3, <2>1, <2>3, PrefixesNest
  <2>4. QED
    BY <1>3, <2>2, <2>3 DEF Outermost
<1>4. QED
  BY <1>2, <1>3

\* One call of the walk, in terms of the calls below it.
Turn(root, below, d) ==
    IF Depth(root, d) > ScanDepth THEN {}
    ELSE IF d \in gits THEN {e \in {d} : ~Excluded(e)}
    ELSE UNION {below[e] : e \in Children(dirs, d)}

Walks(root, walk) ==
    walk = [d \in Below(dirs, root) |-> Turn(root, walk, d)]

LEMMA OutermostWalks ==
    ASSUME DiskSound, NEW root \in Roots
    PROVE  Walks(root, [d \in Below(dirs, root) |-> Outermost(root, d)])
<1> DEFINE found == [d \in Below(dirs, root) |-> Outermost(root, d)]
<1> SUFFICES ASSUME NEW d \in Below(dirs, root)
             PROVE  Outermost(root, d) = Turn(root, found, d)
  BY DEF Walks
<1>1. /\ root \in AllDirs /\ d \in dirs /\ IsPrefix(root, d)
      /\ dirs \subseteq AllDirs
  BY WatchedDirsAssumption DEF DiskSound, Below
<1>2. \A c \in Children(dirs, d) : found[c] = Outermost(root, c)
  BY <1>1, PrefixTransitive DEF Children, Below
<1> HIDE DEF found
<1>3. CASE Depth(root, d) > ScanDepth
  BY <1>1, <1>3, TooDeep DEF Turn
<1>4. CASE ~(Depth(root, d) > ScanDepth) /\ d \in gits
  <2>1. Depth(root, d) <= ScanDepth
    BY <1>1, <1>4, DirIsPath, DiscoveryAssumption DEF Depth
  <2>2. QED
    BY <1>1, <1>4, <2>1, StopsAtRepo DEF Turn
<1>5. CASE ~(Depth(root, d) > ScanDepth) /\ d \notin gits
  <2>1. Outermost(root, d) = UNION {Outermost(root, c) : c \in Children(dirs, d)}
    BY <1>1, <1>5, GoesOnBelow
  <2>2. {Outermost(root, c) : c \in Children(dirs, d)} =
        {found[c] : c \in Children(dirs, d)}
    BY <1>2
  <2>3. QED
    BY <1>5, <2>1, <2>2 DEF Turn
<1>6. QED
  BY <1>3, <1>4, <1>5

\* By induction on how far d is from the depth at which the walk stops.
LEMMA OnlyOneWalk ==
    ASSUME DiskSound, NEW root \in Roots, NEW f, Walks(root, f), NEW g, Walks(root, g),
           NEW d \in Below(dirs, root)
    PROVE  f[d] = g[d]
<1> DEFINE D    == Below(dirs, root)
           Deep == {n \in Nat : \A e \in D :
                                   ScanDepth + 1 <= Depth(root, e) + n => f[e] = g[e]}
<1>1. /\ root \in AllDirs /\ D \subseteq AllDirs /\ D \subseteq dirs /\ dirs \subseteq AllDirs
      /\ \A e \in D : IsPrefix(root, e)
  BY WatchedDirsAssumption DEF DiskSound, Below
<1>2. \A e \in D : Depth(root, e) \in Nat
  BY <1>1, DirIsPath DEF IsPrefix, Depth
<1>3. \A e \in D : f[e] = Turn(root, f, e) /\ g[e] = Turn(root, g, e)
  BY DEF Walks
<1>4. 0 \in Deep
  <2> SUFFICES ASSUME NEW e \in D, ScanDepth + 1 <= Depth(root, e) + 0
               PROVE  f[e] = g[e]
    OBVIOUS
  <2>1. Depth(root, e) > ScanDepth
    BY <1>2, DiscoveryAssumption
  <2>2. QED
    BY <1>3, <2>1 DEF Turn
<1>5. ASSUME NEW n \in Deep PROVE n + 1 \in Deep
  <2> SUFFICES ASSUME NEW e \in D, ScanDepth + 1 <= Depth(root, e) + (n + 1)
               PROVE  f[e] = g[e]
    OBVIOUS
  <2>1. ASSUME NEW c \in Children(dirs, e) PROVE f[c] = g[c]
    <3>1. c \in dirs /\ IsPrefix(e, c) /\ Len(c) = Len(e) + 1
      BY DEF Children, Below
    <3>2. c \in D
      BY <1>1, <3>1, PrefixTransitive DEF Below
    <3>3. Depth(root, c) = Depth(root, e) + 1
      BY <1>1, <3>1, <3>2, DirIsPath DEF Depth
    <3>4. ScanDepth + 1 <= Depth(root, c) + n
      BY <1>2, <3>3, DiscoveryAssumption
    <3>5. QED
      BY <3>2, <3>4
  <2>2. {f[c] : c \in Children(dirs, e)} = {g[c] : c \in Children(dirs, e)}
    BY <2>1
  <2>3. QED
    BY <1>3, <2>2 DEF Turn
<1>6. Deep = Nat
  <2>1. Deep \subseteq Nat
    OBVIOUS
  <2> HIDE DEF Deep
  <2>2. QED
    BY <1>4, <1>5, <2>1, SetInduction
<1>7. ScanDepth + 1 \in Deep
  <2> HIDE DEF Deep
  <2>1. QED
    BY <1>6, DiscoveryAssumption
<1>8. QED
  BY <1>2, <1>7, DiscoveryAssumption

LEMMA WalkIsOutermost ==
    ASSUME DiskSound, NEW root \in Roots \intersect dirs
    PROVE  WalkForRepos(dirs, gits, root) = Outermost(root, root)
<1> DEFINE walk == CHOOSE walk : Walks(root, walk)
           found == [d \in Below(dirs, root) |-> Outermost(root, d)]
<1>1. Walks(root, found)
  BY OutermostWalks
<1>2. Walks(root, walk)
  BY <1>1
<1>3. WalkForRepos(dirs, gits, root) = walk[root]
  BY DEF WalkForRepos, Walks, Turn
<1>4. root \in Below(dirs, root)
  BY WatchedDirsAssumption, DirIsPath, PrefixByName DEF Below
<1> HIDE DEF walk
<1>5. walk[root] = found[root]
  <2> HIDE DEF found
  <2>1. QED
    BY <1>1, <1>2, <1>4, OnlyOneWalk
<1>6. QED
  BY <1>3, <1>4, <1>5

LEMMA DiscoveryIsOutermost ==
    ASSUME DiskSound
    PROVE  DiscoverRepos(dirs, gits) =
               UNION {Outermost(root, root) : root \in Roots \intersect dirs}
<1>1. {WalkForRepos(dirs, gits, root) : root \in Roots \intersect dirs} =
      {Outermost(root, root) : root \in Roots \intersect dirs}
  BY WalkIsOutermost
<1>2. QED
  BY <1>1 DEF DiscoverRepos

LEMMA FoundBelowRoots == DiskSound => DiscoveryFindsOutermost
<1> SUFFICES ASSUME DiskSound PROVE DiscoveryFindsOutermost
  OBVIOUS
<1>1. ASSUME NEW root \in Roots, NEW d \in gits, IsPrefix(root, d) PROVE root \in dirs
  BY <1>1, WatchedDirsAssumption DEF DiskSound, IsTree
<1>2. QED
  BY <1>1, DiscoveryIsOutermost DEF DiscoveryFindsOutermost, Outermost

LEMMA FoundAreRepos ==
    ASSUME DiskSound
    PROVE  DiscoverRepos(dirs, gits) \subseteq gits
BY DiscoveryIsOutermost DEF Outermost

\* discovery.go:40: of the repositories below the roots the walk finds those
\* that lie in no other one, and none twice, for any tree of directories.
THEOREM DiscoveryCorrect == WatchSpec => []DiscoveryFindsOutermost
<1>1. WatchInit => DiskSound
  BY DEF WatchInit, DiskSound
<1>2. QED
  BY <1>1, DiskStays, FoundBelowRoots, PTL DEF WatchSpec

-----------------------------------------------------------------------------
(***************************************************************************)
(* The type of every variable.                                             *)
(***************************************************************************)
LEMMA AtMostOne == \A r : Cardinality({}) <= 1 /\ Cardinality({r}) <= 1
<1>1. Cardinality({}) = 0 /\ \A r : Cardinality({r}) = 1
  BY FS_EmptySet, FS_Singleton, Zenon
<1>2. QED
  BY <1>1

LEMMA UserTyped ==
    ASSUME WatchType, DiskSound', UserChanges
    PROVE  WatchType'
<1>1. PICK d \in AllDirs :
          MakeDir(d) \/ RemoveDir(d) \/ ToggleGit(d) \/ ChangeFile(d)
  BY DEF UserChanges
<1>2. /\ \E seen \in SUBSET AllDirs : Notify(seen)
      /\ UNCHANGED <<syncVars, flushVars>>
  <2>1. dirs \subseteq AllDirs /\ watches \subseteq AllDirs
    BY DEF WatchType
  <2>2. CASE MakeDir(d)
    <3>1. {e \in {d} : Parents(e) \intersect watches # {}} \in SUBSET AllDirs
      OBVIOUS
    <3>2. QED
      BY <2>2, <3>1 DEF MakeDir, Notify
  <2>3. CASE RemoveDir(d)
    <3>1. {e \in Below(dirs, d) : (Parents(e) \union {e}) \intersect watches # {}}
              \in SUBSET AllDirs
      BY <2>1 DEF Below
    <3>2. QED
      BY <2>3, <3>1 DEF RemoveDir, Notify
  <2>4. CASE ToggleGit(d) \/ ChangeFile(d)
    <3>1. {d} \intersect watches \in SUBSET AllDirs /\ {d} \in SUBSET AllDirs
      BY <2>1
    <3>2. QED
      BY <2>4, <3>1 DEF ToggleGit, ChangeFile, Notify
  <2>5. QED
    BY <1>1, <2>2, <2>3, <2>4
<1>3. watches' \subseteq dirs'
  BY <1>1 DEF MakeDir, RemoveDir, ToggleGit, ChangeFile, WatchType
<1>4. /\ changes' \in 0..MaxChanges /\ events' \subseteq AllDirs
      /\ unpolled' \subseteq AllDirs \X AllDirs
  BY <1>2, WatchedDirsAssumption DEF WatchType, Notify
<1>5. QED
  BY <1>2, <1>3, <1>4 DEF WatchType, DiskSound, syncVars, flushVars

LEMMA SyncTyped ==
    ASSUME WatchType, DiskSound, SyncStep
    PROVE  WatchType'
<1>1. CASE Walk
  <2>1. DiscoverRepos(dirs, gits) \subseteq AllDirs
    BY FoundAreRepos DEF DiskSound
  <2>2. sync' \in SyncState
    BY <1>1, <2>1 DEF Walk, WatchType, SyncState
  <2>3. QED
    BY <1>1, <2>2 DEF Walk, WatchType, treeVars, flushVars
<1>2. CASE StartSync
  BY <1>2 DEF StartSync, WatchType, SyncState, treeVars, flushVars
<1>3. CASE AllAdded
  <2>1. sync' \in SyncState
    BY <1>3 DEF AllAdded, Goto, WatchType, SyncState
  <2>2. QED
    BY <1>3, <2>1 DEF AllAdded, WatchType, treeVars, flushVars
<1>4. CASE EndSync
  BY <1>4 DEF EndSync, NoSync, WatchType, SyncState, treeVars, flushVars
<1>5. ASSUME NEW r \in AllDirs, AddRecursive(r) \/ RemoveRecursive(r)
      PROVE  WatchType'
  <2>1. sync' \in SyncState
    BY <1>5 DEF AddRecursive, RemoveRecursive, Goto, WatchType, SyncState
  <2>2. watches' \subseteq dirs
    BY <1>5 DEF AddRecursive, RemoveRecursive, WatchType, Below
  <2>3. QED
    BY <1>5, <2>1, <2>2
       DEF AddRecursive, RemoveRecursive, WatchType, treeVars, flushVars
<1>6. ASSUME NEW r \in AllDirs, Forget(r) \/ PollFound(r)
      PROVE  WatchType'
  <2>1. sync' \in SyncState
    BY <1>6 DEF Forget, PollFound, Goto, WatchType, SyncState
  <2>2. tracked' \subseteq AllDirs
    BY <1>6 DEF Forget, PollFound, WatchType
  <2>3. QED
    BY <1>6, <2>1, <2>2 DEF Forget, PollFound, WatchType, treeVars, flushVars
<1>7. QED
  BY <1>1, <1>2, <1>3, <1>4, <1>5, <1>6 DEF SyncStep

LEMMA LoopTyped ==
    ASSUME WatchType, EventStep \/ TimePasses \/ FlushStep
    PROVE  WatchType'
<1> USE DEF WatchType, treeVars, syncVars
<1>1. CASE EventStep
  <2>1. PICK e \in AllDirs : HandleEvent(e)
    BY <1>1 DEF EventStep
  <2>2. pending' \in [AllDirs -> Deadline]
    BY <2>1, WatchedDirsAssumption DEF HandleEvent, Owners, Deadline
  <2>3. QED
    BY <2>1, <2>2 DEF HandleEvent
<1>2. CASE TimePasses
  <2>1. \A r \in AllDirs : pending[r] \in {0, NoDeadline} \/ pending[r] - 1 \in 0..Debounce
    BY WatchedDirsAssumption DEF Deadline
  <2>2. pending' \in [AllDirs -> Deadline]
    BY <1>2, <2>1 DEF TimePasses, Deadline
  <2>3. QED
    BY <1>2, <2>2 DEF TimePasses
<1>3. CASE FlushTick
  <2>1. pending' \in [AllDirs -> Deadline] /\ ready' \subseteq AllDirs
    BY <1>3 DEF FlushTick, Due, Deadline
  <2>2. QED
    BY <1>3, <2>1 DEF FlushTick
<1>4. ASSUME NEW r \in AllDirs, StartPoll(r) \/ EndPoll(r) PROVE WatchType'
  BY <1>4, AtMostOne DEF StartPoll, EndPoll
<1>5. QED
  BY <1>1, <1>2, <1>3, <1>4 DEF FlushStep

\* Every variable keeps its type: no watch outlives its directory, and what
\* Sync is given by discovery are directories.
THEOREM WatchTyped == WatchSpec => []WatchType
<1>1. WatchInit => WatchType /\ DiskSound
  <2> SUFFICES ASSUME WatchInit PROVE WatchType /\ DiskSound
    OBVIOUS
  <2>1. changes \in 0..MaxChanges /\ pending \in [AllDirs -> Deadline]
    BY WatchedDirsAssumption DEF WatchInit, Deadline
  <2>2. sync \in SyncState
    BY DEF WatchInit, NoSync, SyncState
  <2>3. polling \subseteq AllDirs /\ Cardinality(polling) <= 1
    BY AtMostOne DEF WatchInit
  <2>4. QED
    BY <2>1, <2>2, <2>3 DEF WatchInit, WatchType, DiskSound
<1>2. WatchType /\ DiskSound /\ [WatchNext]_watchVars => WatchType' /\ DiskSound'
  <2> SUFFICES ASSUME WatchType, DiskSound, [WatchNext]_watchVars
               PROVE  WatchType' /\ DiskSound'
    OBVIOUS
  <2>1. DiskSound'
    BY DiskStays
  <2>2. CASE UNCHANGED watchVars
    BY <2>1, <2>2 DEF watchVars, treeVars, syncVars, flushVars, WatchType
  <2>3. CASE WatchNext
    BY <2>1, <2>3, UserTyped, SyncTyped, LoopTyped DEF WatchNext
  <2>4. QED
    BY <2>1, <2>2, <2>3
<1>3. QED
  BY <1>1, <1>2, PTL DEF WatchSpec
=============================================================================
