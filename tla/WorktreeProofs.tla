--------------------------- MODULE WorktreeProofs ---------------------------
(***************************************************************************)
(* What is proved of Worktree: the list that the parser makes of what git  *)
(* prints names each file that differs from HEAD, if its name is printed   *)
(* as it is, and the delta index made of the list holds what the working   *)
(* tree holds.                                                             *)
(***************************************************************************)
EXTENDS Worktree, FoldProofs

Checkout == index \in Tree /\ wt \in Tree /\ conflict \subseteq Paths

FileStatus == {"modified", "added", "deleted", "renamed", "unmerged"}

Entries == [path : Path, status : FileStatus]

-----------------------------------------------------------------------------
(***************************************************************************)
(* Names.                                                                  *)
(***************************************************************************)
LEMMA NamesOfPaths ==
    ASSUME NEW p \in Paths
    PROVE  /\ p \in Path /\ p.quoted = FALSE
           /\ Printed(p) \in Path
           /\ Printed(p).dir = p.dir /\ Printed(p).name = p.name
           /\ FirstField(Printed(p)) \in Path
           /\ PrintedUntracked(p) \in Path
<1> USE WorktreeAssumption
<1>1. /\ p \in Path /\ ~p.quoted /\ p.name # <<>>
  OBVIOUS
<1>2. p = [dir |-> p.dir, name |-> p.name, quoted |-> p.quoted]
  BY <1>1 DEF Path
<1>3. p.dir \in Dirs \union {NoDir} /\ p.name \in BoundedSeq(Words, 2) /\ p.quoted \in BOOLEAN
  BY <1>1 DEF Path
<1>4. PICK n \in 0..2 : p.name \in [1..n -> Words]
  BY <1>3 DEF BoundedSeq, SeqOf
<1>5. n # 0 /\ p.name[1] \in Words
  <2>1. n = 0 => p.name = <<>>
    BY <1>4
  <2>2. QED
    BY <1>1, <1>4, <2>1
<1>6. <<Head(p.name)>> \in BoundedSeq(Words, 2)
  <2>1. Head(p.name) = p.name[1]
    BY <1>4, <1>5
  <2>2. <<Head(p.name)>> \in [1..1 -> Words]
    BY <1>5, <2>1
  <2>3. QED
    BY <2>2 DEF BoundedSeq, SeqOf
<1>7. <<>> \in BoundedSeq(Words, 2)
  <2>1. <<>> \in [1..0 -> Words]
    OBVIOUS
  <2>2. QED
    BY <2>1 DEF BoundedSeq, SeqOf
<1>8. Printed(p) = [dir |-> p.dir, name |-> p.name, quoted |-> Printed(p).quoted]
  <2>1. \A b : [p EXCEPT !.quoted = b] = [dir |-> p.dir, name |-> p.name, quoted |-> b]
    BY <1>2
  <2>2. QED
    BY <2>1 DEF Printed
<1>9. Printed(p).quoted \in BOOLEAN
  BY <1>2 DEF Printed
<1>10. FirstField(Printed(p)) =
         [dir |-> p.dir, name |-> <<Head(p.name)>>, quoted |-> Printed(p).quoted]
  BY <1>8 DEF FirstField
<1>11. Printed(p) \in Path
  BY <1>3, <1>8, <1>9 DEF Path
<1>12. FirstField(Printed(p)) \in Path
  BY <1>3, <1>6, <1>9, <1>10 DEF Path
<1>13. PrintedUntracked(p) \in Path
  BY <1>3, <1>7, <1>11 DEF PrintedUntracked, Path
<1>14. QED
  BY <1>1, <1>8, <1>11, <1>12, <1>13

\* A path that git prints as it is.
LEMMA OwnName ==
    ASSUME NEW p \in Paths, ~Printed(p).quoted
    PROVE  /\ Printed(p) = p
           /\ Len(p.name) = 1 => FirstField(Printed(p)) = p
<1>1. /\ p \in Path /\ p.quoted = FALSE /\ Printed(p) \in Path
      /\ Printed(p).dir = p.dir /\ Printed(p).name = p.name
  BY NamesOfPaths
<1>2. Printed(p).quoted = FALSE
  BY <1>1 DEF Path
<1>3. Printed(p) = p
  BY <1>1, <1>2 DEF Path
<1>4. ASSUME Len(p.name) = 1 PROVE FirstField(p) = p
  <2>1. PICK n \in 0..2 : p.name \in [1..n -> Words]
    BY <1>1 DEF Path, BoundedSeq, SeqOf
  <2>2. n = 1
    <3>1. p.name \in Seq(Words)
      BY <2>1, SeqDef
    <3>2. DOMAIN p.name = 1..1 /\ DOMAIN p.name = 1..n
      BY <1>4, <2>1, <3>1, LenProperties
    <3>3. 1 \in DOMAIN p.name /\ 2 \notin DOMAIN p.name
      BY <3>2
    <3>4. 1 \in 1..n /\ 2 \notin 1..n
      BY <3>2, <3>3, Zenon
    <3>5. QED
      BY <3>4
  <2>3. <<Head(p.name)>> = p.name
    BY <2>1, <2>2
  <2>4. FirstField(p) = p
    BY <1>1, <2>3 DEF FirstField, Path
  <2>5. QED
    BY <2>4
<1>5. QED
  BY <1>3, <1>4

LEMMA PrintedOnce ==
    ASSUME NEW p \in Paths, NEW q \in Paths, Printed(q) = p
    PROVE  q = p
<1>1. /\ p \in Path /\ p.quoted = FALSE /\ q \in Path /\ q.quoted = FALSE
      /\ q.dir = p.dir /\ q.name = p.name
  BY NamesOfPaths
<1>2. QED
  BY <1>1 DEF Path

-----------------------------------------------------------------------------
(***************************************************************************)
(* What git prints.                                                        *)
(***************************************************************************)
Paired == UNION {{m[1], m[2]} : m \in Renames}

Single == {p \in Paths \ (conflict \union Paired) : <<X(p), Y(p)>> # <<".", ".">>}

OrdinaryLine(p) == Line("1", <<X(p), Y(p)>>, Printed(p), Printed(p))

RenameLine(m) == Line("2", <<"R", Y(m[2])>>, Printed(m[2]), Printed(m[1]))

ConflictLine(p) == Line("u", <<".", ".">>, Printed(p), Printed(p))

UntrackedLine(p) ==
    Line("?", <<".", ".">>, PrintedUntracked(p), PrintedUntracked(p))

Lines == {OrdinaryLine(p) : p \in Single} \union {RenameLine(m) : m \in Renames}
         \union {ConflictLine(p) : p \in conflict}
         \union {UntrackedLine(p) : p \in {q \in Paths : Untracked(q)}}

LEMMA RenamesAreChosen ==
    /\ Renames \subseteq RenamePairs
    /\ IsFiniteSet(Renames)
<1> DEFINE Largest(pairs) ==
               /\ Matching(pairs)
               /\ \A other \in SUBSET RenamePairs :
                     Matching(other) => Cardinality(other) <= Cardinality(pairs)
           All == {pairs \in SUBSET RenamePairs : Matching(pairs)}
           Sizes == {Cardinality(pairs) + 1 : pairs \in All}
           n == Cardinality(RenamePairs)
<1>1. IsFiniteSet(RenamePairs)
  <2>1. IsFiniteSet(Paths \ conflict)
    BY WorktreeAssumption, FS_Subset
  <2>2. IsFiniteSet((Paths \ conflict) \X (Paths \ conflict))
    BY <2>1, FS_Product
  <2>3. RenamePairs \in SUBSET ((Paths \ conflict) \X (Paths \ conflict))
    BY DEF RenamePairs
  <2>4. QED
    BY <2>2, <2>3, FS_Subset
<1>2. n \in Nat
  BY <1>1, FS_CardinalityType
<1>3. ASSUME NEW pairs \in SUBSET RenamePairs
      PROVE  IsFiniteSet(pairs) /\ Cardinality(pairs) \in Nat /\ Cardinality(pairs) <= n
  BY <1>1, FS_Subset, FS_CardinalityType
<1>4. Sizes \subseteq 1..(n + 1)
  BY <1>2, <1>3
<1>5. Sizes # {}
  <2>1. {} \in All
    BY DEF Matching
  <2>2. QED
    BY <2>1
<1>6. Max(Sizes) \in Sizes /\ \A k \in Sizes : k <= Max(Sizes)
  <2> HIDE DEF Sizes, n
  <2>1. n + 1 \in Nat
    BY <1>2
  <2>2. QED
    BY <2>1, <1>4, <1>5, MaxOfPositions
<1>7. PICK pairs \in All : Max(Sizes) = Cardinality(pairs) + 1
  BY <1>6
<1>8. Largest(pairs)
  <2> SUFFICES ASSUME NEW other \in SUBSET RenamePairs, Matching(other)
               PROVE  Cardinality(other) <= Cardinality(pairs)
    BY <1>7
  <2>1. Cardinality(other) + 1 \in Sizes
    OBVIOUS
  <2>2. Cardinality(other) + 1 <= Cardinality(pairs) + 1
    BY <1>6, <1>7, <2>1
  <2>3. QED
    BY <1>3, <1>7, <2>2
<1>9. Renames = CHOOSE ps \in SUBSET RenamePairs : Largest(ps)
  BY DEF Renames
<1>10. Renames \in SUBSET RenamePairs
  <2> HIDE DEF Largest
  <2>1. QED
    BY <1>7, <1>8, <1>9
<1>11. QED
  BY <1>3, <1>10

LEMMA GitPrintsLines ==
    ASSUME conflict \subseteq Paths
    PROVE  GitStatus \in Seq(Lines) /\ Range(GitStatus) = Lines
<1> DEFINE tracked == {OrdinaryLine(p) : p \in Single} \union {RenameLine(m) : m \in Renames}
                      \union {ConflictLine(p) : p \in conflict}
           new == {q \in Paths : Untracked(q)}
           untracked == {UntrackedLine(p) : p \in new}
<1>1. IsFiniteSet(Single) /\ IsFiniteSet(conflict) /\ IsFiniteSet(new)
  BY WorktreeAssumption, FS_Subset DEF Single
<1>2. IsFiniteSet({OrdinaryLine(p) : p \in Single})
  <2>1. IsFiniteSet({[p \in Single |-> OrdinaryLine(p)][x] : x \in Single})
    BY <1>1, FiniteImage
  <2>2. QED
    BY <2>1
<1>3. IsFiniteSet({RenameLine(m) : m \in Renames})
  <2>1. IsFiniteSet({[m \in Renames |-> RenameLine(m)][x] : x \in Renames})
    BY RenamesAreChosen, FiniteImage
  <2>2. QED
    BY <2>1
<1>4. IsFiniteSet({ConflictLine(p) : p \in conflict})
  <2>1. IsFiniteSet({[p \in conflict |-> ConflictLine(p)][x] : x \in conflict})
    BY <1>1, FiniteImage
  <2>2. QED
    BY <2>1
<1>5. IsFiniteSet(untracked)
  <2>1. IsFiniteSet({[p \in new |-> UntrackedLine(p)][x] : x \in new})
    BY <1>1, FiniteImage
  <2>2. QED
    BY <2>1
<1>6. IsFiniteSet(tracked)
  BY <1>2, <1>3, <1>4, FS_Union
<1>7. GitStatus = SetToSeq(tracked) \o SetToSeq(untracked)
  BY DEF GitStatus, Single, Paired, OrdinaryLine, RenameLine, ConflictLine, UntrackedLine
<1>8. Lines = tracked \union untracked
  BY DEF Lines
<1> HIDE DEF tracked, untracked
<1>9. /\ SetToSeq(tracked) \in Seq(tracked) /\ Range(SetToSeq(tracked)) = tracked
      /\ SetToSeq(untracked) \in Seq(untracked) /\ Range(SetToSeq(untracked)) = untracked
  BY <1>5, <1>6, SetToSeqLists
<1>10. SetToSeq(tracked) \in Seq(Lines) /\ SetToSeq(untracked) \in Seq(Lines)
  BY <1>8, <1>9, SeqMonotonic
<1>11. QED
  BY <1>7, <1>8, <1>9, <1>10, RangeOfConcat

-----------------------------------------------------------------------------
(***************************************************************************)
(* The list that the parser makes of it.                                   *)
(***************************************************************************)
IsOrdinary(e) ==
    \E p \in Single :
        e = DirtyFile(FirstField(Printed(p)), ClassifyXY(<<X(p), Y(p)>>))

IsNew(e) == \E m \in Renames : e = DirtyFile(FirstField(Printed(m[2])), "renamed")

IsOld(e) ==
    \E m \in Renames : /\ Printed(m[1]) # FirstField(Printed(m[2]))
                       /\ e = DirtyFile(Printed(m[1]), "deleted")

IsConflict(e) == \E p \in conflict : e = DirtyFile(FirstField(Printed(p)), "unmerged")

IsUntracked(e) ==
    \E p \in Paths : Untracked(p) /\ e = DirtyFile(PrintedUntracked(p), "added")

LEMMA OneEntry ==
    ASSUME NEW S, NEW e \in S
    PROVE  <<e>> \in Seq(S) /\ Range(<<e>>) = {e}
BY DEF Range

LEMMA TwoEntries ==
    ASSUME NEW S, NEW e \in S, NEW f \in S
    PROVE  <<e>> \o <<f>> \in Seq(S) /\ Range(<<e>> \o <<f>>) = {e, f}
<1>1. <<e>> \in Seq(S) /\ Range(<<e>>) = {e} /\ <<f>> \in Seq(S) /\ Range(<<f>>) = {f}
  BY OneEntry
<1>2. <<e>> \o <<f>> \in Seq(S) /\ Range(<<e>> \o <<f>>) = Range(<<e>>) \union Range(<<f>>)
  BY <1>1, RangeOfConcat, Zenon
<1>3. QED
  BY <1>1, <1>2, Zenon

LEMMA EntriesOfOrdinary ==
    ASSUME NEW p \in Paths
    PROVE  LET e == DirtyFile(FirstField(Printed(p)), ClassifyXY(<<X(p), Y(p)>>))
           IN  /\ e \in Entries
               /\ ParseLine(OrdinaryLine(p)) \in Seq(Entries)
               /\ Range(ParseLine(OrdinaryLine(p))) = {e}
<1> DEFINE e == DirtyFile(FirstField(Printed(p)), ClassifyXY(<<X(p), Y(p)>>))
<1>1. ParseLine(OrdinaryLine(p)) = <<e>>
  BY DEF ParseLine, OrdinaryLine, Line, ParseOrdinaryEntry
<1>2. ClassifyXY(<<X(p), Y(p)>>) \in FileStatus
  BY DEF ClassifyXY, FileStatus
<1>3. e \in Entries
  BY <1>2, NamesOfPaths DEF DirtyFile, Entries
<1> HIDE DEF e
<1>4. QED
  BY <1>1, <1>3, OneEntry DEF e

LEMMA EntriesOfConflict ==
    ASSUME NEW p \in Paths
    PROVE  LET e == DirtyFile(FirstField(Printed(p)), "unmerged")
           IN  /\ e \in Entries
               /\ ParseLine(ConflictLine(p)) \in Seq(Entries)
               /\ Range(ParseLine(ConflictLine(p))) = {e}
<1> DEFINE e == DirtyFile(FirstField(Printed(p)), "unmerged")
<1>1. ParseLine(ConflictLine(p)) = <<e>>
  BY DEF ParseLine, ConflictLine, Line, ParseUnmergedEntry
<1>2. e \in Entries
  BY NamesOfPaths DEF DirtyFile, Entries, FileStatus
<1> HIDE DEF e
<1>3. QED
  BY <1>1, <1>2, OneEntry DEF e

LEMMA EntriesOfUntracked ==
    ASSUME NEW p \in Paths
    PROVE  LET e == DirtyFile(PrintedUntracked(p), "added")
           IN  /\ e \in Entries
               /\ ParseLine(UntrackedLine(p)) \in Seq(Entries)
               /\ Range(ParseLine(UntrackedLine(p))) = {e}
<1> DEFINE e == DirtyFile(PrintedUntracked(p), "added")
<1>1. ParseLine(UntrackedLine(p)) = <<e>>
  BY DEF ParseLine, UntrackedLine, Line
<1>2. e \in Entries
  BY NamesOfPaths DEF DirtyFile, Entries, FileStatus
<1> HIDE DEF e
<1>3. QED
  BY <1>1, <1>2, OneEntry DEF e

LEMMA EntriesOfRename ==
    ASSUME NEW m \in Renames, conflict \subseteq Paths
    PROVE  LET new  == DirtyFile(FirstField(Printed(m[2])), "renamed")
               old  == DirtyFile(Printed(m[1]), "deleted")
               both == Printed(m[1]) # FirstField(Printed(m[2]))
           IN  /\ new \in Entries /\ old \in Entries
               /\ ParseLine(RenameLine(m)) \in Seq(Entries)
               /\ Range(ParseLine(RenameLine(m))) = {new} \union (IF both THEN {old} ELSE {})
<1> DEFINE new  == DirtyFile(FirstField(Printed(m[2])), "renamed")
           old  == DirtyFile(Printed(m[1]), "deleted")
           both == Printed(m[1]) # FirstField(Printed(m[2]))
<1>1. m[1] \in Paths /\ m[2] \in Paths
  BY RenamesAreChosen DEF RenamePairs
<1>2. new \in Entries /\ old \in Entries
  BY <1>1, NamesOfPaths DEF DirtyFile, Entries, FileStatus
<1>3. ParseLine(RenameLine(m)) = <<new>> \o (IF both THEN <<old>> ELSE <<>>)
  BY DEF ParseLine, RenameLine, Line, ParseRenameEntry
<1>4. CASE both
  <2>1. ParseLine(RenameLine(m)) = <<new>> \o <<old>>
    BY <1>3, <1>4
  <2> HIDE DEF new, old
  <2>2. Range(ParseLine(RenameLine(m))) = {new, old} /\ ParseLine(RenameLine(m)) \in Seq(Entries)
    <3>1. /\ <<new>> \o <<old>> \in Seq(Entries)
          /\ Range(<<new>> \o <<old>>) = {new, old}
      BY <1>2, TwoEntries
    <3>2. QED
      BY <2>1, <3>1, Zenon
  <2> HIDE DEF both
  <2>3. QED
    BY <1>2, <1>4, <2>2 DEF new, old, both
<1>5. CASE ~both
  <2>1. ParseLine(RenameLine(m)) = <<new>> \o <<>>
    BY <1>3, <1>5
  <2> HIDE DEF new, old, both
  <2>2. ParseLine(RenameLine(m)) = <<new>>
    BY <1>2, <2>1, OneEntry, ConcatEmptySeq
  <2>3. Range(ParseLine(RenameLine(m))) = {new} /\ ParseLine(RenameLine(m)) \in Seq(Entries)
    BY <1>2, <2>2, OneEntry
  <2>4. QED
    BY <1>2, <1>5, <2>3 DEF new, old, both
<1>6. QED
  BY <1>4, <1>5

LEMMA ListsEntries ==
    ASSUME conflict \subseteq Paths
    PROVE  /\ List \in Seq(Entries)
           /\ \A e : e \in Range(List) <=>
                        \/ IsOrdinary(e) \/ IsNew(e) \/ IsOld(e)
                        \/ IsConflict(e) \/ IsUntracked(e)
<1> DEFINE parsed == [i \in DOMAIN GitStatus |-> ParseLine(GitStatus[i])]
<1>1. GitStatus \in Seq(Lines) /\ Range(GitStatus) = Lines
  BY GitPrintsLines
<1>2. Single \subseteq Paths
  BY DEF Single
<1>3. ASSUME NEW l \in Lines PROVE ParseLine(l) \in Seq(Entries)
  BY <1>2, EntriesOfOrdinary, EntriesOfConflict, EntriesOfUntracked, EntriesOfRename
     DEF Lines
<1>4. parsed \in Seq(Seq(Entries)) /\ DOMAIN parsed = DOMAIN GitStatus
  <2>1. Len(GitStatus) \in Nat /\ DOMAIN GitStatus = 1..Len(GitStatus)
    BY <1>1, LenProperties
  <2>2. \A i \in 1..Len(GitStatus) : GitStatus[i] \in Lines
    BY <1>1, ElementOfSeq
  <2>3. parsed \in [1..Len(GitStatus) -> Seq(Entries)]
    BY <1>3, <2>1, <2>2
  <2>4. QED
    BY <2>1, <2>3, SeqDef
<1>5. List = FlattenSeq(parsed)
  BY DEF List, ParsePorcelainV2
<1>6. /\ List \in Seq(Entries)
      /\ Range(List) = UNION {Range(parsed[i]) : i \in DOMAIN parsed}
  <2> HIDE DEF parsed
  <2>1. QED
    BY <1>4, <1>5, FlattenSeqLists
<1>7. \A e : e \in Range(List) <=> \E l \in Lines : e \in Range(ParseLine(l))
  <2>1. \A i \in DOMAIN parsed : parsed[i] = ParseLine(GitStatus[i])
    OBVIOUS
  <2>2. Lines = {GitStatus[i] : i \in DOMAIN GitStatus}
    BY <1>1 DEF Range
  <2> HIDE DEF parsed
  <2>3. QED
    BY <1>4, <1>6, <2>1, <2>2
<1>8. ASSUME NEW e, NEW l \in Lines, e \in Range(ParseLine(l))
      PROVE  IsOrdinary(e) \/ IsNew(e) \/ IsOld(e) \/ IsConflict(e) \/ IsUntracked(e)
  <2>1. CASE l \in {OrdinaryLine(p) : p \in Single}
    BY <1>2, <1>8, <2>1, EntriesOfOrdinary DEF IsOrdinary
  <2>2. CASE l \in {RenameLine(m) : m \in Renames}
    BY <1>8, <2>2, EntriesOfRename DEF IsNew, IsOld
  <2>3. CASE l \in {ConflictLine(p) : p \in conflict}
    BY <1>8, <2>3, EntriesOfConflict DEF IsConflict
  <2>4. CASE l \in {UntrackedLine(p) : p \in {q \in Paths : Untracked(q)}}
    BY <1>8, <2>4, EntriesOfUntracked DEF IsUntracked
  <2>5. QED
    BY <2>1, <2>2, <2>3, <2>4 DEF Lines
<1>9. ASSUME NEW e, IsOrdinary(e) \/ IsNew(e) \/ IsOld(e) \/ IsConflict(e) \/ IsUntracked(e)
      PROVE  \E l \in Lines : e \in Range(ParseLine(l))
  <2>1. CASE IsOrdinary(e)
    BY <1>2, <2>1, EntriesOfOrdinary DEF IsOrdinary, Lines
  <2>2. CASE IsNew(e)
    BY <2>2, EntriesOfRename DEF IsNew, Lines
  <2>3. CASE IsOld(e)
    BY <2>3, EntriesOfRename DEF IsOld, Lines
  <2>4. CASE IsConflict(e)
    BY <2>4, EntriesOfConflict DEF IsConflict, Lines
  <2>5. CASE IsUntracked(e)
    BY <2>5, EntriesOfUntracked DEF IsUntracked, Lines
  <2>6. QED
    BY <1>9, <2>1, <2>2, <2>3, <2>4, <2>5
<1>10. QED
  BY <1>6, <1>7, <1>8, <1>9

-----------------------------------------------------------------------------
(***************************************************************************)
(* Which files the list names.                                             *)
(***************************************************************************)
LEMMA PathsOfEntries ==
    /\ \A p : p \in PathsIn(List) <=> \E e \in Range(List) : e.path = p
    /\ \A p, s : (\E e \in Range(List) : e = DirtyFile(p, s)) => p \in PathsIn(List)
<1>1. Range(List) = {List[i] : i \in DOMAIN List}
  BY DEF Range
<1>2. \A p : p \in PathsIn(List) <=> \E e \in Range(List) : e.path = p
  BY <1>1 DEF PathsIn
<1>3. \A p, s : DirtyFile(p, s).path = p
  BY DEF DirtyFile
<1>4. QED
  BY <1>2, <1>3

LEMMA UntrackedIsNamed ==
    ASSUME conflict \subseteq Paths, NEW p \in Paths, Nameable(p), Untracked(p)
    PROVE  DirtyFile(p, "added") \in Range(List)
<1>1. PrintedUntracked(p) = p
  BY OwnName DEF Nameable, PrintedUntracked
<1>2. IsUntracked(DirtyFile(p, "added"))
  BY <1>1 DEF IsUntracked
<1>3. QED
  BY <1>2, ListsEntries

\* A file that differs from HEAD is in the list.
LEMMA UnnamedIsClean ==
    ASSUME Checkout, NEW p \in Paths, Nameable(p), p \notin PathsIn(List)
    PROVE  head[p] = wt[p]
<1> USE DEF Checkout
<1>1. \A q, s : q = p => DirtyFile(q, s) \notin Range(List)
  BY PathsOfEntries
<1>2. ~Untracked(p)
  BY <1>1, UntrackedIsNamed
<1>3. CASE Unlisted(p)
  <2>1. CASE Clean(p)
    BY <2>1 DEF Clean
  <2>2. CASE ~Tracked(p) /\ head[p] = Absent
    BY <1>2, <2>2 DEF Untracked
  <2>3. QED
    BY <1>3, <2>1, <2>2 DEF Unlisted
<1>4. CASE ~Unlisted(p)
  <2>1. Printed(p) = p /\ FirstField(Printed(p)) = p
    BY <1>4, OwnName DEF Nameable
  <2>2. p \notin conflict
    <3>1. p \in conflict => IsConflict(DirtyFile(FirstField(Printed(p)), "unmerged"))
      BY DEF IsConflict
    <3>2. QED
      BY <1>1, <2>1, <3>1, ListsEntries
  <2>3. \A m \in Renames : p # m[2]
    <3>1. \A m \in Renames : IsNew(DirtyFile(FirstField(Printed(m[2])), "renamed"))
      BY DEF IsNew
    <3>2. QED
      BY <1>1, <2>1, <3>1, ListsEntries
  <2>4. \A m \in Renames : p # m[1]
    <3> SUFFICES ASSUME NEW m \in Renames, p = m[1] PROVE FALSE
      OBVIOUS
    <3>1. CASE Printed(m[1]) # FirstField(Printed(m[2]))
      <4>1. IsOld(DirtyFile(Printed(m[1]), "deleted"))
        BY <3>1 DEF IsOld
      <4>2. QED
        BY <1>1, <2>1, <4>1, ListsEntries
    <3>2. CASE Printed(m[1]) = FirstField(Printed(m[2]))
      <4>1. IsNew(DirtyFile(FirstField(Printed(m[2])), "renamed"))
        BY DEF IsNew
      <4>2. QED
        BY <1>1, <2>1, <3>2, <4>1, ListsEntries
    <3>3. QED
      BY <3>1, <3>2
  <2>5. p \notin Paired
    BY <2>3, <2>4 DEF Paired
  <2>6. p \notin Single
    <3>1. p \in Single =>
            IsOrdinary(DirtyFile(FirstField(Printed(p)), ClassifyXY(<<X(p), Y(p)>>)))
      BY DEF IsOrdinary
    <3>2. QED
      BY <1>1, <2>1, <3>1, ListsEntries
  <2>7. X(p) = "." /\ Y(p) = "."
    BY <2>2, <2>5, <2>6 DEF Single
  <2>8. head[p] = index[p]
    BY <2>7 DEF X, Change
  <2>9. index[p] # Absent
    BY <1>4, <2>2, <2>8 DEF Unlisted, Tracked
  <2>10. index[p] = wt[p]
    BY <2>7, <2>9 DEF Y, Change
  <2>11. QED
    BY <2>8, <2>10
<1>5. QED
  BY <1>3, <1>4

LEMMA UnlistedIsUnchanged ==
    ASSUME NEW q \in Paths, Unlisted(q)
    PROVE  X(q) = "." /\ Y(q) = "."
<1>1. CASE Clean(q)
  <2>1. index[q] = head[q] /\ wt[q] = head[q]
    BY <1>1 DEF Clean
  <2>2. QED
    BY <2>1 DEF X, Y, Change
<1>2. CASE ~Tracked(q) /\ head[q] = Absent
  BY <1>2 DEF Tracked, X, Y, Change
<1>3. QED
  BY <1>1, <1>2 DEF Unlisted

\* A file that the list only calls deleted is not in the working tree.
LEMMA DeletedIsAbsent ==
    ASSUME Checkout, NEW p \in Paths, Nameable(p), p \in PathsIn(List), wt[p] # Absent
    PROVE  \E e \in Range(List) : e.path = p /\ e.status # "deleted"
<1> USE DEF Checkout
<1>1. SUFFICES ASSUME \A e \in Range(List) : e.path = p => e.status = "deleted"
               PROVE  FALSE
  OBVIOUS
<1>2. \A s : s # "deleted" => DirtyFile(p, s) \notin Range(List)
  BY <1>1 DEF DirtyFile
<1>3. ~Untracked(p)
  BY <1>2, UntrackedIsNamed
<1>4. ~(X(p) = "D" /\ p \notin conflict)
  <2> SUFFICES ASSUME X(p) = "D", p \notin conflict PROVE FALSE
    OBVIOUS
  <2>1. index[p] = Absent
    BY DEF X, Change
  <2>2. QED
    BY <1>3, <2>1 DEF Tracked, Untracked
<1>5. PICK e \in Range(List) : e.path = p
  BY PathsOfEntries
<1>6. e.status = "deleted"
  BY <1>1, <1>5
<1>7. ~IsOrdinary(e)
  <2> SUFFICES ASSUME NEW q \in Single,
                      e = DirtyFile(FirstField(Printed(q)), ClassifyXY(<<X(q), Y(q)>>))
               PROVE  FALSE
    BY DEF IsOrdinary
  <2>1. q \in Paths \ conflict /\ <<X(q), Y(q)>> # <<".", ".">>
    BY DEF Single
  <2>2. FirstField(Printed(q)) = p /\ ClassifyXY(<<X(q), Y(q)>>) = "deleted"
    BY <1>5, <1>6 DEF DirtyFile
  <2>3. q = p
    <3>1. q # p => Unlisted(q)
      BY <2>1, <2>2 DEF Nameable
    <3>2. QED
      BY <2>1, <3>1, UnlistedIsUnchanged
  <2>4. X(p) = "D" \/ Y(p) = "D"
    BY <2>2, <2>3 DEF ClassifyXY
  <2>5. Y(p) # "D"
    BY DEF Y, Change
  <2>6. QED
    BY <1>4, <2>1, <2>3, <2>4, <2>5
<1>8. ~IsOld(e)
  <2> SUFFICES ASSUME NEW m \in Renames, e = DirtyFile(Printed(m[1]), "deleted")
               PROVE  FALSE
    BY DEF IsOld
  <2>1. m[1] \in Paths \ conflict /\ X(m[1]) = "D"
    BY RenamesAreChosen DEF RenamePairs
  <2>2. Printed(m[1]) = p
    BY <1>5 DEF DirtyFile
  <2>3. m[1] = p
    BY <2>1, <2>2, PrintedOnce
  <2>4. QED
    BY <1>4, <2>1, <2>3
<1>9. ~IsNew(e) /\ ~IsConflict(e) /\ ~IsUntracked(e)
  BY <1>6 DEF IsNew, IsConflict, IsUntracked, DirtyFile
<1>10. QED
  BY <1>7, <1>8, <1>9, ListsEntries

-----------------------------------------------------------------------------
(***************************************************************************)
(* The delta index made of a list, turn by turn.                           *)
(***************************************************************************)
Readable(content) == content # Absent /\ content \notin BinaryContents

Gone(e) == e.status = "deleted" \/ ReadFile(e.path) = Absent

\* What the entries at the positions in s leave.
FilesAt(list, s) ==
    {list[i].path : i \in {j \in s : ~Gone(list[j]) /\ Readable(ReadFile(list[j].path))}}

DeltaOf(list, s) ==
    [files      |-> [p \in FilesAt(list, s) |-> ReadFile(p)],
     tombstones |-> {list[i].path : i \in {j \in s : Gone(list[j])}},
     dirtyPaths |-> {list[i].path : i \in s}]

LEMMA EmptyTurn ==
    ASSUME NEW list
    PROVE  DeltaOf(list, {}) = EmptyDelta
<1>1. FilesAt(list, {}) = {}
  BY DEF FilesAt
<1>2. [p \in FilesAt(list, {}) |-> ReadFile(p)] = <<>>
  BY <1>1
<1>3. QED
  BY <1>2 DEF DeltaOf, EmptyDelta

LEMMA NextTurn ==
    ASSUME NEW list, NEW s, NEW x \in s
    PROVE  AddFile(DeltaOf(list, s \ {x}), list[x]) = DeltaOf(list, s)
<1> DEFINE e == list[x]
           before == DeltaOf(list, s \ {x})
           after == AddFile(before, e)
           add == ~Gone(e) /\ Readable(ReadFile(e.path))
<1>1. /\ before.files = [p \in FilesAt(list, s \ {x}) |-> ReadFile(p)]
      /\ before.tombstones = {list[i].path : i \in {j \in s \ {x} : Gone(list[j])}}
      /\ before.dirtyPaths = {list[i].path : i \in s \ {x}}
  BY DEF DeltaOf
<1>2. after = [files      |-> IF add THEN Assign(before.files, e.path, ReadFile(e.path))
                              ELSE before.files,
               tombstones |-> IF Gone(e) THEN before.tombstones \union {e.path}
                              ELSE before.tombstones,
               dirtyPaths |-> before.dirtyPaths \union {e.path}]
  BY DEF AddFile, Gone, Readable
<1>3. (IF add THEN Assign(before.files, e.path, ReadFile(e.path)) ELSE before.files)
      = [p \in FilesAt(list, s) |-> ReadFile(p)]
  <2>1. CASE add
    <3>1. FilesAt(list, s) = FilesAt(list, s \ {x}) \union {e.path}
      BY <2>1 DEF FilesAt
    <3>2. Assign(before.files, e.path, ReadFile(e.path))
          = [p \in FilesAt(list, s \ {x}) \union {e.path} |-> ReadFile(p)]
      <4> DEFINE A == FilesAt(list, s \ {x})
      <4> HIDE DEF A, e
      <4>1. before.files = [p \in A |-> ReadFile(p)]
        BY <1>1 DEF A
      <4> HIDE DEF before
      <4>2. QED
        BY <4>1 DEF Assign, A
    <3>3. QED
      BY <2>1, <3>1, <3>2
  <2>2. CASE ~add
    <3>1. FilesAt(list, s) = FilesAt(list, s \ {x})
      BY <2>2 DEF FilesAt
    <3>2. QED
      BY <1>1, <2>2, <3>1
  <2>3. QED
    BY <2>1, <2>2
<1>4. (IF Gone(e) THEN before.tombstones \union {e.path} ELSE before.tombstones)
      = {list[i].path : i \in {j \in s : Gone(list[j])}}
  BY <1>1
<1>5. before.dirtyPaths \union {e.path} = {list[i].path : i \in s}
  BY <1>1
<1> HIDE DEF add, before, after, e
<1>6. after = DeltaOf(list, s)
  BY <1>2, <1>3, <1>4, <1>5 DEF DeltaOf
<1>7. QED
  BY <1>6 DEF after, before, e

Turn(list, iter, s) ==
    IF s = {} THEN EmptyDelta ELSE AddFile(iter[s \ {Max(s)}], list[Max(s)])

\* The fold has one result.
LEMMA TurnsAgree ==
    ASSUME NEW list, NEW n \in Nat, NEW iter,
           \A s \in SUBSET (1..n) : iter[s] = Turn(list, iter, s)
    PROVE  iter[1..n] = DeltaOf(list, 1..n)
<1> DEFINE P(m) == \A s \in SUBSET (1..n) : s \subseteq 1..m => iter[s] = DeltaOf(list, s)
           N == {m \in Nat : P(m)}
<1>1. P(0)
  <2> SUFFICES ASSUME NEW s \in SUBSET (1..n), s \subseteq 1..0
               PROVE  iter[s] = DeltaOf(list, s)
    OBVIOUS
  <2>1. s = {}
    OBVIOUS
  <2>2. QED
    BY <2>1, EmptyTurn DEF Turn
<1>2. ASSUME NEW m \in Nat, P(m) PROVE P(m + 1)
  <2> SUFFICES ASSUME NEW s \in SUBSET (1..n), s \subseteq 1..(m + 1)
               PROVE  iter[s] = DeltaOf(list, s)
    OBVIOUS
  <2>1. CASE s = {}
    BY <2>1, EmptyTurn DEF Turn
  <2>2. CASE s # {}
    <3>1. Max(s) \in s /\ \A i \in s : i <= Max(s)
      BY <2>2, MaxOfPositions
    <3>2. s \ {Max(s)} \in SUBSET (1..n) /\ s \ {Max(s)} \subseteq 1..m
      <4> DEFINE x == Max(s)
      <4> HIDE DEF x
      <4>1. x \in s /\ \A i \in s : i <= x
        BY <3>1 DEF x
      <4>2. ASSUME NEW i \in s \ {x} PROVE i \in 1..m
        <5>1. i \in 1..(m + 1) /\ x \in 1..(m + 1) /\ i <= x /\ i # x
          BY <4>1
        <5>2. QED
          BY <5>1
      <4>3. s \ {x} \subseteq 1..m
        BY <4>2
      <4>4. QED
        BY <4>3 DEF x
    <3>3. iter[s \ {Max(s)}] = DeltaOf(list, s \ {Max(s)})
      BY <1>2, <3>2
    <3>4. iter[s] = AddFile(iter[s \ {Max(s)}], list[Max(s)])
      BY <2>2 DEF Turn
    <3>5. QED
      BY <3>1, <3>3, <3>4, NextTurn
  <2>3. QED
    BY <2>1, <2>2
<1>3. N = Nat
  <2> HIDE DEF P
  <2>1. N \subseteq Nat /\ 0 \in N /\ \A m \in N : m + 1 \in N
    BY <1>1, <1>2
  <2> HIDE DEF N
  <2>2. QED
    BY <2>1, SetInduction
<1>4. P(n)
  <2> HIDE DEF P
  <2>1. QED
    BY <1>3
<1>5. QED
  BY <1>4

\* BuildDeltaIndex goes through every entry.
LEMMA BuiltOfEntries ==
    ASSUME NEW list, NEW n \in Nat, DOMAIN list = 1..n
    PROVE  BuildDeltaIndex(list) = DeltaOf(list, 1..n)
<1> DEFINE R(f) == f = [s \in SUBSET (DOMAIN list) |-> Turn(list, f, s)]
           iter == CHOOSE f : R(f)
           closed == [s \in SUBSET (1..n) |-> DeltaOf(list, s)]
<1>1. BuildDeltaIndex(list) = iter[DOMAIN list]
  BY DEF BuildDeltaIndex, FoldLeft, MapThenFoldSet, Turn
<1>2. R(closed)
  <2> SUFFICES ASSUME NEW s \in SUBSET (1..n)
               PROVE  DeltaOf(list, s) = Turn(list, closed, s)
    OBVIOUS
  <2>1. CASE s = {}
    BY <2>1, EmptyTurn DEF Turn
  <2>2. CASE s # {}
    <3>1. Max(s) \in s
      BY <2>2, MaxOfPositions
    <3>2. closed[s \ {Max(s)}] = DeltaOf(list, s \ {Max(s)})
      OBVIOUS
    <3>3. QED
      BY <2>2, <3>1, <3>2, NextTurn DEF Turn
  <2>3. QED
    BY <2>1, <2>2
<1>3. R(iter)
  <2> HIDE DEF R, closed
  <2>1. QED
    BY <1>2
<1> HIDE DEF iter
<1>4. \A s \in SUBSET (1..n) : iter[s] = Turn(list, iter, s)
  BY <1>3
<1>5. iter[1..n] = DeltaOf(list, 1..n)
  BY <1>4, TurnsAgree
<1>6. QED
  BY <1>1, <1>5

LEMMA BuiltIsDelta ==
    ASSUME Checkout, NEW list \in Seq(Entries)
    PROVE  /\ BuildDeltaIndex(list) \in DeltaIndex
           /\ BuildDeltaIndex(list) # NoDelta
           /\ BuildDeltaIndex(list) = DeltaOf(list, DOMAIN list)
           /\ BuildDeltaIndex(list).dirtyPaths = PathsIn(list)
           /\ DOMAIN BuildDeltaIndex(list).files = FilesAt(list, DOMAIN list)
           /\ \A p \in FilesAt(list, DOMAIN list) :
                 BuildDeltaIndex(list).files[p] = ReadFile(p)
<1> DEFINE D == DOMAIN list
<1>1. Len(list) \in Nat /\ D = 1..Len(list)
  BY LenProperties
<1>2. \A i \in D : list[i] \in Entries
  BY <1>1, ElementOfSeq
<1>3. BuildDeltaIndex(list) = DeltaOf(list, D)
  BY <1>1, BuiltOfEntries
<1>4. \A i \in D : list[i].path \in Path
  BY <1>2 DEF Entries
<1>5. ASSUME NEW p \in FilesAt(list, D)
      PROVE  p \in Paths /\ ReadFile(p) \in Contents \ BinaryContents
  <2>1. Readable(ReadFile(p))
    BY DEF FilesAt
  <2>2. p \in Paths /\ ReadFile(p) = wt[p]
    BY <2>1 DEF Readable, ReadFile
  <2>3. QED
    BY <2>1, <2>2 DEF Readable, Checkout, Tree
<1>6. [p \in FilesAt(list, D) |-> ReadFile(p)] \in
        [FilesAt(list, D) -> Contents \ BinaryContents]
  BY <1>5
<1>7. FilesAt(list, D) \in SUBSET Paths
  BY <1>5
<1>8. DeltaOf(list, D) \in DeltaIndex
  BY <1>4, <1>6, <1>7 DEF DeltaOf, DeltaIndex
<1>9. DeltaOf(list, D).dirtyPaths = PathsIn(list)
  BY DEF DeltaOf, PathsIn
<1>10. /\ DOMAIN DeltaOf(list, D).files = FilesAt(list, D)
       /\ \A p \in FilesAt(list, D) : DeltaOf(list, D).files[p] = ReadFile(p)
  BY DEF DeltaOf
<1>11. QED
  BY <1>3, <1>8, <1>9, <1>10, NilAssumption

-----------------------------------------------------------------------------
(***************************************************************************)
(* What is shown of a file.                                                *)
(***************************************************************************)
LEMMA RebuiltIsExact ==
    ASSUME Checkout, NEW p \in Paths, Nameable(p)
    PROVE  Shown(Rebuilt(List), p) = Text(wt[p])
<1>1. List \in Seq(Entries)
  BY ListsEntries DEF Checkout
<1>2. CASE p \notin PathsIn(List)
  <2>1. head[p] = wt[p]
    BY <1>2, UnnamedIsClean
  <2>2. Rebuilt(List) # NoDelta => p \notin Rebuilt(List).dirtyPaths
    BY <1>1, <1>2, BuiltIsDelta DEF Rebuilt
  <2>3. QED
    BY <2>1, <2>2 DEF Shown
<1>3. CASE p \in PathsIn(List)
  <2> DEFINE built == BuildDeltaIndex(List)
             files == FilesAt(List, DOMAIN List)
  <2>1. Rebuilt(List) = built
    BY <1>3 DEF Rebuilt, PathsIn
  <2>2. /\ built # NoDelta /\ p \in built.dirtyPaths
        /\ DOMAIN built.files = files
        /\ p \in files => built.files[p] = wt[p]
    BY <1>1, <1>3, BuiltIsDelta DEF ReadFile
  <2>3. Shown(Rebuilt(List), p) = IF p \in files THEN wt[p] ELSE Absent
    <3> HIDE DEF built, files
    <3>1. QED
      BY <2>1, <2>2 DEF Shown
  <2>4. CASE Readable(wt[p])
    <3>1. PICK e \in Range(List) : e.path = p /\ e.status # "deleted"
      BY <1>3, <2>4, DeletedIsAbsent DEF Readable
    <3>2. PICK i \in DOMAIN List : e = List[i]
      BY DEF Range
    <3>3. ~Gone(List[i]) /\ Readable(ReadFile(List[i].path))
      BY <2>4, <3>1, <3>2 DEF Gone, Readable, ReadFile
    <3>4. p \in files
      BY <3>1, <3>2, <3>3 DEF FilesAt
    <3>5. QED
      BY <2>3, <2>4, <3>4 DEF Readable, Text
  <2>5. CASE ~Readable(wt[p])
    <3>1. p \notin files
      BY <2>5 DEF FilesAt, ReadFile
    <3>2. Text(wt[p]) = Absent
      BY <2>5 DEF Readable, Text
    <3>3. QED
      BY <2>3, <3>1, <3>2
  <2>6. QED
    BY <2>4, <2>5
<1>4. QED
  BY <1>2, <1>3

LEMMA LastEntry ==
    ASSUME NEW list \in Seq(Entries), NEW p \in PathsIn(list)
    PROVE  \E i \in DOMAIN list : list[i].path = p /\ list[i].status = StatusIn(list, p)
<1> DEFINE I == {i \in 1..Len(list) : list[i].path = p}
<1>1. Len(list) \in Nat /\ DOMAIN list = 1..Len(list)
  BY LenProperties
<1>2. I # {}
  BY <1>1 DEF PathsIn
<1>3. Max(I) \in I
  <2>1. I \subseteq 1..Len(list)
    OBVIOUS
  <2> HIDE DEF I
  <2>2. QED
    BY <1>1, <1>2, <2>1, MaxOfPositions
<1>4. StatusIn(list, p) = list[Max(I)].status
  BY <1>2 DEF StatusIn, SelectLastInSeq
<1>5. QED
  BY <1>1, <1>3, <1>4

\* What dirtySetChanged does not tell apart.
LEMMA UnchangedEntries ==
    ASSUME NEW old, NEW new \in Seq(Entries), ~DirtySetChanged(old, new), NEW p
    PROVE  \/ Entry(old, p) = Entry(new, p)
           \/ /\ Len(old) = Len(new)
              /\ \/ Entry(old, p) # "clean" /\ Entry(new, p) = "clean"
                 \/ Entry(old, p) = "clean" /\ Entry(new, p) = "modified"
<1>1. Len(old) = Len(new)
  BY DEF DirtySetChanged
<1>2. CASE p \notin PathsIn(new)
  BY <1>1, <1>2 DEF Entry
<1>3. CASE p \in PathsIn(new)
  <2>1. PICK i \in DOMAIN new : new[i].path = p /\ new[i].status = StatusIn(new, p)
    BY <1>3, LastEntry
  <2>2. LookUp(old, p) = StatusIn(new, p)
    BY <2>1 DEF DirtySetChanged
  <2>3. QED
    BY <1>1, <1>3, <2>2 DEF LookUp, Entry
<1>4. QED
  BY <1>2, <1>3

-----------------------------------------------------------------------------
(***************************************************************************)
(* The invariant.                                                          *)
(***************************************************************************)
LEMMA TypeHoldsAtFirst == Init => WorktreeType
BY WorktreeAssumption DEF Init, WorktreeType, head

LEMMA TypeIsKept == WorktreeType /\ [Next]_vars => WorktreeType'
<1> SUFFICES ASSUME WorktreeType, [Next]_vars PROVE WorktreeType'
  OBVIOUS
<1> USE WorktreeAssumption
<1>1. Checkout
  BY DEF WorktreeType, Checkout
<1>2. ASSUME NEW p \in Paths, NEW content \in Contents \union {Absent}, Write(p, content),
             UNCHANGED <<dirty, delta>>
      PROVE  WorktreeType'
  BY <1>2 DEF Write, UserMoves, WorktreeType, Tree
<1>3. ASSUME NEW p \in Paths, Stage(p), UNCHANGED <<dirty, delta>>
      PROVE  WorktreeType'
  BY <1>3 DEF Stage, UserMoves, WorktreeType, Tree
<1>4. ASSUME NEW p \in Paths, Untrack(p), UNCHANGED <<dirty, delta>>
      PROVE  WorktreeType'
  BY <1>4 DEF Untrack, UserMoves, WorktreeType, Tree
<1>5. ASSUME NEW p \in Paths, NEW content \in Contents, Merge(p, content),
             UNCHANGED <<dirty, delta>>
      PROVE  WorktreeType'
  BY <1>5 DEF Merge, UserMoves, WorktreeType, Tree
<1>6. /\ List \in Seq(Entries)
      /\ \A i \in DOMAIN List : List[i] \in Entries
      /\ BuildDeltaIndex(List) \in DeltaIndex
  <2>1. List \in Seq(Entries)
    BY <1>1, ListsEntries DEF Checkout
  <2>2. QED
    BY <1>1, <2>1, BuiltIsDelta, LenProperties, ElementOfSeq
<1>7. CASE Poll
  <2>1. dirty' = List /\ delta' \in DeltaIndex \union {NoDelta}
    BY <1>6, <1>7 DEF Poll, Polled, WorktreeType
  <2>2. \A i \in DOMAIN dirty' : dirty'[i] \in Entries
    BY <1>6, <2>1
  <2>3. QED
    BY <1>7, <2>1, <2>2 DEF Poll, user, WorktreeType, Entries, FileStatus
<1>8. CASE Rebuild
  BY <1>6, <1>8 DEF Rebuild, Rebuilt, user, WorktreeType
<1>9. CASE UNCHANGED vars
  BY <1>9 DEF vars, user, WorktreeType
<1>10. QED
  BY <1>2, <1>3, <1>4, <1>5, <1>7, <1>8, <1>9 DEF Next, User

(***************************************************************************)
(* WorktreeType: the index and the working tree are trees of the           *)
(* repository's paths, the table's list has a known status for each path   *)
(* that git printed, and the delta index is nil or holds texts of paths of *)
(* the repository.                                                         *)
(***************************************************************************)
THEOREM WorktreeTyped == Spec => []WorktreeType
BY TypeHoldsAtFirst, TypeIsKept, PTL DEF Spec

(***************************************************************************)
(* RebuildIsExact: the delta index that a reindex makes (reindex.go with   *)
(* BuildDeltaIndex of delta.go and ParsePorcelainV2 of git.go) shows each  *)
(* file whose name the parser gets as it is in the working tree, whatever  *)
(* has been staged, renamed, left in conflict or dropped from the index.   *)
(***************************************************************************)
THEOREM RebuildShowsTree == Spec => []RebuildIsExact
<1>1. WorktreeType => RebuildIsExact
  BY RebuiltIsExact DEF RebuildIsExact, WorktreeType, Checkout
<1>2. QED
  BY <1>1, TypeHoldsAtFirst, TypeIsKept, PTL DEF Spec

(***************************************************************************)
(* PollLagsBehindEdits: what a poll (pollRepo of poller.go) shows of such  *)
(* a file can be wrong only where dirtySetChanged of state.go does not     *)
(* tell the two lists apart: a file listed with the same status, one that  *)
(* became clean or modified while the length stayed as it was, or one that *)
(* is in neither list but in the delta of a reindex between them.          *)
(***************************************************************************)
THEOREM PollShowsTree == Spec => []PollLagsBehindEdits
<1>1. ASSUME WorktreeType, NEW p \in Paths, Nameable(p), Shown(Polled(List), p) # Text(wt[p])
      PROVE  \/ Entry(dirty, p) = Entry(List, p) /\ Entry(dirty, p) # "clean"
             \/ /\ Entry(dirty, p) = "clean" /\ Entry(List, p) = "clean"
                /\ delta # NoDelta /\ p \in delta.dirtyPaths
             \/ /\ Len(dirty) = Len(List)
                /\ \/ Entry(dirty, p) # "clean" /\ Entry(List, p) = "clean"
                   \/ Entry(dirty, p) = "clean" /\ Entry(List, p) = "modified"
  <2>1. Checkout /\ List \in Seq(Entries)
    BY <1>1, ListsEntries DEF WorktreeType, Checkout
  <2>2. Polled(List) # Rebuilt(List)
    BY <1>1, <2>1, RebuiltIsExact
  <2>3. ~DirtySetChanged(dirty, List) /\ Polled(List) = delta
    BY <2>2 DEF Polled, Rebuilt
  <2>4. CASE Entry(dirty, p) = "clean" /\ Entry(List, p) = "clean"
    <3>1. p \notin PathsIn(List)
      <4> SUFFICES ASSUME p \in PathsIn(List) PROVE FALSE
        OBVIOUS
      <4>1. PICK i \in DOMAIN List : List[i].status = StatusIn(List, p)
        BY <2>1, LastEntry
      <4>2. List[i] \in Entries
        BY <2>1, <4>1, LenProperties, ElementOfSeq
      <4>3. QED
        BY <2>4, <4>1, <4>2 DEF Entry, Entries, FileStatus
    <3>2. wt[p] = head[p]
      BY <1>1, <2>1, <3>1, UnnamedIsClean
    <3>3. delta # NoDelta /\ p \in delta.dirtyPaths
      BY <1>1, <2>3, <3>2 DEF Shown
    <3>4. QED
      BY <2>4, <3>3
  <2>5. CASE ~(Entry(dirty, p) = "clean" /\ Entry(List, p) = "clean")
    BY <2>1, <2>3, <2>5, UnchangedEntries
  <2>6. QED
    BY <2>4, <2>5
<1>2. WorktreeType => PollLagsBehindEdits
  BY <1>1 DEF PollLagsBehindEdits
<1>3. QED
  BY <1>2, TypeHoldsAtFirst, TypeIsKept, PTL DEF Spec
=============================================================================
