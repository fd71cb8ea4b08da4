-------------------------------- MODULE World --------------------------------
(***************************************************************************)
(* What the program watches and does not control: the user's repositories  *)
(* and what git and the file system answer about them.  None of it is code *)
(* of the repository; it is modelled from the questions git.go, delta.go   *)
(* and discovery.go ask.                                                   *)
(*                                                                         *)
(* A repository is a sequence of commits, each the tree of its files, one  *)
(* tip per branch, the branch that is checked out and a working tree.      *)
(* Every user action is atomic; a program that asks two questions may find *)
(* that the repository has changed between the answers.                    *)
(***************************************************************************)
EXTENDS StateTable, Sequences

CONSTANTS
    MaxEdits,   \* bound: writes to a working tree, over all repos
    MaxCommits, \* bound: commits per repo
    MaxMoves,   \* bound: times a repo appears or disappears, over all repos
    MainBranch, \* the branch of a new repository
    Unborn,     \* the repositories that start without a commit
    FirstTrees, \* the working trees a repository may start with
    FirstCommits, \* the trees of its first commit, if it has one
    Latecomers  \* the repositories that do not exist at the start

VARIABLES
    history, \* per repo: the trees of its commits, in the order made
    tips,    \* per repo and branch: the branch's commit
    branch,  \* per repo: the branch HEAD names
    wt,      \* per repo: the working tree
    onDisk,  \* the repos that exist
    edits,   \* working-tree writes so far
    moves    \* appearances and disappearances so far

world == <<history, tips, branch, wt, onDisk, edits, moves>>

Tree == [Files -> Contents \union {Absent}]

ASSUME WorldAssumption ==
    /\ FirstTrees \union FirstCommits \subseteq Tree
    /\ MainBranch \in Branches
    /\ Unborn \union Latecomers \subseteq Repos
    /\ {MaxEdits, MaxCommits, MaxMoves} \subseteq Nat
    /\ MaxCommits > 0

NoFiles == [f \in Files |-> Absent]

HeadOf(r) == tips[r][branch[r]]

CommitTree(r, sha) == IF sha = NoSHA THEN NoFiles ELSE history[r][sha]

\* git status --porcelain=v2: the files whose content is not that of HEAD.
GitStatus(r) ==
    LET tree == CommitTree(r, HeadOf(r))
    IN  [f \in {g \in Files : wt[r][g] # tree[g]} |->
            IF wt[r][f] = Absent THEN "deleted"
            ELSE IF tree[f] = Absent THEN "added"
            ELSE "modified"]

WorldType ==
    /\ history \in [Repos -> Seq(Tree)]
    /\ tips \in [Repos -> [Branches -> SHA]]
    /\ branch \in [Repos -> Branches]
    /\ wt \in [Repos -> Tree]
    /\ onDisk \subseteq Repos
    /\ edits \in 0..MaxEdits
    /\ moves \in 0..MaxMoves

\* A repo has one commit, or none, and may be dirty.
WorldInit ==
    /\ wt \in [Repos -> FirstTrees]
    /\ \E tree \in [Repos -> FirstCommits] :
          history = [r \in Repos |-> IF r \in Unborn THEN <<>> ELSE <<tree[r]>>]
    /\ tips = [r \in Repos |-> [b \in Branches |->
                  IF b = MainBranch THEN Len(history[r]) ELSE NoSHA]]
    /\ branch = [r \in Repos |-> MainBranch]
    /\ onDisk = Repos \ Latecomers
    /\ edits = 0
    /\ moves = 0

\* An editor writes or deletes a file.
Edit(r, f, content) ==
    /\ r \in onDisk
    /\ edits < MaxEdits
    /\ wt[r][f] # content
    /\ wt' = [wt EXCEPT ![r][f] = content]
    /\ edits' = edits + 1
    /\ UNCHANGED <<history, tips, branch, onDisk, moves>>

\* git add -A; git commit.
Commit(r) ==
    /\ r \in onDisk
    /\ Len(history[r]) < MaxCommits
    /\ wt[r] # CommitTree(r, HeadOf(r))
    /\ history' = [history EXCEPT ![r] = Append(@, wt[r])]
    /\ tips' = [tips EXCEPT ![r][branch[r]] = Len(history[r]) + 1]
    /\ UNCHANGED <<branch, wt, onDisk, edits, moves>>

\* git checkout [-b]: files that do not differ from HEAD take the content of
\* the other commit; git refuses if that would overwrite a change.
Checkout(r, b) ==
    LET old == CommitTree(r, HeadOf(r))
        sha == IF tips[r][b] = NoSHA THEN HeadOf(r) ELSE tips[r][b]
        new == CommitTree(r, sha)
    IN  /\ r \in onDisk
        /\ b # branch[r]
        /\ edits < MaxEdits
        /\ \A f \in Files : wt[r][f] # old[f] => new[f] = old[f]
        /\ tips' = [tips EXCEPT ![r][b] = sha]
        /\ branch' = [branch EXCEPT ![r] = b]
        /\ wt' = [wt EXCEPT ![r] =
                     [f \in Files |-> IF @[f] = old[f] THEN new[f] ELSE @[f]]]
        /\ edits' = edits + 1
        /\ UNCHANGED <<history, onDisk, moves>>

\* rm -rf, and the same repository put back.
Disappear(r) ==
    /\ r \in onDisk
    /\ moves < MaxMoves
    /\ onDisk' = onDisk \ {r}
    /\ moves' = moves + 1
    /\ UNCHANGED <<history, tips, branch, wt, edits>>

Appear(r) ==
    /\ r \notin onDisk
    /\ moves < MaxMoves
    /\ onDisk' = onDisk \union {r}
    /\ moves' = moves + 1
    /\ UNCHANGED <<history, tips, branch, wt, edits>>

UserStep ==
    \E r \in Repos :
        \/ \E f \in Files, content \in Contents \union {Absent} :
              Edit(r, f, content)
        \/ Commit(r)
        \/ \E b \in Branches : Checkout(r, b)
        \/ Disappear(r)
        \/ Appear(r)
=============================================================================
