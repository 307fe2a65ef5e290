--------------------------- MODULE PorcelainProps ---------------------------
(***************************************************************************)
(* What the commands of Porcelain owe their user.                          *)
(***************************************************************************)
EXTENDS Porcelain

(***************************************************************************)
(* Every variable has its type: the states the commands exchange through   *)
(* the repository are the ones libgit2 can store.                          *)
(***************************************************************************)
TypeOK ==
  /\ Len(commits) <= MaxCommits
  /\ commits \in Seq(CommitRecords(MaxCommits))
  /\ refs \in [RefNames -> 0..MaxCommits]
  /\ head \in RefNames
  /\ origin \in [Branches -> 0..MaxCommits]
  /\ index \in IndexStates
  /\ workdir \in Trees
  /\ mergeHeads \in Seq(1..MaxCommits)
  /\ stash \in Seq(Trees)
  /\ Len(stash) <= MaxStash

(***************************************************************************)
(* The commit graph is sound: what lies below a commit are its parents and *)
(* what lies below them, all of it older, and the history of an ancestor   *)
(* is part of the commit's own.  Merge analysis and amend rely on it.      *)
(***************************************************************************)
GraphSound ==
  \A c \in CommitIds :
    /\ commits[c].below = HistoryOf(Range(commits[c].parents))
    /\ Range(commits[c].parents) \subseteq 1..(c - 1)
    /\ commits[c].below \subseteq 1..(c - 1)
    /\ \A a \in commits[c].below : commits[a].below \subseteq commits[c].below

(***************************************************************************)
(* Nothing dangles: branches, HEAD, the remote-tracking branches and       *)
(* MERGE_HEAD name commits of the object database, and an oid stands       *)
(* directly in HEAD exactly while HEAD is detached.  commit, merge and     *)
(* status follow these names without a check of their own.                 *)
(***************************************************************************)
NothingDangles ==
  /\ \A r \in RefNames : refs[r] \in CommitIds \cup {NoCommit}
  /\ \A b \in Branches : origin[b] \in CommitIds \cup {NoCommit}
  /\ mergeHeads \in Seq(CommitIds)
  /\ head = Detached <=> refs[Detached] # NoCommit

RepositorySound == GraphSound /\ NothingDangles

-----------------------------------------------------------------------------
(***************************************************************************)
(* A branch only gains history.  When a step moves an existing branch, it  *)
(* is the one HEAD stands for, and either its old tip stays below the new  *)
(* one (commit, merge), or the tip alone is replaced by a new commit with  *)
(* the same parents (commit --amend), or it is a reset to some commit.     *)
(***************************************************************************)
ResetTip == \E c \in CommitIds : ResetSoft(c) \/ ResetMixed(c) \/ ResetHard(c)
TipMoves ==
  head \in Branches /\ head' = head /\ Born /\ refs'[head] # refs[head]
NewTip == commits'[refs'[head]]
GainsHistory == Tip \in NewTip.below
ReplacesTip ==
  Len(commits') > Len(commits) /\ NewTip.parents = commits[Tip].parents
HistoryStep ==
  /\ \A b \in Branches :
       b # head \/ head' # head => refs[b] \in {NoCommit, refs'[b]}
  /\ TipMoves => GainsHistory \/ ReplacesTip \/ ResetTip
BranchesGainHistory == [][HistoryStep]_vars

(***************************************************************************)
(* No commit forgets a merge.  As long as MERGE_HEAD lists a commit, every *)
(* commit made on HEAD has it below: commit takes all of MERGE_HEAD as     *)
(* parents, and --amend, which takes none of it, refuses.                  *)
(***************************************************************************)
RecordStep ==
  TipMoves /\ Len(commits') > Len(commits)
    => Range(mergeHeads') \subseteq NewTip.below
MergeHeadsRecorded == [][RecordStep]_vars

(***************************************************************************)
(* The first commit of a branch is a root.  checkout may leave HEAD at a   *)
(* branch that does not exist; MERGE_HEAD, which no commit and no checkout *)
(* removes, may still list what was merged into the branch before.  None   *)
(* of it becomes the history of the new branch.                            *)
(***************************************************************************)
FirstCommitStep ==
  ~Born /\ Born' /\ Len(commits') > Len(commits) => commits'[Tip'].parents = <<>>
FirstCommitIsRoot == [][FirstCommitStep]_vars

(***************************************************************************)
(* An unmerged index holds the branch.  Until the user resolves the        *)
(* conflicts, neither commit nor a second merge moves the tip; only a      *)
(* reset, which drops the conflicts, does.                                 *)
(***************************************************************************)
HoldStep == HasConflicts(index) /\ TipMoves => ResetTip
ConflictsHoldTheTip == [][HoldStep]_vars

(***************************************************************************)
(* A clean repository stays clean when its tip moves.  A fast-forward      *)
(* brings index and work tree to the tree of the commit the branch is set  *)
(* to, a merge that commits itself leaves nothing behind; a soft or mixed  *)
(* reset shows the difference on purpose.                                  *)
(***************************************************************************)
Clean == index = HeadTree /\ workdir = HeadTree
SoftReset == \E c \in CommitIds : ResetSoft(c) \/ ResetMixed(c)
CleanStep == Clean /\ TipMoves => Clean' \/ SoftReset
CleanStaysClean == [][CleanStep]_vars

(***************************************************************************)
(* No command overwrites work that is recorded nowhere.  A file that       *)
(* differs from HEAD's tree changes only when the user edits it, asks for  *)
(* a checkout or a hard reset, or puts it into a stash entry first; a      *)
(* merge, a cherry-pick and a stash pop leave it alone.  (stash drops an   *)
(* edited file that was taken out of the index.)                           *)
(***************************************************************************)
Discards ==
  \/ \E b \in Branches : CheckoutBranch(b) \/ CheckoutTracking(b)
  \/ \E c \in DetachTargets : Detach(c)
  \/ \E p \in Paths : CheckoutPath(p)
  \/ \E c \in CommitIds : ResetHard(c)
UserEdits == \E p \in Paths, f \in Files : Edit(p, f)
SaveStep ==
  \A p \in Paths :
    workdir[p] \notin {Absent, HeadTree[p]} /\ workdir'[p] # workdir[p] =>
      \/ Len(stash') > Len(stash)
           /\ (index[p] = Absent \/ stash'[1][p] = workdir[p])
      \/ UserEdits \/ Discards
UnsavedWorkSurvives == [][SaveStep]_vars

(***************************************************************************)
(* pop removes a stash entry only after its changes are back: every file   *)
(* in which the entry differs from HEAD is in the work tree, and an edit   *)
(* in its way keeps the entry in the list.                                 *)
(***************************************************************************)
PopStep ==
  Len(stash') < Len(stash) /\ StashApply(TRUE) =>
    \A p \in Paths : stash[1][p] \in {HeadTree[p], workdir'[p]}
StashPopRestores == [][PopStep]_vars
-----------------------------------------------------------------------------
(***************************************************************************)
(* status reports "On branch ..., but merging" while MERGE_HEAD exists,    *)
(* and merge asks the user to "resolve and commit": a commit that has what *)
(* MERGE_HEAD names among its parents should end the merge.  Neither the   *)
(* user's commit nor merge's own removes MERGE_HEAD, so this fails.        *)
(***************************************************************************)
CommitsMerge ==
  /\ TipMoves /\ Len(commits') > Len(commits)
  /\ Len(NewTip.parents) > 1
CommitEndsMerge == [][CommitsMerge => mergeHeads' = <<>>]_vars
=============================================================================
