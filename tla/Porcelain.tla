----------------------------- MODULE Porcelain -----------------------------
(***************************************************************************)
(* The commands of sgit that change a repository with a work tree, each    *)
(* run to its end by one user: add, rm, commit, merge, branch, checkout,   *)
(* reset, stash and cherry-pick.  One action is one invocation of sgit,    *)
(* from the parsed arguments to the exit of the handler; an invocation     *)
(* that fails and changes nothing is a stuttering step and has no action.  *)
(***************************************************************************)
EXTENDS GitRepo

CONSTANT Remotes    \* the branches the remote repository publishes

ASSUME RemoteAssumption == Remotes \subseteq Branches

-----------------------------------------------------------------------------
(***************************************************************************)
(* The surroundings: the user edits a file, a fetch brings in a commit.    *)
(***************************************************************************)
Edit(p, f) ==
  /\ workdir[p] # f
  /\ workdir' = [workdir EXCEPT ![p] = f]
  /\ UNCHANGED <<graph, index, mergeHeads, stash>>

\* Faulty: the tips are updated although the download failed.
FetchedNothing(b, parents, t) ==
  /\ origin' = [origin EXCEPT ![b] = Len(commits) + 1]
  /\ UNCHANGED <<commits, refs, head, worktree, mergeHeads, stash>>

\* update_tips follows the remote, whatever its branch pointed at before.
Fetch(b, parents, t) ==
  /\ StoreCommit(NewCommit(parents, t))
  /\ origin' = [origin EXCEPT ![b] = Len(commits) + 1]
  /\ UNCHANGED <<refs, head, worktree, mergeHeads, stash>>

-----------------------------------------------------------------------------
(***************************************************************************)
(* add and rm.  Both work on the index only; adding an unmerged path       *)
(* resolves it.  A path given to add must exist (realpath), only adding    *)
(* the root or -A stages deletions.                                        *)
(***************************************************************************)
Add(S) ==
  /\ S = Paths \/ \A p \in S : workdir[p] # Absent
  /\ index' = Overlay(index, workdir, S)
  /\ UNCHANGED <<graph, workdir, mergeHeads, stash>>

Rm(p) ==
  /\ index[p] # Absent
  /\ index' = [index EXCEPT ![p] = Absent]
  /\ UNCHANGED <<graph, workdir, mergeHeads, stash>>

-----------------------------------------------------------------------------
(***************************************************************************)
(* commit.  The parents are HEAD's commit, if there is one, and every      *)
(* entry of MERGE_HEAD.  It is a set of operators of the index, work tree  *)
(* and MERGE_HEAD it finds, as merge runs it after writing these.          *)
(***************************************************************************)
Parents(mh) == (IF Born THEN <<Tip>> ELSE <<>>) \o mh

\* Faulty: --amend does not ask for a single parent.
AmendUnchecked(idx, wd, mh, allowEmpty, amend) ==
  /\ (mh # <<>> \/ amend) => Born
  /\ allowEmpty \/ HasStatus(idx, wd)
  /\ ~HasConflicts(idx)

\* Faulty: a tree is written although the index is unmerged.
UnmergedUnchecked(idx, wd, mh, allowEmpty, amend) ==
  /\ mh # <<>> => Born
  /\ allowEmpty \/ HasStatus(idx, wd)
  /\ amend => Len(Parents(mh)) = 1

\* Faulty: MERGE_HEAD alone will do when HEAD has no commit.
UnbornUnchecked(idx, wd, mh, allowEmpty, amend) ==
  /\ allowEmpty \/ HasStatus(idx, wd)
  /\ ~HasConflicts(idx)
  /\ amend => Born /\ Len(Parents(mh)) = 1

CommitAllowed(idx, wd, mh, allowEmpty, amend) ==
  /\ mh # <<>> => Born
  /\ allowEmpty \/ HasStatus(idx, wd)
  /\ ~HasConflicts(idx)
  /\ amend => Len(Parents(mh)) = 1

CommitRecord(idx, mh, amend) ==
  NewCommit(IF amend THEN commits[Tip].parents ELSE Parents(mh), idx)

Commit(allowEmpty, amend) ==
  /\ CommitAllowed(index, workdir, mergeHeads, allowEmpty, amend)
  /\ CommitOnHead(CommitRecord(index, mergeHeads, amend))
  /\ UNCHANGED <<head, origin, worktree, mergeHeads, stash>>

-----------------------------------------------------------------------------
(***************************************************************************)
(* merge.  The exit code of the commit at its end is ignored, and a merge  *)
(* libgit2 refuses removes MERGE_HEAD, also that of an earlier merge.      *)
(***************************************************************************)
MergeSources ==
  ({refs[b] : b \in Branches} \cup {origin[b] : b \in Branches}) \ {NoCommit}

\* Faulty: the branch is set before the checkout, whose baseline is HEAD.
TargetFirst(c) ==
  /\ Born
  /\ refs' = [refs EXCEPT ![head] = c]
  /\ UNCHANGED <<commits, head, origin, worktree, mergeHeads, stash>>

FastForward(c) ==
  /\ Born
  /\ SafeCheckoutPossible(commits[c].tree)
  /\ index' = SafeCheckoutIndex(commits[c].tree)
  /\ workdir' = SafeCheckoutWorkdir(commits[c].tree)
  /\ refs' = [refs EXCEPT ![head] = c]
  /\ UNCHANGED <<commits, head, origin, mergeHeads, stash>>

MergeRefused ==
  /\ mergeHeads' = <<>>
  /\ UNCHANGED <<graph, worktree, stash>>

\* Faulty: the commit uses the index read before the merge.
MergeStaleIndex(c, m, noCommit) ==
  /\ index' = ResultIndex(m)
  /\ workdir' = ResultWorkdir(m)
  /\ mergeHeads' = <<c>>
  /\ IF noCommit \/ ~CommitAllowed(index, workdir', <<c>>, FALSE, FALSE)
       THEN UNCHANGED <<commits, refs>>
       ELSE CommitOnHead(CommitRecord(index, <<c>>, FALSE))
  /\ UNCHANGED <<head, origin, stash>>

MergeWritten(c, m, noCommit) ==
  LET idx == ResultIndex(m)
      wd == ResultWorkdir(m)
  IN  /\ index' = idx
      /\ workdir' = wd
      /\ mergeHeads' = <<c>>
      /\ IF noCommit \/ ~CommitAllowed(idx, wd, <<c>>, FALSE, FALSE)
           THEN UNCHANGED <<commits, refs>>
           ELSE CommitOnHead(CommitRecord(idx, <<c>>, FALSE))
      /\ UNCHANGED <<head, origin, stash>>

\* Faulty: the result is written over uncommitted changes.
MergeUnguarded(c, noCommit) ==
  /\ Born
  /\ \E base \in MergeBases(c) :
       MergeWritten(c, ThreeWay(base, HeadTree, commits[c].tree), noCommit)

ThreeWayMerge(c, noCommit) ==
  IF Born
    THEN \E base \in MergeBases(c) :
           LET m == ThreeWay(base, HeadTree, commits[c].tree)
           IN  IF ResultFits(m) THEN MergeWritten(c, m, noCommit)
               ELSE MergeRefused
    ELSE MergeRefused

\* Faulty: the result of the merge analysis is not tested.
MergeUnanalysed(c, ffOnly, noFF, noCommit) ==
  IF ~noFF THEN FastForward(c) ELSE ThreeWayMerge(c, noCommit)

Merge(c, ffOnly, noFF, noCommit) ==
  /\ ffOnly => CanFastForward(c)
  /\ IF CanFastForward(c) /\ ~noFF
       THEN FastForward(c)
       ELSE ThreeWayMerge(c, noCommit)

-----------------------------------------------------------------------------
(***************************************************************************)
(* cherry-pick applies a commit that is no merge and leaves the commit to  *)
(* the user.                                                               *)
(***************************************************************************)
ParentTree(c) ==
  IF commits[c].parents = <<>> THEN EmptyTree
  ELSE commits[commits[c].parents[1]].tree

CherryPick(c) ==
  /\ Born
  /\ Len(commits[c].parents) <= 1
  /\ LET m == ThreeWay(ParentTree(c), HeadTree, commits[c].tree)
     IN  /\ ResultFits(m)
         /\ index' = ResultIndex(m)
         /\ workdir' = ResultWorkdir(m)
  /\ UNCHANGED <<graph, mergeHeads, stash>>

-----------------------------------------------------------------------------
(***************************************************************************)
(* branch and checkout.  checkout moves HEAD first, then forces the work   *)
(* tree and the index to HEAD's tree and removes untracked files.          *)
(***************************************************************************)
CreateBranch(b) ==
  /\ Born
  /\ refs[b] = NoCommit
  /\ refs' = [refs EXCEPT ![b] = Tip]
  /\ UNCHANGED <<commits, head, origin, worktree, mergeHeads, stash>>

ForceCheckout(t) == index' = t /\ workdir' = t

SwitchTo(b, c) ==
  /\ head' = b
  /\ refs' = [refs EXCEPT ![b] = c, ![Detached] = NoCommit]
  /\ ForceCheckout(commits[c].tree)
  /\ UNCHANGED <<commits, origin, mergeHeads, stash>>

CheckoutBranch(b) == refs[b] # NoCommit /\ SwitchTo(b, refs[b])

CheckoutTracking(b) ==
  /\ refs[b] = NoCommit
  /\ origin[b] # NoCommit
  /\ SwitchTo(b, origin[b])

\* checkout refs/heads/<b> of a branch that does not exist: HEAD moves, the
\* checkout of HEAD then fails.
CheckoutUnborn(b) ==
  /\ refs[b] = NoCommit
  /\ head' = b
  /\ refs' = [refs EXCEPT ![Detached] = NoCommit]
  /\ UNCHANGED <<commits, origin, worktree, mergeHeads, stash>>

\* checkout of a reference that is no branch: HEAD, refs/remotes/origin/<b>
Detach(c) ==
  /\ head' = Detached
  /\ refs' = [refs EXCEPT ![Detached] = c]
  /\ ForceCheckout(commits[c].tree)
  /\ UNCHANGED <<commits, origin, mergeHeads, stash>>

CheckoutPath(p) ==
  /\ Born
  /\ index' = [index EXCEPT ![p] = HeadTree[p]]
  /\ workdir' = [workdir EXCEPT ![p] = HeadTree[p]]
  /\ UNCHANGED <<graph, mergeHeads, stash>>

-----------------------------------------------------------------------------
(***************************************************************************)
(* reset.  libgit2 refuses a soft reset during a merge and ends the merge  *)
(* on the others; a hard one rewrites every tracked file.                  *)
(***************************************************************************)
MoveTip(c) == refs' = [refs EXCEPT ![head] = c]

ResetSoft(c) ==
  /\ mergeHeads = <<>>
  /\ ~HasConflicts(index)
  /\ MoveTip(c)
  /\ UNCHANGED <<commits, head, origin, worktree, mergeHeads, stash>>

ResetMixed(c) ==
  /\ MoveTip(c)
  /\ index' = commits[c].tree
  /\ mergeHeads' = <<>>
  /\ UNCHANGED <<commits, head, origin, workdir, stash>>

ResetHard(c) ==
  LET t == commits[c].tree
      tracked == {p \in Paths : {t[p], HeadTree[p], index[p]} # {Absent}}
  IN  /\ MoveTip(c)
      /\ index' = t
      /\ workdir' = Overlay(workdir, t, tracked)
      /\ mergeHeads' = <<>>
      /\ UNCHANGED <<commits, head, origin, stash>>

ResetPaths(c, S) ==
  /\ index' = Overlay(index, commits[c].tree, S)
  /\ UNCHANGED <<graph, workdir, mergeHeads, stash>>

-----------------------------------------------------------------------------
(***************************************************************************)
(* stash.  apply and pop check out the whole tree of the newest entry over *)
(* the work tree.  With no entry the id they look up is uninitialised:     *)
(* the lookup fails, or the stale bytes name some commit.                  *)
(***************************************************************************)
StashTree == [p \in Paths |-> IF index[p] = Absent THEN Absent ELSE workdir[p]]

StashSave ==
  LET tracked == {p \in Paths : {HeadTree[p], index[p]} # {Absent}}
  IN  /\ Born
      /\ ~HasConflicts(index)
      /\ HasStatus(index, workdir)
      /\ Len(stash) < MaxStash
      /\ stash' = <<StashTree>> \o stash
      /\ index' = HeadTree
      /\ workdir' = Overlay(workdir, HeadTree, tracked)
      /\ UNCHANGED <<graph, mergeHeads>>

StashCandidates ==
  IF stash # <<>> THEN {stash[1]} ELSE {commits[c].tree : c \in CommitIds}

\* Faulty: GIT_CHECKOUT_FORCE in place of GIT_CHECKOUT_SAFE.
ForcedApply(pop) ==
  \E t \in StashCandidates :
    /\ workdir' = SafeCheckoutWorkdir(t)
    /\ stash' = IF pop /\ stash # <<>> THEN Tail(stash) ELSE stash
    /\ UNCHANGED <<graph, index, mergeHeads>>

\* Faulty: pop drops the entry although its checkout failed.
DropAnyway(pop) ==
  \E t \in StashCandidates :
    /\ workdir' = IF SafeCheckoutPossible(t) THEN SafeCheckoutWorkdir(t)
                  ELSE workdir
    /\ stash' = IF pop /\ stash # <<>> THEN Tail(stash) ELSE stash
    /\ UNCHANGED <<graph, index, mergeHeads>>

StashApply(pop) ==
  \E t \in StashCandidates :
    /\ SafeCheckoutPossible(t)
    /\ workdir' = SafeCheckoutWorkdir(t)
    /\ stash' = IF pop /\ stash # <<>> THEN Tail(stash) ELSE stash
    /\ UNCHANGED <<graph, index, mergeHeads>>

StashDrop ==
  /\ stash # <<>>
  /\ stash' = Tail(stash)
  /\ UNCHANGED <<graph, worktree, mergeHeads>>
-----------------------------------------------------------------------------
ParentChoices == {<<>>} \cup {<<c>> : c \in CommitIds}
PathSelections == {{p} : p \in Paths} \cup {Paths}
DetachTargets ==
  ({Tip} \cup {origin[b] : b \in Branches}) \ {NoCommit}

UserStep ==
  \/ \E p \in Paths, f \in Files : Edit(p, f)
  \/ \E b \in Remotes, ps \in ParentChoices, t \in Trees : Fetch(b, ps, t)

StageStep ==
  \/ \E S \in PathSelections : Add(S)
  \/ \E p \in Paths : Rm(p)

CommitStep == \E allowEmpty, amend \in BOOLEAN : Commit(allowEmpty, amend)

MergeStep ==
  \E c \in MergeSources, ffOnly, noFF, noCommit \in BOOLEAN :
    Merge(c, ffOnly, noFF, noCommit)

PickStep == \E c \in CommitIds : CherryPick(c)

CheckoutStep ==
  \/ \E b \in Branches :
       CheckoutBranch(b) \/ CheckoutTracking(b) \/ CheckoutUnborn(b)
  \/ \E c \in DetachTargets : Detach(c)
  \/ \E p \in Paths : CheckoutPath(p)

ResetStep ==
  \E c \in CommitIds :
    \/ ResetSoft(c) \/ ResetMixed(c) \/ ResetHard(c)
    \/ \E S \in PathSelections : ResetPaths(c, S)

StashStep ==
  StashSave \/ StashDrop \/ \E pop \in BOOLEAN : StashApply(pop)

Next ==
  \/ UserStep
  \/ StageStep
  \/ CommitStep
  \/ MergeStep
  \/ PickStep
  \/ \E b \in Branches : CreateBranch(b)
  \/ CheckoutStep
  \/ ResetStep
  \/ StashStep

Spec == Init /\ [][Next]_vars
=============================================================================
