---------------------------- MODULE MCPorcelain ----------------------------
(***************************************************************************)
(* Small instances of Porcelain for TLC, told apart by where they start.   *)
(*                                                                         *)
(* fresh      sgit init, all commands, one path, two commits, a stash      *)
(* diverged   all commands but stash, fetch and those on single paths, one *)
(*            path in use                                                  *)
(* joining    the commands that join histories, two paths                  *)
(***************************************************************************)
EXTENDS PorcelainProps

CONSTANTS p1, p2, x

VARIABLE start

(***************************************************************************)
(* A repository whose branches have diverged: topic left main at the first *)
(* commit.  On topic p1 is gone, where a merge conflicts, or it is as it   *)
(* was; then p2 was changed if two paths are in use.  Four commands on a   *)
(* fresh repository lead here.                                             *)
(***************************************************************************)
Tree(f1, f2) == [p \in Paths |-> IF p = p1 THEN f1 ELSE f2]
Root == NewCommit(<<>>, Tree(x, x))
Child(t) == [parents |-> <<1>>, tree |-> t, below |-> {1}]
MainTree == Tree(Markers, x)
TopicTrees ==
  {Tree(Absent, x), Tree(x, IF start = "joining" THEN Markers ELSE x)}

DivergedInit ==
  /\ start \in {"diverged", "joining"}
  /\ \E t \in TopicTrees : commits = <<Root, Child(MainTree), Child(t)>>
  /\ refs = [r \in RefNames |-> IF r = Main THEN 2
                                ELSE IF r = Detached THEN NoCommit ELSE 3]
  /\ head = Main
  /\ origin = [b \in Branches |-> NoCommit]
  /\ index = MainTree
  /\ workdir = MainTree
  /\ mergeHeads = <<>>
  /\ stash = <<>>
MCInit == DivergedInit \/ (start = "fresh" /\ Init)

\* The bound of the instances with one path: p2 stays as it is.
OnePath ==
  /\ workdir'[p2] = workdir[p2] /\ index'[p2] = index[p2]
  /\ \A c \in DOMAIN commits' : commits'[c].tree[p2] = workdir[p2]

\* The commands a user joins histories with.
Edits == \E p \in Paths, f \in Files : Edit(p, f)
JoinSteps == StageStep \/ CommitStep \/ MergeStep \/ PickStep
JoinNext == Edits \/ JoinSteps
CreateStep == \E b \in Branches : CreateBranch(b)

\* With stash, fetch, and paths that are reset or checked out.
FreshNext == UserStep \/ JoinSteps \/ CreateStep \/ CheckoutStep
             \/ ResetStep \/ StashStep

\* With everything that moves HEAD or a tip.
DivergedNext ==
  \/ JoinNext \/ CreateStep \/ ResetTip
  \/ \E b \in Branches : CheckoutBranch(b) \/ CheckoutUnborn(b)
  \/ \E c \in DetachTargets : Detach(c)

MCNext ==
  /\ UNCHANGED start
  /\ \/ start = "fresh" /\ FreshNext /\ OnePath /\ Len(commits') <= 2
     \/ start = "diverged" /\ DivergedNext /\ OnePath
     \/ start = "joining" /\ JoinNext
MCSpec == MCInit /\ [][MCNext]_<<vars, start>>
JoinSpec == start = "joining" /\ DivergedInit
            /\ [][JoinNext /\ UNCHANGED start]_<<vars, start>>
=============================================================================
