----------------------------- MODULE RebaseProps -----------------------------
(***************************************************************************)
(* What rebase owes its user.                                              *)
(***************************************************************************)
EXTENDS Rebase, PorcelainProps

(***************************************************************************)
(* What libgit2 keeps of the rebase is well-typed and names commits.       *)
(***************************************************************************)
RebaseTypeOK ==
  /\ TypeOK
  /\ rebase \in [name : RefNames, orig : CommitIds \cup {NoCommit},
                 todo : SUBSET CommitIds]
  /\ call \in {"none", "next", "commit"}

(***************************************************************************)
(* Until it is finished, a rebase builds on a detached HEAD: the branch    *)
(* keeps its old tip however often the handler stops, dies or is           *)
(* continued, and whatever the user commits in between.                    *)
(***************************************************************************)
BranchWaits ==
  InProgress /\ rebase.name # Detached =>
    head = Detached /\ refs[rebase.name] = rebase.orig

(***************************************************************************)
(* --abort undoes the whole rebase: no branch has moved, HEAD's commit is  *)
(* the one it was, and index and tracked files are those of this commit.   *)
(***************************************************************************)
AbortRestores ==
  [][Abort => /\ \A b \in Branches : refs'[b] = refs[b]
              /\ Tip' = rebase.orig
              /\ ~(HasStatus(index, workdir))']_rebaseVars

(***************************************************************************)
(* Every invocation ends: the loop over the patches stops at a patch that  *)
(* does not apply or cannot be committed, or runs out of patches.          *)
(***************************************************************************)
RebaseEnds == call # "none" ~> call = "none"

(***************************************************************************)
(* rebase is described as "Reapply changes": when it moves the branch, the *)
(* changes it applied are in the branch and nothing is left over in the    *)
(* index.  --continue goes on with the next patch and never commits the    *)
(* one that conflicted, so this does not hold.                             *)
(***************************************************************************)
ChangesReapplied == [][Finish /\ rebase' = NoRebase => index = HeadTree]_rebaseVars
=============================================================================
