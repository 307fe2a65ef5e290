---------------------------- MODULE BranchHistory ----------------------------
(***************************************************************************)
(* What sgit promises about branches, whoever runs it and however often at *)
(* once: a branch is born at some commit, and from then on a step replaces *)
(* its tip by a commit that has the tip below it, or by an amended copy of *)
(* the tip, which has the tip's parents.  Nothing else happens to it, and  *)
(* no commit leaves the object database.                                   *)
(***************************************************************************)
EXTENDS Naturals, Sequences

CONSTANT Branches

VARIABLES commits, tips     \* tips[b] = 0 while b does not exist

vars == <<commits, tips>>

Init == \A b \in Branches : tips[b] \in 0..Len(commits)

Commit == commits'[Len(commits)+1]
Recorded ==
  /\ Len(commits') = Len(commits) + 1
  /\ SubSeq(commits', 1, Len(commits)) = commits

Point(b, c) == tips' = [tips EXCEPT ![b] = c]

\* A commit or a merge on top of what the branch has.
Extend(b) ==
  /\ Recorded
  /\ tips[b] \in Commit.below \cup {0}
  /\ Point(b, Len(commits'))

\* commit --amend
Amend(b) ==
  /\ Recorded
  /\ tips[b] # 0
  /\ Commit.parents = commits[tips[b]].parents
  /\ Point(b, Len(commits'))

\* The branch is created, or catches up with a commit that contains it.
Advance(b, c) ==
  /\ tips[b] \in commits[c].below \cup {0}
  /\ Point(b, c)
  /\ UNCHANGED commits

Next ==
  \/ Recorded /\ UNCHANGED tips
  \/ \E b \in Branches :
       \/ Extend(b)
       \/ Amend(b)
       \/ \E c \in 1..Len(commits) : Advance(b, c)

Spec == Init /\ [][Next]_vars
=============================================================================
