------------------------------ MODULE MCRebase ------------------------------
(***************************************************************************)
(* Small instances of Rebase for TLC.                                      *)
(***************************************************************************)
EXTENDS RebaseProps

CONSTANTS p1, p2, x

(***************************************************************************)
(* main removed or kept p1 since the common commit; topic has two patches, *)
(* the first one of which touches p1 or p2.                                *)
(***************************************************************************)
File(a, b) == [p \in Paths |-> IF p = p1 THEN a ELSE b]
Onto(c, t) == [parents |-> <<c>>, tree |-> t, below |-> 1..c]
TopicInit ==
  /\ \E f \in {x, Absent}, first \in {File(Markers, x), File(x, Markers)} :
       commits = <<NewCommit(<<>>, File(x, x)),
                   [Onto(1, first) EXCEPT !.below = {1}],
                   Onto(2, File(Markers, Markers)),
                   [Onto(1, File(f, x)) EXCEPT !.below = {1}]>>
  /\ refs = [r \in RefNames |-> IF r = Main THEN 4
                                ELSE IF r = Detached THEN NoCommit ELSE 3]
  /\ head \in Branches
  /\ origin = [b \in Branches |-> NoCommit]
  /\ index = HeadTree
  /\ workdir = HeadTree
  /\ mergeHeads = <<>>
  /\ stash = <<>>
  /\ rebase = NoRebase
  /\ call = "none"
TopicSpec ==
  TopicInit /\ [][RebaseNext]_rebaseVars /\ WF_rebaseVars(Handler)
=============================================================================
