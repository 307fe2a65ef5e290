---------------------------- MODULE MCInvocation ----------------------------
(***************************************************************************)
(* Small instances of Invocation for TLC.                                  *)
(***************************************************************************)
EXTENDS InvocationProps

CONSTANTS p1, x

(***************************************************************************)
(* A repository in which main and topic are at a common first commit, or   *)
(* one or both have gone on from there: main removed the file, topic       *)
(* changed it (a merge conflicts) or not, or does not exist yet.  Whoever  *)
(* is not alone does not fast-forward: run InvocationFastForward shows     *)
(* what becomes of the branch then.                                        *)
(***************************************************************************)
Tree(f) == [p \in Paths |-> f]
Onward(f) == [parents |-> <<1>>, tree |-> Tree(f), below |-> {1}]
StartedInit ==
  /\ alone \in BOOLEAN
  /\ \E f \in {x, Markers} :
       commits = <<NewCommit(<<>>, Tree(x)), Onward(Absent), Onward(f)>>
  /\ \E m \in {1, 2}, t \in {NoCommit, 1, 3} :
       refs = [r \in RefNames |-> IF r = Main THEN m
                                  ELSE IF r = Detached THEN NoCommit ELSE t]
  /\ head \in Branches /\ Born
  /\ origin = [b \in Branches |-> NoCommit]
  /\ index = HeadTree
  /\ workdir = HeadTree
  /\ mergeHeads = <<>>
  /\ stash = <<>>
  /\ pc = [p \in Procs |-> "idle"]
  /\ loc = [p \in Procs |-> Unread]
StartedSpec == StartedInit /\ [][NextAll]_allVars

Careful == \A p \in Procs : loc[p].job \in FastForwards => alone
CarefulSpec == StartedInit /\ [][NextAll /\ Careful']_allVars
=============================================================================
