--------------------------- MODULE InvocationProps ---------------------------
(***************************************************************************)
(* What interleaved and interrupted invocations of sgit keep, and what a   *)
(* lone one looks like from outside.                                       *)
(***************************************************************************)
EXTENDS Invocation, PorcelainProps

(***************************************************************************)
(* The locals of the handlers.  commit allocates a slot for each entry of  *)
(* MERGE_HEAD it counts and reads the file again to fill them: when it     *)
(* goes on, every slot is filled, and with a commit.                       *)
(***************************************************************************)
Calls == {"idle", "head", "count", "heads", "status", "write", "lookup",
          "analyse", "ffhead", "files", "set", "merge", "create",
          "sethead", "force", "done"}
LocalsOK ==
  /\ pc \in [Procs -> Calls]
  /\ \A p \in Procs :
       /\ loc[p].arg \in Branches /\ loc[p].ref \in RefNames
       /\ {loc[p].tip, loc[p].theirs} \subseteq CommitIds \cup {NoCommit}
       /\ loc[p].heads \in Seq(CommitIds)
       /\ pc[p] \in {"status", "write"} => Len(loc[p].heads) = loc[p].count
       /\ loc[p].tree \in IndexStates

(***************************************************************************)
(* Whatever runs at the same time and wherever an invocation dies, the     *)
(* parents of a commit to be written are complete, and HEAD, the branches  *)
(* and MERGE_HEAD name stored commits.                                     *)
(***************************************************************************)
SharedRepositorySound == LocalsOK /\ RepositorySound

(***************************************************************************)
(* No invocation throws away what another one has committed: the branches  *)
(* obey BranchHistory.  commit is safe because git_commit_create compares  *)
(* the branch with the parent it was given; branch because it does not     *)
(* overwrite.                                                              *)
(***************************************************************************)
H == INSTANCE BranchHistory WITH tips <- [b \in Branches |-> refs[b]]
HistoryKept == H!Spec

\* Two of the jobs may set a branch without writing a commit.
FastForwards == {"merge", "ff-only"}

(***************************************************************************)
(* A fast-forward reads HEAD twice: the analysis decides with the first    *)
(* target, the update is checked against the second.                       *)
(* merge is described as "Join histories defined by commit together", so   *)
(* the branch has to keep its own history; a commit made between the two   *)
(* reads is lost, so this does not hold.                                   *)
(***************************************************************************)
MergeJoins ==
  [][\A p \in Procs :
       SetTarget(p) => refs[loc[p].ref] \in History(loc[p].theirs)]_allVars

(***************************************************************************)
(* A user who works alone has each command do in its many calls what       *)
(* Porcelain says it does in one step.  The step is the first of the two   *)
(* writes of a fast-forward and of a checkout; until the second one, the   *)
(* repository counts as what it is going to be.                            *)
(***************************************************************************)
Between(call) == {p \in Procs : At(p, call)}
DueRefs == [r \in RefNames |->
  IF \E p \in Between("set") : loc[p].ref = r
    THEN loc[CHOOSE p \in Between("set") : loc[p].ref = r].theirs
    ELSE refs[r]]
DueIndex == IF Between("force") = {} THEN index ELSE HeadTree
DueWorkdir == IF Between("force") = {} THEN workdir ELSE HeadTree
OneStep == INSTANCE Porcelain
  WITH refs <- DueRefs, index <- DueIndex, workdir <- DueWorkdir
CommandsAreAtomic == [][alone => OneStep!Next]_(OneStep!vars)
=============================================================================
