----------------------------- MODULE Invocation -----------------------------
(***************************************************************************)
(* Porcelain runs each command in one step.  Here several invocations of   *)
(* sgit work on one repository at a time and proceed from one libgit2 call *)
(* to the next.  sgit takes no lock of its own: a call is atomic, what was *)
(* read before it may be stale, and an invocation may end between any two  *)
(* of them, leaving behind what it has written.                            *)
(***************************************************************************)
EXTENDS Porcelain

CONSTANTS
  Procs,    \* the invocations
  Jobs      \* the commands they are given

ASSUME JobAssumption ==
  Jobs \subseteq {"commit", "amend", "merge", "ff-only", "no-ff",
                  "branch", "checkout"}

VARIABLES
  alone,    \* one user, who waits for a command to end and never breaks it
  pc,       \* the libgit2 call an invocation is about to make
  loc       \* what it has read so far

allVars == <<vars, alone, pc, loc>>

\* The locals of the handlers: its arguments, HEAD's reference and that
\* reference's target, the count and content of MERGE_HEAD, the index and
\* the commit to be merged.
Unread == [job |-> "", arg |-> Main, ref |-> Main, tip |-> NoCommit,
           count |-> 0, heads |-> <<>>, tree |-> EmptyTree,
           theirs |-> NoCommit]
Running == {p \in Procs : pc[p] \notin {"idle", "done"}}

At(p, call) == pc[p] = call
Goto(p, call) == pc' = [pc EXCEPT ![p] = call]
Read(p, f, v) == loc' = [loc EXCEPT ![p][f] = v]
ReadRef(p) == loc' = [loc EXCEPT ![p].ref = head, ![p].tip = Tip]
Exit(p) ==
  /\ pc' = [pc EXCEPT ![p] = "done"]
  /\ loc' = [loc EXCEPT ![p] = Unread]

Begin(p, job, b) ==
  /\ At(p, "idle")
  /\ alone => Running = {}
  /\ job \in {"commit", "amend"} => b = Main    \* no branch is named
  /\ loc' = [loc EXCEPT ![p] = [Unread EXCEPT !.job = job, !.arg = b]]
  /\ Goto(p, IF job \in {"commit", "amend", "branch"} THEN "head"
             ELSE "lookup")
  /\ UNCHANGED vars

\* A call fails, or the process dies.  Between the two writes of a
\* fast-forward or a checkout no call of a lone sgit fails.
Stop(p) ==
  /\ p \in Running
  /\ alone => pc[p] \notin {"set", "force"}
  /\ Exit(p)
  /\ UNCHANGED vars

-----------------------------------------------------------------------------
(***************************************************************************)
(* commit, also as the end of a merge.                                     *)
(***************************************************************************)
ReadHead(p) ==
  /\ At(p, "head")
  /\ ReadRef(p)
  /\ Goto(p, IF loc[p].job = "branch" THEN "create" ELSE "count")
  /\ UNCHANGED vars

CountMergeHeads(p) ==
  /\ At(p, "count")
  /\ mergeHeads # <<>> => loc[p].tip # NoCommit
  /\ Read(p, "count", Len(mergeHeads))
  /\ Goto(p, "heads")
  /\ UNCHANGED vars

\* Faulty: the callback stores every commit in the slot of HEAD's.
HeadsDropped(p) ==
  /\ At(p, "heads")
  /\ loc[p].count > 0 => mergeHeads # <<>>
  /\ Goto(p, "status")
  /\ UNCHANGED <<vars, loc>>

\* Faulty: that MERGE_HEAD is gone by now is no error.
HeadsUnfilled(p) ==
  /\ At(p, "heads")
  /\ Read(p, "heads", IF loc[p].count > 0 THEN mergeHeads ELSE <<>>)
  /\ Goto(p, "status")
  /\ UNCHANGED vars

ReadMergeHeads(p) ==
  /\ At(p, "heads")
  /\ loc[p].count > 0 => mergeHeads # <<>>
  /\ Read(p, "heads", IF loc[p].count > 0 THEN mergeHeads ELSE <<>>)
  /\ Goto(p, "status")
  /\ UNCHANGED vars

\* The status list refreshes the index.  Outside of merge --allow-empty may
\* be given.
ReadStatus(p) ==
  /\ At(p, "status")
  /\ HasStatus(index, workdir) \/ loc[p].job \in {"commit", "amend"}
  /\ Read(p, "tree", index)
  /\ Goto(p, "write")
  /\ UNCHANGED vars

\* Faulty: the reference is set to the commit without a look at its target.
WriteForced(p) ==
  LET me == loc[p]
      amend == me.job = "amend"
      parents == (IF me.tip = NoCommit THEN <<>> ELSE <<me.tip>>) \o me.heads
  IN  /\ At(p, "write")
      /\ ~HasConflicts(me.tree)
      /\ amend => Len(parents) = 1
      /\ CommitOnHead(NewCommit(IF amend THEN commits[me.tip].parents
                                ELSE parents, me.tree))
      /\ Exit(p)
      /\ UNCHANGED <<head, origin, worktree, mergeHeads, stash>>

\* git_commit_create and git_commit_amend resolve HEAD once more and refuse
\* unless its target is the first parent, or the amended commit.
WriteCommit(p) ==
  LET me == loc[p]
      amend == me.job = "amend"
      parents == (IF me.tip = NoCommit THEN <<>> ELSE <<me.tip>>) \o me.heads
  IN  /\ At(p, "write")
      /\ ~HasConflicts(me.tree)
      /\ amend => Len(parents) = 1
      /\ Tip = me.tip
      /\ CommitOnHead(NewCommit(IF amend THEN commits[me.tip].parents
                                ELSE parents, me.tree))
      /\ Exit(p)
      /\ UNCHANGED <<head, origin, worktree, mergeHeads, stash>>

-----------------------------------------------------------------------------
(***************************************************************************)
(* merge.  HEAD is read by the analysis, and once more for the reference   *)
(* that is set, or inside of git_merge.                                    *)
(***************************************************************************)
LookUp(p) ==
  /\ At(p, "lookup")
  /\ refs[loc[p].arg] # NoCommit
  /\ Read(p, "theirs", refs[loc[p].arg])
  /\ Goto(p, IF loc[p].job = "checkout" THEN "sethead" ELSE "analyse")
  /\ UNCHANGED vars

Analyse(p) ==
  LET ff == CanFastForward(loc[p].theirs)
  IN  /\ At(p, "analyse")
      /\ loc[p].job = "ff-only" => ff
      /\ Goto(p, IF ff /\ loc[p].job # "no-ff" THEN "ffhead" ELSE "merge")
      /\ UNCHANGED <<vars, loc>>

ReadTarget(p) ==
  /\ At(p, "ffhead")
  /\ Born
  /\ ReadRef(p)
  /\ Goto(p, "files")
  /\ UNCHANGED vars

CheckOutTarget(p) ==
  LET t == commits[loc[p].theirs].tree
  IN  /\ At(p, "files")
      /\ SafeCheckoutPossible(t)
      /\ index' = SafeCheckoutIndex(t)
      /\ workdir' = SafeCheckoutWorkdir(t)
      /\ Goto(p, "set")
      /\ UNCHANGED <<graph, mergeHeads, stash, loc>>

SetTarget(p) ==
  LET me == loc[p]
  IN  /\ At(p, "set")
      /\ refs[me.ref] = me.tip
      /\ refs' = [refs EXCEPT ![me.ref] = me.theirs]
      /\ Exit(p)
      /\ UNCHANGED <<commits, head, origin, worktree, mergeHeads, stash>>

CallMerge(p) ==
  LET c == loc[p].theirs
      m(base) == ThreeWay(base, HeadTree, commits[c].tree)
  IN  /\ At(p, "merge")
      /\ \/ /\ Born
            /\ \E base \in MergeBases(c) :
                 /\ ResultFits(m(base))
                 /\ MergeWritten(c, m(base), TRUE)
                 /\ \/ Exit(p)     \* conflicts or --no-commit
                    \/ /\ ~HasConflicts(ResultIndex(m(base)))
                       /\ Goto(p, "head")
                       /\ UNCHANGED loc
         \/ /\ Born => \E base \in MergeBases(c) : ~ResultFits(m(base))
            /\ MergeRefused
            /\ Exit(p)

-----------------------------------------------------------------------------
(***************************************************************************)
(* branch and checkout of a local branch.                                  *)
(***************************************************************************)
CreateRef(p) ==
  /\ At(p, "create")
  /\ loc[p].tip # NoCommit
  /\ refs[loc[p].arg] = NoCommit
  /\ refs' = [refs EXCEPT ![loc[p].arg] = loc[p].tip]
  /\ Exit(p)
  /\ UNCHANGED <<commits, head, origin, worktree, mergeHeads, stash>>

SetHead(p) ==
  /\ At(p, "sethead")
  /\ head' = loc[p].arg
  /\ refs' = [refs EXCEPT ![Detached] = NoCommit]
  /\ Goto(p, "force")
  /\ UNCHANGED <<commits, origin, worktree, mergeHeads, stash, loc>>

ForceHead(p) ==
  /\ At(p, "force")
  /\ ForceCheckout(HeadTree)
  /\ Exit(p)
  /\ UNCHANGED <<graph, mergeHeads, stash>>

-----------------------------------------------------------------------------
InitAll ==
  /\ Init
  /\ alone \in BOOLEAN
  /\ pc = [p \in Procs |-> "idle"]
  /\ loc = [p \in Procs |-> Unread]

\* The user edits files and stages them.
EditAndStage ==
  /\ alone => Running = {}
  /\ UserStep \/ \E S \in PathSelections : Add(S)
  /\ UNCHANGED <<pc, loc>>

Call(p) ==
  \/ ReadHead(p) \/ CountMergeHeads(p) \/ ReadMergeHeads(p)
  \/ ReadStatus(p) \/ WriteCommit(p)
  \/ LookUp(p) \/ Analyse(p) \/ ReadTarget(p) \/ CheckOutTarget(p)
  \/ SetTarget(p) \/ CallMerge(p)
  \/ CreateRef(p) \/ SetHead(p) \/ ForceHead(p)

\* How the repository is used does not change on the way.
NextAll ==
  /\ UNCHANGED alone
  /\ \/ EditAndStage
     \/ \E p \in Procs :
          \/ \E job \in Jobs, b \in Branches : Begin(p, job, b)
          \/ Call(p)
          \/ Stop(p)

SpecAll == InitAll /\ [][NextAll]_allVars
=============================================================================
