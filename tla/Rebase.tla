------------------------------- MODULE Rebase -------------------------------
(***************************************************************************)
(* rebase, in the calls its handler makes: git_rebase_init or _open, then  *)
(* git_rebase_next and git_rebase_commit for each patch, then              *)
(* git_rebase_finish.  The handler stops at the first call that fails; the *)
(* state libgit2 keeps below .git/rebase-merge stays for --continue and    *)
(* --abort.  Between invocations the user edits, stages and commits.       *)
(***************************************************************************)
EXTENDS Porcelain

VARIABLES
  rebase,       \* .git/rebase-merge: the branch, its old tip, patches to come
  call          \* the call the running handler makes next, or "none"

rebaseVars == <<vars, rebase, call>>

NoRebase == [name |-> Detached, orig |-> NoCommit, todo |-> {}]
InProgress == rebase # NoRebase
Patches(c) == {a \in History(Tip) \ History(c) : Len(commits[a].parents) <= 1}

-----------------------------------------------------------------------------
\* Faulty: HEAD stays on the branch that is rebased.
StartAttached(c) ==
  /\ call = "none" /\ ~InProgress
  /\ Born
  /\ ~HasStatus(index, workdir)
  /\ SafeCheckoutPossible(commits[c].tree)
  /\ rebase' = [name |-> head, orig |-> Tip, todo |-> Patches(c)]
  /\ refs' = [refs EXCEPT ![head] = c]
  /\ index' = SafeCheckoutIndex(commits[c].tree)
  /\ workdir' = SafeCheckoutWorkdir(commits[c].tree)
  /\ call' = "next"
  /\ UNCHANGED <<commits, head, origin, mergeHeads, stash>>

\* rebase <upstream>: git_rebase_init wants a clean work tree, notes down
\* the patches, detaches HEAD at the upstream and checks it out.
Start(c) ==
  /\ call = "none" /\ ~InProgress
  /\ Born
  /\ ~HasStatus(index, workdir)
  /\ SafeCheckoutPossible(commits[c].tree)
  /\ rebase' = [name |-> head, orig |-> Tip, todo |-> Patches(c)]
  /\ head' = Detached
  /\ refs' = [refs EXCEPT ![Detached] = c]
  /\ index' = SafeCheckoutIndex(commits[c].tree)
  /\ workdir' = SafeCheckoutWorkdir(commits[c].tree)
  /\ call' = "next"
  /\ UNCHANGED <<commits, origin, mergeHeads, stash>>

Continue ==
  /\ call = "none" /\ InProgress
  /\ call' = "next"
  /\ UNCHANGED <<vars, rebase>>

\* Faulty: the loop goes on until the call succeeds.
NextRepeated ==
  LET op == CHOOSE a \in rebase.todo : \A b \in rebase.todo : a <= b
      m == ThreeWay(ParentTree(op), HeadTree, commits[op].tree)
  IN  /\ call = "next" /\ rebase.todo # {}
      /\ ResultFits(m)
      /\ rebase' = [rebase EXCEPT !.todo = @ \ {op}]
      /\ index' = ResultIndex(m)
      /\ workdir' = ResultWorkdir(m)
      /\ call' = "commit"
      /\ UNCHANGED <<graph, mergeHeads, stash>>

\* The oldest patch becomes the current one before it is applied, whatever
\* became of the last one.
NextPatch ==
  LET op == CHOOSE a \in rebase.todo : \A b \in rebase.todo : a <= b
      m == ThreeWay(ParentTree(op), HeadTree, commits[op].tree)
  IN  /\ call = "next" /\ rebase.todo # {}
      /\ rebase' = [rebase EXCEPT !.todo = @ \ {op}]
      /\ IF ResultFits(m)
           THEN /\ index' = ResultIndex(m)
                /\ workdir' = ResultWorkdir(m)
                /\ call' = "commit"
           ELSE UNCHANGED worktree /\ call' = "none"
      /\ UNCHANGED <<graph, mergeHeads, stash>>

\* Refused while the index is unmerged, and when the patch is there already.
\* MaxCommits stands for a full disk.
CommitPatch ==
  /\ call = "commit"
  /\ IF HasConflicts(index) \/ index = HeadTree \/ Len(commits) = MaxCommits
       THEN call' = "none" /\ UNCHANGED vars
       ELSE /\ CommitOnHead(NewCommit(<<Tip>>, index))
            /\ call' = "next"
            /\ UNCHANGED <<head, origin, worktree, mergeHeads, stash>>
  /\ UNCHANGED rebase

\* git_rebase_finish moves the branch unless it has changed meanwhile.
Finish ==
  /\ call = "next" /\ rebase.todo = {}
  /\ call' = "none"
  /\ IF refs[rebase.name] = rebase.orig \/ rebase.name = Detached
       THEN /\ head' = rebase.name
            /\ refs' = [refs EXCEPT ![Detached] = NoCommit,
                                    ![rebase.name] = Tip]
            /\ rebase' = NoRebase
       ELSE UNCHANGED <<head, refs, rebase>>
  /\ UNCHANGED <<commits, origin, worktree, mergeHeads, stash>>

\* Faulty: the work tree is left as it is.
AbortSoft ==
  /\ call = "none" /\ InProgress
  /\ head' = rebase.name
  /\ refs' = [refs EXCEPT ![Detached] = NoCommit, ![rebase.name] = rebase.orig]
  /\ rebase' = NoRebase
  /\ UNCHANGED <<commits, origin, worktree, mergeHeads, stash, call>>

\* HEAD goes back to the branch, then a hard reset to its old tip.
Abort ==
  LET t == commits[rebase.orig].tree
  IN  /\ call = "none" /\ InProgress
      /\ head' = rebase.name
      /\ refs' = [refs EXCEPT ![Detached] = NoCommit,
                              ![rebase.name] = rebase.orig]
      /\ index' = t
      /\ workdir' = Overlay(workdir, t,
                      {p \in Paths : {t[p], index[p]} # {Absent}})
      /\ mergeHeads' = <<>>
      /\ rebase' = NoRebase
      /\ UNCHANGED <<commits, origin, stash, call>>

\* The process dies between two calls.
Die ==
  /\ call # "none"
  /\ call' = "none"
  /\ UNCHANGED <<vars, rebase>>

-----------------------------------------------------------------------------
User ==
  /\ call = "none"
  /\ \/ \E p \in Paths, f \in Files : Edit(p, f)
     \/ \E S \in PathSelections : Add(S)
     \/ Commit(FALSE, FALSE)
  /\ UNCHANGED <<rebase, call>>

Handler == NextPatch \/ CommitPatch \/ Finish

RebaseNext ==
  \/ \E c \in MergeSources : Start(c)
  \/ Continue
  \/ Handler
  \/ Abort
  \/ Die
  \/ User

\* The loop of the handler goes on as long as its process lives.
RebaseInit == Init /\ rebase = NoRebase /\ call = "none"
RebaseSpec ==
  RebaseInit /\ [][RebaseNext]_rebaseVars /\ WF_rebaseVars(Handler)
=============================================================================
