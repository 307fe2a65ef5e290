------------------------------ MODULE GitRepo ------------------------------
(***************************************************************************)
(* The repository as sgit sees it through libgit2: the commit graph, the   *)
(* references, the index, the work tree, MERGE_HEAD and the stash list,    *)
(* and the libgit2 calls on them that several commands share.              *)
(*                                                                         *)
(* libgit2 is a submodule whose code is not part of the repository.  Its   *)
(* calls are modelled from the way src/src uses them: which flags it       *)
(* passes, which return codes it tests for, and what it relies on          *)
(* afterwards.                                                             *)
(***************************************************************************)
EXTENDS Naturals, Sequences, Functions

CONSTANTS
  Branches,     \* names below refs/heads (and below refs/remotes/origin)
  Main,         \* the branch HEAD names in a fresh repository
  Detached,     \* the pseudo reference used while HEAD holds an oid itself
  Paths,        \* the paths files can live at
  Contents,     \* the blobs a path can hold
  Markers,      \* the blob a conflicting merge leaves in the work tree
  Absent,       \* there is no file at the path
  Unmerged,     \* the index holds conflict stages for the path
  MaxCommits,   \* bound: commits that are ever created
  MaxStash      \* bound: entries of the stash list

ASSUME BranchAssumption == Main \in Branches /\ Detached \notin Branches
ASSUME ContentAssumption ==
  /\ Markers \in Contents
  /\ Absent \notin Contents
  /\ Unmerged \notin Contents
  /\ Unmerged # Absent
ASSUME BoundAssumption == MaxCommits \in Nat /\ MaxStash \in Nat

VARIABLES
  commits,      \* the object database; a commit's id is its position
  refs,         \* target of every local branch, and of a detached HEAD
  head,         \* the reference HEAD stands for
  origin,       \* the remote-tracking branches origin/<b>
  index,        \* the staging area
  workdir,      \* the files of the work tree
  mergeHeads,   \* the content of MERGE_HEAD
  stash         \* the trees of the stash list, newest first

vars == <<commits, refs, head, origin, index, workdir, mergeHeads, stash>>
worktree == <<index, workdir>>
graph == <<commits, refs, head, origin>>

-----------------------------------------------------------------------------
(***************************************************************************)
(* Data.  A commit records the ids it can reach besides itself, so that an *)
(* ancestor walk is a set lookup.  0 stands for a reference that is absent *)
(* or, when it is the one HEAD stands for, unborn.                         *)
(***************************************************************************)
RefNames == Branches \cup {Detached}
NoCommit == 0
CommitIds == 1..Len(commits)
Files == Contents \cup {Absent}
Trees == [Paths -> Files]
EmptyTree == [p \in Paths |-> Absent]
IndexStates == [Paths -> Files \cup {Unmerged}]
CommitRecords(n) ==
  [parents : Seq(1..n), tree : Trees, below : SUBSET (1..n)]

History(c) == {c} \cup commits[c].below
HistoryOf(S) == UNION {History(c) : c \in S}
NewCommit(ps, t) ==
  [parents |-> ps, tree |-> t, below |-> HistoryOf(Range(ps))]

Tip == refs[head]
Born == Tip # NoCommit
HeadTree == IF Born THEN commits[Tip].tree ELSE EmptyTree
HasConflicts(idx) == \E p \in Paths : idx[p] = Unmerged
Overlay(f, g, S) == [p \in Paths |-> IF p \in S THEN g[p] ELSE f[p]]

-----------------------------------------------------------------------------
(***************************************************************************)
(* git_status_list_new with the default options: changes between HEAD, the *)
(* index and the tracked files of the work tree; untracked files are not   *)
(* listed.                                                                 *)
(***************************************************************************)
HasStatus(idx, wd) ==
  \/ idx # HeadTree
  \/ \E p \in Paths : idx[p] # Absent /\ wd[p] # idx[p]

(***************************************************************************)
(* git_checkout_tree with GIT_CHECKOUT_SAFE: HEAD's tree is the baseline,  *)
(* only paths that differ from it are written, and nothing is written when *)
(* the index has conflicts or one of these paths was edited.               *)
(***************************************************************************)
Updated(t) == {p \in Paths : t[p] # HeadTree[p]}
SafeCheckoutPossible(t) ==
  /\ ~HasConflicts(index)
  /\ \A p \in Updated(t) : workdir[p] \in {HeadTree[p], t[p]}
SafeCheckoutWorkdir(t) == Overlay(workdir, t, Updated(t))
SafeCheckoutIndex(t) == Overlay(index, t, Updated(t))

(***************************************************************************)
(* git_merge_analysis and the three-way merge of trees.                    *)
(***************************************************************************)
CanFastForward(c) == ~Born \/ (c # Tip /\ Tip \in History(c))
MergeBases(c) ==
  LET common == History(Tip) \cap History(c)
      best == {a \in common : \A b \in common : a \notin commits[b].below}
  IN  IF common = {} THEN {EmptyTree} ELSE {commits[a].tree : a \in best}
ThreeWay(base, ours, theirs) ==
  [p \in Paths |-> IF theirs[p] \in {base[p], ours[p]} THEN ours[p]
                   ELSE IF ours[p] = base[p] THEN theirs[p]
                   ELSE Unmerged]

(***************************************************************************)
(* Writing a merge result (git_merge, git_cherrypick): refused, with       *)
(* nothing written, when the index is unmerged or a path the result        *)
(* changes has uncommitted changes.                                        *)
(***************************************************************************)
ResultFits(m) ==
  /\ ~HasConflicts(index)
  /\ \A p \in Updated(m) : index[p] \in {HeadTree[p], m[p]}
                           /\ workdir[p] = index[p]
ResultIndex(m) == Overlay(index, m, Updated(m))
ResultWorkdir(m) ==
  [p \in Paths |-> IF p \notin Updated(m) THEN workdir[p]
                   ELSE IF m[p] = Unmerged THEN Markers
                   ELSE m[p]]

(***************************************************************************)
(* git_commit_create on "HEAD": the reference HEAD stands for moves to the *)
(* new commit.  The object database never loses anything.                  *)
(***************************************************************************)
StoreCommit(r) ==
  /\ Len(commits) < MaxCommits
  /\ commits' = Append(commits, r)
CommitOnHead(r) ==
  /\ StoreCommit(r)
  /\ refs' = [refs EXCEPT ![head] = Len(commits) + 1]

(***************************************************************************)
(* A freshly initialised repository (sgit init).                           *)
(***************************************************************************)
Init ==
  /\ commits = <<>>
  /\ refs = [r \in RefNames |-> NoCommit]
  /\ head = Main
  /\ origin = [b \in Branches |-> NoCommit]
  /\ index = EmptyTree
  /\ workdir = EmptyTree
  /\ mergeHeads = <<>>
  /\ stash = <<>>
=============================================================================
