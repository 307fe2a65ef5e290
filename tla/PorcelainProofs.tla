--------------------------- MODULE PorcelainProofs ---------------------------
(***************************************************************************)
(* Theorems about the commands on a repository, for every value of the     *)
(* constants: one command after another, as invocations that share the     *)
(* repository, and as the rounds of a rebase.  All of them change the      *)
(* repository by the same steps, so they share the inductive invariant     *)
(* TypeOK /\ RepositorySound: the types of the commits a command creates   *)
(* depend on the references being sound.                                   *)
(***************************************************************************)
EXTENDS InvocationProps, RebaseProps, SequenceTheorems, WellFoundedInduction, TLAPS

Inv == TypeOK /\ RepositorySound

USE BranchAssumption, ContentAssumption, BoundAssumption, RemoteAssumption

-----------------------------------------------------------------------------
(***************************************************************************)
(* Facts about the data.                                                   *)
(***************************************************************************)
LEMMA EmptyTreeType == EmptyTree \in Trees
  BY DEF EmptyTree, Trees, Files

LEMMA CommitFields ==
  ASSUME Inv, NEW c \in CommitIds
  PROVE  /\ c \in 1..MaxCommits
         /\ commits[c] \in CommitRecords(MaxCommits)
         /\ commits[c].tree \in Trees
         /\ commits[c].parents \in Seq(1..MaxCommits)
         /\ commits[c].below \subseteq CommitIds
         /\ Range(commits[c].parents) \subseteq CommitIds
<1>1. commits \in Seq(CommitRecords(MaxCommits)) /\ Len(commits) \in Nat
      /\ Len(commits) <= MaxCommits
  BY LenProperties DEF Inv, TypeOK
<1>2. c \in 1..Len(commits) /\ c \in 1..MaxCommits
  BY <1>1 DEF CommitIds
<1>3. commits[c] \in CommitRecords(MaxCommits)
  BY <1>1, <1>2, ElementOfSeq
<1>4. 1..(c - 1) \subseteq CommitIds
  BY <1>1, <1>2 DEF CommitIds
<1> QED
  BY <1>2, <1>3, <1>4 DEF CommitRecords, Inv, RepositorySound, GraphSound

LEMMA TipFacts ==
  ASSUME Inv, Born
  PROVE  Tip \in CommitIds
  BY DEF Inv, TypeOK, RepositorySound, NothingDangles, Born, Tip

LEMMA HeadTreeType ==
  ASSUME Inv
  PROVE  HeadTree \in Trees
  BY TipFacts, CommitFields, EmptyTreeType DEF HeadTree

(***************************************************************************)
(* A new commit on top of existing ones keeps the graph sound.             *)
(***************************************************************************)
LEMMA NewCommitFacts ==
  ASSUME Inv, NEW ps \in Seq(CommitIds), NEW t \in Trees
  PROVE  /\ NewCommit(ps, t) \in CommitRecords(MaxCommits)
         /\ Range(ps) \subseteq CommitIds
         /\ NewCommit(ps, t).below \subseteq CommitIds
         /\ NewCommit(ps, t).parents = ps
<1>1. Range(ps) \subseteq CommitIds
  BY LenProperties, ElementOfSeq DEF Range
<1>2. CommitIds \subseteq 1..MaxCommits
  BY CommitFields
<1>3. HistoryOf(Range(ps)) \subseteq CommitIds
  BY <1>1, CommitFields DEF HistoryOf, History
<1>4. ps \in Seq(1..MaxCommits)
  BY <1>2, SeqMonotonic
<1> QED
  BY <1>1, <1>2, <1>3, <1>4 DEF NewCommit, CommitRecords
LEMMA StoreSound ==
  ASSUME Inv, NEW ps \in Seq(CommitIds), NEW t \in Trees,
         StoreCommit(NewCommit(ps, t))
  PROVE  /\ Len(commits') = Len(commits) + 1
         /\ Len(commits) + 1 \in 1..MaxCommits
         /\ Len(commits') <= MaxCommits
         /\ commits' \in Seq(CommitRecords(MaxCommits))
         /\ CommitIds' = CommitIds \cup {Len(commits) + 1}
         /\ Len(commits) + 1 \notin CommitIds
         /\ \A c \in CommitIds : commits'[c] = commits[c]
         /\ commits'[Len(commits) + 1] = NewCommit(ps, t)
         /\ GraphSound'
<1> DEFINE n == Len(commits) + 1
           r == NewCommit(ps, t)
           NewHistoryOf(S) == UNION {{a} \cup commits'[a].below : a \in S}
<1>1. /\ r \in CommitRecords(MaxCommits)
      /\ Range(ps) \subseteq CommitIds
      /\ r.below \subseteq CommitIds
      /\ r.parents = ps
  BY NewCommitFacts
<1>2. commits \in Seq(CommitRecords(MaxCommits)) /\ Len(commits) \in Nat
  BY LenProperties DEF Inv, TypeOK
<1>3. /\ commits' = Append(commits, r)
      /\ Len(commits) < MaxCommits
  BY DEF StoreCommit
<1>4. /\ commits' \in Seq(CommitRecords(MaxCommits))
      /\ Len(commits') = n
      /\ commits'[n] = r
      /\ \A c \in 1..Len(commits) : commits'[c] = commits[c]
  BY <1>1, <1>2, <1>3, AppendProperties
<1>5. /\ n \in 1..MaxCommits
      /\ Len(commits') <= MaxCommits
      /\ CommitIds' = CommitIds \cup {n}
      /\ CommitIds = 1..Len(commits)
      /\ n \notin CommitIds
  BY <1>2, <1>3, <1>4 DEF CommitIds
<1>6. ASSUME NEW S \in SUBSET CommitIds
      PROVE  NewHistoryOf(S) = HistoryOf(S)
  BY <1>4, <1>5 DEF HistoryOf, History
<1>7. ASSUME NEW c \in CommitIds'
      PROVE  /\ commits'[c].below = NewHistoryOf(Range(commits'[c].parents))
             /\ Range(commits'[c].parents) \subseteq 1..(c - 1)
             /\ commits'[c].below \subseteq 1..(c - 1)
             /\ \A a \in commits'[c].below :
                  commits'[a].below \subseteq commits'[c].below
  <2>1. CASE c \in CommitIds
    <3>1. commits'[c] = commits[c]
      BY <1>4, <1>5, <2>1
    <3>2. /\ commits[c].below \subseteq CommitIds
          /\ Range(commits[c].parents) \in SUBSET CommitIds
      BY <2>1, CommitFields
    <3>3. NewHistoryOf(Range(commits'[c].parents)) = HistoryOf(Range(commits[c].parents))
      BY <3>1, <3>2, <1>6
    <3>4. \A a \in commits[c].below : commits'[a] = commits[a]
      BY <3>2, <1>4, <1>5
    <3>5. /\ commits[c].below = HistoryOf(Range(commits[c].parents))
          /\ Range(commits[c].parents) \subseteq 1..(c - 1)
          /\ commits[c].below \subseteq 1..(c - 1)
          /\ \A a \in commits[c].below : commits[a].below \subseteq commits[c].below
      BY <2>1 DEF Inv, RepositorySound, GraphSound
    <3> QED
      BY <3>1, <3>3, <3>4, <3>5
  <2>2. CASE c = n
    <3>1. /\ commits'[c] = r
          /\ CommitIds = 1..(c - 1)
      BY <1>2, <1>4, <1>5, <2>2
    <3>2. r.below = HistoryOf(Range(ps))
      BY DEF NewCommit
    <3>3. NewHistoryOf(Range(commits'[c].parents)) = HistoryOf(Range(ps))
      BY <3>1, <1>1, <1>6
    <3>4. \A a \in r.below : commits[a].below \subseteq r.below
      <4> SUFFICES ASSUME NEW a \in r.below
                   PROVE  commits[a].below \subseteq r.below
        OBVIOUS
      <4>1. PICK p \in Range(ps) : a \in History(p)
        BY <3>2 DEF HistoryOf
      <4>2. History(p) \subseteq r.below
        BY <3>2, <4>1 DEF HistoryOf
      <4>3. commits[a].below \subseteq History(p)
        BY <4>1, <1>1 DEF History, Inv, RepositorySound, GraphSound
      <4> QED
        BY <4>2, <4>3
    <3>5. \A a \in r.below : commits'[a] = commits[a]
      BY <1>1, <1>4, <1>5
    <3> QED
      BY <1>1, <3>1, <3>2, <3>3, <3>4, <3>5
  <2> QED
    BY <1>5, <2>1, <2>2
<1>8. GraphSound'
  BY <1>7 DEF GraphSound, HistoryOf, History
<1> QED
  BY <1>4, <1>5, <1>8

(***************************************************************************)
(* A step that creates no commit keeps the graph.                          *)
(***************************************************************************)
LEMMA GraphKept ==
  ASSUME Inv, UNCHANGED commits
  PROVE  /\ GraphSound'
         /\ CommitIds' = CommitIds
         /\ Len(commits') <= MaxCommits
         /\ commits' \in Seq(CommitRecords(MaxCommits))
<1>1. CommitIds' = CommitIds
  BY DEF CommitIds
<1>2. GraphSound
  BY DEF Inv, RepositorySound
<1>3. GraphSound'
  BY <1>1, <1>2 DEF GraphSound, HistoryOf, History
<1>4. Len(commits) <= MaxCommits /\ commits \in Seq(CommitRecords(MaxCommits))
  BY DEF Inv, TypeOK
<1> QED
  BY <1>1, <1>3, <1>4
(***************************************************************************)
(* What a step has to establish.                                           *)
(***************************************************************************)
LEMMA StateSound ==
  ASSUME Inv,
         GraphSound',
         CommitIds \subseteq CommitIds',
         Len(commits') <= MaxCommits,
         commits' \in Seq(CommitRecords(MaxCommits)),
         refs' \in [RefNames -> CommitIds' \cup {NoCommit}],
         head' \in RefNames,
         head' = Detached <=> refs'[Detached] # NoCommit,
         origin' \in [Branches -> CommitIds' \cup {NoCommit}],
         index' \in IndexStates,
         workdir' \in Trees,
         mergeHeads' \in Seq(CommitIds'),
         stash' \in Seq(Trees),
         Len(stash') <= MaxStash
  PROVE  Inv'
<1>1. CommitIds' \subseteq 1..MaxCommits
  <2>1. Len(commits') \in Nat
    BY LenProperties
  <2> QED
    BY <2>1 DEF CommitIds
<1>2. CommitIds' \cup {NoCommit} \subseteq 0..MaxCommits
  BY <1>1 DEF NoCommit
<1>3. mergeHeads' \in Seq(1..MaxCommits)
  BY <1>1, SeqMonotonic
<1>4. /\ refs' \in [RefNames -> 0..MaxCommits]
      /\ origin' \in [Branches -> 0..MaxCommits]
  BY <1>2
<1>5. TypeOK'
  BY <1>3, <1>4 DEF TypeOK
<1>6. NothingDangles'
  BY DEF NothingDangles
<1> QED
  BY <1>5, <1>6 DEF Inv, RepositorySound

\* The parts of the invariant, as the step lemmas use them.
LEMMA Parts ==
  ASSUME Inv
  PROVE  /\ refs \in [RefNames -> CommitIds \cup {NoCommit}]
         /\ head \in RefNames
         /\ head = Detached <=> refs[Detached] # NoCommit
         /\ origin \in [Branches -> CommitIds \cup {NoCommit}]
         /\ index \in IndexStates
         /\ workdir \in Trees
         /\ mergeHeads \in Seq(CommitIds)
         /\ stash \in Seq(Trees)
         /\ Len(stash) <= MaxStash
  BY DEF Inv, TypeOK, RepositorySound, NothingDangles

(***************************************************************************)
(* Steps that leave commits and references alone.                          *)
(***************************************************************************)
LEMMA WorktreeStep ==
  ASSUME Inv, UNCHANGED graph,
         index' \in IndexStates,
         workdir' \in Trees,
         mergeHeads' \in {mergeHeads, <<>>},
         stash' \in Seq(Trees),
         Len(stash') <= MaxStash
  PROVE  Inv'
<1>1. /\ UNCHANGED commits
      /\ UNCHANGED <<refs, head, origin>>
  BY DEF graph
<1>2. mergeHeads' \in Seq(CommitIds)
  BY Parts, EmptySeq
<1> QED
  BY <1>1, <1>2, GraphKept, Parts, StateSound

(***************************************************************************)
(* Steps that move references among the commits there are.                 *)
(***************************************************************************)
LEMMA RefStep ==
  ASSUME Inv, UNCHANGED <<commits, origin, stash>>,
         refs' \in [RefNames -> CommitIds \cup {NoCommit}],
         head' \in RefNames,
         head' = Detached <=> refs'[Detached] # NoCommit,
         index' \in IndexStates,
         workdir' \in Trees,
         mergeHeads' \in {mergeHeads, <<>>}
  PROVE  Inv'
<1>1. UNCHANGED commits /\ UNCHANGED <<origin, stash>>
  OBVIOUS
<1>2. mergeHeads' \in Seq(CommitIds)
  BY Parts, EmptySeq
<1> QED
  BY <1>1, <1>2, GraphKept, Parts, StateSound

(***************************************************************************)
(* Steps that commit on HEAD.                                              *)
(***************************************************************************)
LEMMA CommitOnHeadStep ==
  ASSUME Inv, NEW ps \in Seq(CommitIds), NEW t \in Trees,
         CommitOnHead(NewCommit(ps, t)),
         UNCHANGED <<head, origin, stash>>,
         index' \in IndexStates,
         workdir' \in Trees,
         mergeHeads' \in Seq(CommitIds)
  PROVE  Inv'
<1>1. StoreCommit(NewCommit(ps, t))
  BY DEF CommitOnHead
<1>2. refs' = [refs EXCEPT ![head] = Len(commits) + 1]
  BY DEF CommitOnHead
<1>3. /\ CommitIds' = CommitIds \cup {Len(commits) + 1}
      /\ Len(commits) + 1 \in 1..MaxCommits
      /\ GraphSound'
      /\ Len(commits') <= MaxCommits
      /\ commits' \in Seq(CommitRecords(MaxCommits))
  BY <1>1, StoreSound
<1>4. /\ refs' \in [RefNames -> CommitIds' \cup {NoCommit}]
      /\ origin' \in [Branches -> CommitIds' \cup {NoCommit}]
      /\ head' \in RefNames
      /\ stash' \in Seq(Trees) /\ Len(stash') <= MaxStash
  BY <1>2, <1>3, Parts
<1>5. head' = Detached <=> refs'[Detached] # NoCommit
  BY <1>2, <1>3, Parts DEF NoCommit, RefNames
<1>6. mergeHeads' \in Seq(CommitIds')
  BY <1>3, SeqMonotonic
<1> QED
  BY <1>3, <1>4, <1>5, <1>6, StateSound
-----------------------------------------------------------------------------
(***************************************************************************)
(* Types of what the libgit2 calls compute.                                *)
(***************************************************************************)
LEMMA TreesAreIndexes == Trees \subseteq IndexStates
  BY DEF Trees, IndexStates

LEMMA ResolvedIndexIsTree ==
  ASSUME NEW idx \in IndexStates, ~HasConflicts(idx)
  PROVE  idx \in Trees
  BY DEF HasConflicts, IndexStates, Trees

LEMMA OverlayTypes ==
  ASSUME NEW S
  PROVE  /\ \A f, g \in Trees : Overlay(f, g, S) \in Trees
         /\ \A f, g \in IndexStates : Overlay(f, g, S) \in IndexStates
  BY DEF Overlay, Trees, IndexStates

LEMMA ThreeWayType ==
  ASSUME NEW base \in Trees, NEW ours \in Trees, NEW theirs \in Trees
  PROVE  ThreeWay(base, ours, theirs) \in IndexStates
  BY DEF ThreeWay, Trees, IndexStates, Files

LEMMA ResultTypes ==
  ASSUME Inv, NEW m \in IndexStates
  PROVE  /\ ResultIndex(m) \in IndexStates
         /\ ResultWorkdir(m) \in Trees
<1>1. ResultIndex(m) \in IndexStates
  BY Parts, OverlayTypes DEF ResultIndex
<1>2. \A p \in Paths : m[p] # Unmerged => m[p] \in Files
  BY DEF IndexStates
<1>3. workdir \in Trees
  BY Parts
<1>4. Markers \in Files
  BY DEF Files
<1> QED
  BY <1>1, <1>2, <1>3, <1>4 DEF ResultWorkdir, Trees

LEMMA MergeBasesType ==
  ASSUME Inv, Born, NEW c \in CommitIds, NEW base \in MergeBases(c)
  PROVE  base \in Trees
<1>1. History(Tip) \subseteq CommitIds
  BY TipFacts, CommitFields DEF History
<1>2. PICK S \in SUBSET CommitIds :
         base = EmptyTree \/ base \in {commits[a].tree : a \in S}
  <2> DEFINE common == History(Tip) \cap History(c)
             best == {a \in common : \A b \in common : a \notin commits[b].below}
  <2>1. best \in SUBSET CommitIds
    BY <1>1
  <2>2. base = EmptyTree \/ base \in {commits[a].tree : a \in best}
    BY DEF MergeBases
  <2> QED
    BY <2>1, <2>2
<1> QED
  BY <1>2, CommitFields, EmptyTreeType

LEMMA MergeResultType ==
  ASSUME Inv, Born, NEW c \in CommitIds, NEW base \in MergeBases(c)
  PROVE  ThreeWay(base, HeadTree, commits[c].tree) \in IndexStates
  BY MergeBasesType, HeadTreeType, CommitFields, ThreeWayType

LEMMA Sources ==
  ASSUME Inv
  PROVE  /\ MergeSources \subseteq CommitIds
         /\ DetachTargets \subseteq CommitIds
<1>1. /\ \A b \in Branches : {refs[b], origin[b]} \subseteq CommitIds \cup {NoCommit}
      /\ Tip \in CommitIds \cup {NoCommit}
  BY Parts DEF RefNames, Tip
<1> QED
  BY <1>1 DEF MergeSources, DetachTargets

(***************************************************************************)
(* commit builds a record of existing parents and a resolved tree.         *)
(***************************************************************************)
LEMMA ParentsType ==
  ASSUME Inv, NEW mh \in Seq(CommitIds)
  PROVE  /\ Parents(mh) \in Seq(CommitIds)
         /\ Born => Len(Parents(mh)) = Len(mh) + 1
         /\ ~Born => Len(Parents(mh)) = Len(mh)
<1>1. CASE Born
  <2>1. <<Tip>> \in Seq(CommitIds) /\ Len(<<Tip>>) = 1
    BY <1>1, TipFacts
  <2>2. Parents(mh) = <<Tip>> \o mh
    BY <1>1 DEF Parents
  <2> QED
    BY <1>1, <2>1, <2>2, ConcatProperties, LenProperties
<1>2. CASE ~Born
  <2>1. Parents(mh) = <<>> \o mh
    BY <1>2 DEF Parents
  <2> QED
    BY <1>2, <2>1, ConcatProperties, EmptySeq, LenProperties
<1> QED
  BY <1>1, <1>2

LEMMA CommitRecordShape ==
  ASSUME Inv, NEW idx \in IndexStates, NEW wd, NEW mh \in Seq(CommitIds),
         NEW allowEmpty \in BOOLEAN, NEW amend \in BOOLEAN,
         CommitAllowed(idx, wd, mh, allowEmpty, amend)
  PROVE  /\ idx \in Trees
         /\ \E ps \in Seq(CommitIds) :
              CommitRecord(idx, mh, amend) = NewCommit(ps, idx)
<1>1. idx \in Trees
  BY ResolvedIndexIsTree DEF CommitAllowed
<1>2. CASE amend
  <2>1. Len(Parents(mh)) = 1 /\ (mh # <<>> => Born)
    BY <1>2 DEF CommitAllowed
  <2>2. Born
    BY <2>1, ParentsType, EmptySeq
  <2>3. commits[Tip].parents \in Seq(CommitIds)
    BY <2>2, TipFacts, CommitFields, SeqOfRange, SeqMonotonic
  <2> QED
    BY <1>1, <1>2, <2>3 DEF CommitRecord
<1>3. CASE ~amend
  BY <1>1, <1>3, ParentsType DEF CommitRecord
<1> QED
  BY <1>2, <1>3
-----------------------------------------------------------------------------
(***************************************************************************)
(* Every command keeps the invariant.                                      *)
(***************************************************************************)
LEMMA UserSound ==
  ASSUME Inv, UserStep
  PROVE  Inv'
<1>1. ASSUME NEW p \in Paths, NEW f \in Files, Edit(p, f)
      PROVE  Inv'
  <2>1. workdir' \in Trees
    BY <1>1, Parts DEF Edit, Trees
  <2> QED
    BY <1>1, <2>1, Parts, WorktreeStep DEF Edit
<1>2. ASSUME NEW b \in Remotes, NEW ps \in ParentChoices, NEW t \in Trees,
             Fetch(b, ps, t)
      PROVE  Inv'
  <2>1. ps \in Seq(CommitIds)
    <3>1. <<>> \in Seq(CommitIds) /\ \A c \in CommitIds : <<c>> \in Seq(CommitIds)
      BY EmptySeq
    <3> QED
      BY <3>1 DEF ParentChoices
  <2>2. StoreCommit(NewCommit(ps, t))
    BY <1>2 DEF Fetch
  <2>3. /\ CommitIds' = CommitIds \cup {Len(commits) + 1}
        /\ GraphSound'
        /\ Len(commits') <= MaxCommits
        /\ commits' \in Seq(CommitRecords(MaxCommits))
    BY <2>1, <2>2, StoreSound
  <2>4. /\ origin' \in [Branches -> CommitIds' \cup {NoCommit}]
        /\ refs' \in [RefNames -> CommitIds' \cup {NoCommit}]
        /\ head' = Detached <=> refs'[Detached] # NoCommit
        /\ head' \in RefNames
    BY <1>2, <2>3, Parts DEF Fetch
  <2>5. /\ index' \in IndexStates /\ workdir' \in Trees
        /\ stash' \in Seq(Trees) /\ Len(stash') <= MaxStash
        /\ mergeHeads' \in Seq(CommitIds)
    BY <1>2, Parts DEF Fetch, worktree
  <2>6. mergeHeads' \in Seq(CommitIds')
    BY <2>3, <2>5, SeqMonotonic
  <2> QED
    BY <2>3, <2>4, <2>5, <2>6, StateSound
<1> QED
  BY <1>1, <1>2 DEF UserStep

LEMMA StageSound ==
  ASSUME Inv, StageStep
  PROVE  Inv'
<1>1. ASSUME NEW S \in PathSelections, Add(S)
      PROVE  Inv'
  <2>1. index' \in IndexStates
    BY <1>1, Parts, OverlayTypes, TreesAreIndexes DEF Add
  <2> QED
    BY <1>1, <2>1, Parts, WorktreeStep DEF Add
<1>2. ASSUME NEW p \in Paths, Rm(p)
      PROVE  Inv'
  <2>1. index' \in IndexStates
    BY <1>2, Parts DEF Rm, IndexStates, Files
  <2> QED
    BY <1>2, <2>1, Parts, WorktreeStep DEF Rm
<1> QED
  BY <1>1, <1>2 DEF StageStep

LEMMA CommitSound ==
  ASSUME Inv, CommitStep
  PROVE  Inv'
<1>1. PICK allowEmpty \in BOOLEAN, amend \in BOOLEAN : Commit(allowEmpty, amend)
  BY DEF CommitStep
<1>2. CommitAllowed(index, workdir, mergeHeads, allowEmpty, amend)
  BY <1>1 DEF Commit
<1>3. /\ index \in Trees
      /\ \E ps \in Seq(CommitIds) :
           CommitRecord(index, mergeHeads, amend) = NewCommit(ps, index)
  BY <1>2, CommitRecordShape, Parts
<1>4. PICK ps \in Seq(CommitIds) :
        CommitRecord(index, mergeHeads, amend) = NewCommit(ps, index)
  BY <1>3
<1>5. CommitOnHead(NewCommit(ps, index))
  BY <1>1, <1>4 DEF Commit
<1>6. UNCHANGED <<head, origin, stash>> /\ UNCHANGED <<index, workdir, mergeHeads>>
  BY <1>1 DEF Commit, worktree
<1> QED
  BY <1>3, <1>5, <1>6, CommitOnHeadStep, Parts

LEMMA FastForwardSound ==
  ASSUME Inv, NEW c \in CommitIds, FastForward(c)
  PROVE  Inv'
<1>1. commits[c].tree \in Trees
  BY CommitFields
<1>2. index' \in IndexStates /\ workdir' \in Trees
  BY <1>1, Parts, OverlayTypes, TreesAreIndexes
  DEF FastForward, SafeCheckoutIndex, SafeCheckoutWorkdir
<1>3. refs' \in [RefNames -> CommitIds \cup {NoCommit}]
  BY Parts DEF FastForward
<1>4. head' = Detached <=> refs'[Detached] # NoCommit
  BY Parts, CommitFields DEF FastForward, NoCommit, RefNames
<1> QED
  BY <1>2, <1>3, <1>4, Parts, RefStep DEF FastForward

LEMMA MergeWrittenSound ==
  ASSUME Inv, NEW c \in CommitIds, NEW m \in IndexStates,
         NEW noCommit \in BOOLEAN, MergeWritten(c, m, noCommit)
  PROVE  Inv'
<1> DEFINE idx == ResultIndex(m)
           wd == ResultWorkdir(m)
<1>1. /\ idx \in IndexStates
      /\ wd \in Trees
  BY ResultTypes
<1>2. /\ index' = idx /\ workdir' = wd
      /\ mergeHeads' = <<c>>
      /\ UNCHANGED <<head, origin, stash>>
  BY DEF MergeWritten
<1>3. <<c>> \in Seq(CommitIds)
  OBVIOUS
<1>4. CASE noCommit \/ ~CommitAllowed(idx, wd, <<c>>, FALSE, FALSE)
  <2>1. UNCHANGED <<commits, refs>>
    BY <1>4 DEF MergeWritten
  <2>2. UNCHANGED commits
    BY <2>1
  <2>3. /\ GraphSound' /\ CommitIds' = CommitIds
        /\ Len(commits') <= MaxCommits
        /\ commits' \in Seq(CommitRecords(MaxCommits))
    BY <2>2, GraphKept
  <2> QED
    BY <1>1, <1>2, <1>3, <2>1, <2>3, Parts, StateSound
<1>5. CASE ~(noCommit \/ ~CommitAllowed(idx, wd, <<c>>, FALSE, FALSE))
  <2>1. CommitOnHead(CommitRecord(idx, <<c>>, FALSE))
    BY <1>5 DEF MergeWritten
  <2>2. /\ idx \in Trees
        /\ \E ps \in Seq(CommitIds) :
             CommitRecord(idx, <<c>>, FALSE) = NewCommit(ps, idx)
    BY <1>1, <1>3, <1>5, CommitRecordShape
  <2>3. PICK ps \in Seq(CommitIds) :
          CommitRecord(idx, <<c>>, FALSE) = NewCommit(ps, idx)
    BY <2>2
  <2>4. CommitOnHead(NewCommit(ps, idx))
    BY <2>1, <2>3
  <2> QED
    BY <1>1, <1>2, <1>3, <2>2, <2>4, CommitOnHeadStep
<1> QED
  BY <1>4, <1>5
LEMMA MergeSound ==
  ASSUME Inv, MergeStep
  PROVE  Inv'
<1>1. PICK c \in MergeSources, ffOnly \in BOOLEAN, noFF \in BOOLEAN,
           noCommit \in BOOLEAN :
        Merge(c, ffOnly, noFF, noCommit)
  BY DEF MergeStep
<1>2. c \in CommitIds
  BY Sources
<1>3. ASSUME MergeRefused
      PROVE  Inv'
  BY <1>3, Parts, WorktreeStep DEF MergeRefused, worktree
<1>4. ASSUME ThreeWayMerge(c, noCommit)
      PROVE  Inv'
  <2>1. ASSUME Born, NEW base \in MergeBases(c),
               LET m == ThreeWay(base, HeadTree, commits[c].tree)
               IN  IF ResultFits(m) THEN MergeWritten(c, m, noCommit)
                   ELSE MergeRefused
        PROVE  Inv'
    <3> DEFINE m == ThreeWay(base, HeadTree, commits[c].tree)
    <3>1. m \in IndexStates
      BY <1>2, <2>1, MergeResultType
    <3>2. MergeWritten(c, m, noCommit) \/ MergeRefused
      BY <2>1
    <3> QED
      BY <1>2, <1>3, <3>1, <3>2, MergeWrittenSound
  <2> QED
    BY <1>3, <1>4, <2>1 DEF ThreeWayMerge
<1> QED
  BY <1>1, <1>2, <1>4, FastForwardSound DEF Merge

LEMMA PatchTypes ==
  ASSUME Inv, NEW c \in CommitIds
  PROVE  /\ ParentTree(c) \in Trees
         /\ ThreeWay(ParentTree(c), HeadTree, commits[c].tree) \in IndexStates
<1>1. CASE commits[c].parents = <<>>
  BY <1>1, EmptyTreeType, HeadTreeType, CommitFields, ThreeWayType
  DEF ParentTree
<1>2. CASE commits[c].parents # <<>>
  <2>1. commits[c].parents \in Seq(1..MaxCommits)
        /\ Range(commits[c].parents) \subseteq CommitIds
    BY CommitFields
  <2>2. commits[c].parents \in Seq(CommitIds)
    BY <2>1, SeqOfRange, SeqMonotonic
  <2>3. commits[c].parents[1] \in CommitIds
    BY <1>2, <2>2, EmptySeq, ElementOfSeq
  <2> QED
    BY <1>2, <2>3, HeadTreeType, CommitFields, ThreeWayType DEF ParentTree
<1> QED
  BY <1>1, <1>2

LEMMA PickSound ==
  ASSUME Inv, PickStep
  PROVE  Inv'
<1>1. PICK c \in CommitIds : CherryPick(c)
  BY DEF PickStep
<1> DEFINE m == ThreeWay(ParentTree(c), HeadTree, commits[c].tree)
<1>2. m \in IndexStates
  BY PatchTypes
<1>3. index' = ResultIndex(m) /\ workdir' = ResultWorkdir(m)
  BY <1>1 DEF CherryPick
<1> QED
  BY <1>1, <1>2, <1>3, ResultTypes, Parts, WorktreeStep DEF CherryPick

LEMMA CreateBranchSound ==
  ASSUME Inv, NEW b \in Branches, CreateBranch(b)
  PROVE  Inv'
<1>1. refs' \in [RefNames -> CommitIds \cup {NoCommit}]
  BY TipFacts, Parts DEF CreateBranch
<1>2. head' = Detached <=> refs'[Detached] # NoCommit
  BY Parts DEF CreateBranch
<1> QED
  BY <1>1, <1>2, Parts, RefStep DEF CreateBranch, worktree

LEMMA SwitchSound ==
  ASSUME Inv, NEW b \in Branches, NEW c \in CommitIds, SwitchTo(b, c)
  PROVE  Inv'
<1>1. refs' \in [RefNames -> CommitIds \cup {NoCommit}]
      /\ refs'[Detached] = NoCommit
  BY Parts DEF SwitchTo, RefNames
<1>2. head' \in RefNames /\ head' # Detached
  BY DEF SwitchTo, RefNames
<1>3. index' \in IndexStates /\ workdir' \in Trees
  BY CommitFields, TreesAreIndexes DEF SwitchTo, ForceCheckout
<1> QED
  BY <1>1, <1>2, <1>3, RefStep DEF SwitchTo

LEMMA CheckoutSound ==
  ASSUME Inv, CheckoutStep
  PROVE  Inv'
<1>1. ASSUME NEW b \in Branches, CheckoutBranch(b) \/ CheckoutTracking(b)
      PROVE  Inv'
  <2>1. refs[b] \in CommitIds \cup {NoCommit} /\ origin[b] \in CommitIds \cup {NoCommit}
    BY Parts DEF RefNames
  <2> QED
    BY <1>1, <2>1, SwitchSound DEF CheckoutBranch, CheckoutTracking
<1>2. ASSUME NEW b \in Branches, CheckoutUnborn(b)
      PROVE  Inv'
  <2>1. refs' \in [RefNames -> CommitIds \cup {NoCommit}]
        /\ refs'[Detached] = NoCommit
    BY <1>2, Parts DEF CheckoutUnborn, RefNames
  <2>2. head' \in RefNames /\ head' # Detached
    BY <1>2 DEF CheckoutUnborn, RefNames
  <2> QED
    BY <1>2, <2>1, <2>2, Parts, RefStep DEF CheckoutUnborn, worktree
<1>3. ASSUME NEW c \in DetachTargets, Detach(c)
      PROVE  Inv'
  <2>1. c \in CommitIds
    BY Sources
  <2>2. refs' \in [RefNames -> CommitIds \cup {NoCommit}]
        /\ refs'[Detached] = c /\ c # NoCommit
    BY <1>3, <2>1, Parts, CommitFields DEF Detach, RefNames, NoCommit
  <2>3. head' = Detached /\ head' \in RefNames
    BY <1>3 DEF Detach, RefNames
  <2>4. index' \in IndexStates /\ workdir' \in Trees
    BY <1>3, <2>1, CommitFields, TreesAreIndexes DEF Detach, ForceCheckout
  <2> QED
    BY <1>3, <2>2, <2>3, <2>4, RefStep DEF Detach
<1>4. ASSUME NEW p \in Paths, CheckoutPath(p)
      PROVE  Inv'
  <2>1. HeadTree \in Trees /\ HeadTree \in IndexStates
    BY HeadTreeType, TreesAreIndexes
  <2>2. index' \in IndexStates /\ workdir' \in Trees
    BY <1>4, <2>1, Parts DEF CheckoutPath, IndexStates, Trees
  <2> QED
    BY <1>4, <2>2, Parts, WorktreeStep DEF CheckoutPath
<1> QED
  BY <1>1, <1>2, <1>3, <1>4 DEF CheckoutStep
LEMMA ResetSound ==
  ASSUME Inv, ResetStep
  PROVE  Inv'
<1>1. ASSUME NEW c \in CommitIds, MoveTip(c)
      PROVE  /\ refs' \in [RefNames -> CommitIds \cup {NoCommit}]
             /\ head = Detached <=> refs'[Detached] # NoCommit
  BY <1>1, Parts, CommitFields DEF MoveTip, NoCommit, RefNames
<1>2. \A c \in CommitIds : commits[c].tree \in Trees /\ commits[c].tree \in IndexStates
  BY CommitFields, TreesAreIndexes
<1>3. ASSUME NEW c \in CommitIds, ResetSoft(c)
      PROVE  Inv'
  <2>1. MoveTip(c)
    BY <1>3 DEF ResetSoft
  <2> QED
    BY <2>1, <1>1, <1>3, Parts, RefStep DEF ResetSoft, worktree
<1>4. ASSUME NEW c \in CommitIds, ResetMixed(c)
      PROVE  Inv'
  <2>1. MoveTip(c)
    BY <1>4 DEF ResetMixed
  <2> QED
    BY <2>1, <1>1, <1>2, <1>4, Parts, RefStep DEF ResetMixed
<1>5. ASSUME NEW c \in CommitIds, ResetHard(c)
      PROVE  Inv'
  <2>1. MoveTip(c)
    BY <1>5 DEF ResetHard
  <2>2. index' \in IndexStates /\ workdir' \in Trees
    BY <1>2, <1>5, Parts, OverlayTypes DEF ResetHard
  <2>3. mergeHeads' = <<>> /\ UNCHANGED <<commits, head, origin, stash>>
    BY <1>5 DEF ResetHard
  <2> QED
    BY <2>1, <2>2, <2>3, <1>1, Parts, RefStep
<1>6. ASSUME NEW c \in CommitIds, NEW S \in PathSelections, ResetPaths(c, S)
      PROVE  Inv'
  <2>1. index' \in IndexStates
    BY <1>2, <1>6, Parts, OverlayTypes DEF ResetPaths
  <2> QED
    BY <2>1, <1>6, Parts, WorktreeStep DEF ResetPaths
<1> QED
  BY <1>3, <1>4, <1>5, <1>6 DEF ResetStep

LEMMA StashSound ==
  ASSUME Inv, StashStep
  PROVE  Inv'
<1>1. stash \in Seq(Trees) /\ Len(stash) <= MaxStash
  BY Parts
<1>2. stash # <<>> => /\ Tail(stash) \in Seq(Trees)
                      /\ Len(Tail(stash)) <= MaxStash
  BY <1>1, HeadTailProperties, LenProperties
<1>3. ASSUME StashSave
      PROVE  Inv'
  <2>1. StashTree \in Trees
    BY Parts DEF StashTree, Trees, Files
  <2>2. <<StashTree>> \in Seq(Trees) /\ Len(<<StashTree>>) = 1
    BY <2>1
  <2>3. stash' = <<StashTree>> \o stash /\ Len(stash) < MaxStash
    BY <1>3 DEF StashSave
  <2>4. stash' \in Seq(Trees) /\ Len(stash') = 1 + Len(stash) /\ Len(stash) \in Nat
    BY <1>1, <2>2, <2>3, ConcatProperties, LenProperties
  <2>5. Len(stash') <= MaxStash
    BY <2>3, <2>4
  <2>6. HeadTree \in Trees /\ HeadTree \in IndexStates
    BY HeadTreeType, TreesAreIndexes
  <2>7. index' \in IndexStates /\ workdir' \in Trees
    BY <1>3, <2>6, Parts, OverlayTypes DEF StashSave
  <2>8. UNCHANGED graph /\ UNCHANGED mergeHeads
    BY <1>3 DEF StashSave
  <2> QED
    BY <2>4, <2>5, <2>7, <2>8, WorktreeStep
<1>4. ASSUME NEW pop \in BOOLEAN, StashApply(pop)
      PROVE  Inv'
  <2>1. PICK t \in StashCandidates :
           /\ workdir' = SafeCheckoutWorkdir(t)
           /\ stash' = IF pop /\ stash # <<>> THEN Tail(stash) ELSE stash
           /\ UNCHANGED <<graph, index, mergeHeads>>
    BY <1>4 DEF StashApply
  <2>2. t \in Trees
    <3>1. CASE stash # <<>>
      <4>1. stash[1] \in Trees
        BY <1>1, <3>1, EmptySeq, ElementOfSeq
      <4> QED
        BY <3>1, <4>1 DEF StashCandidates
    <3>2. CASE stash = <<>>
      BY <3>2, CommitFields DEF StashCandidates
    <3> QED
      BY <3>1, <3>2
  <2>3. workdir' \in Trees
    BY <2>1, <2>2, Parts, OverlayTypes DEF SafeCheckoutWorkdir
  <2>4. stash' \in Seq(Trees) /\ Len(stash') <= MaxStash
    BY <1>1, <1>2, <2>1
  <2>5. UNCHANGED graph /\ UNCHANGED index /\ UNCHANGED mergeHeads
    BY <2>1
  <2> QED
    BY <2>3, <2>4, <2>5, Parts, WorktreeStep
<1>5. ASSUME StashDrop
      PROVE  Inv'
  BY <1>2, <1>5, Parts, WorktreeStep DEF StashDrop, worktree
<1> QED
  BY <1>3, <1>4, <1>5 DEF StashStep

-----------------------------------------------------------------------------
LEMMA InitSound == Init => Inv
<1> SUFFICES ASSUME Init
             PROVE  Inv
  OBVIOUS
<1>1. Len(commits) = 0 /\ commits \in Seq(CommitRecords(MaxCommits))
      /\ CommitIds = {}
  BY EmptySeq DEF Init, CommitIds
<1>2. /\ mergeHeads \in Seq(1..MaxCommits) /\ mergeHeads \in Seq(CommitIds)
      /\ stash \in Seq(Trees) /\ Len(stash) = 0
  BY EmptySeq DEF Init
<1>3. TypeOK
  BY <1>1, <1>2, EmptyTreeType, TreesAreIndexes
  DEF Init, TypeOK, RefNames, NoCommit
<1>4. GraphSound /\ NothingDangles
  BY <1>1, <1>2 DEF Init, GraphSound, NothingDangles, RefNames
<1> QED
  BY <1>3, <1>4 DEF Inv, RepositorySound

LEMMA NextSound == Inv /\ [Next]_vars => Inv'
<1> SUFFICES ASSUME Inv, [Next]_vars
             PROVE  Inv'
  OBVIOUS
<1>1. CASE UNCHANGED vars
  <2>1. UNCHANGED graph /\ UNCHANGED <<index, workdir, mergeHeads, stash>>
    BY <1>1 DEF vars, graph
  <2> QED
    BY <2>1, Parts, WorktreeStep
<1>2. CASE Next
  BY <1>2, UserSound, StageSound, CommitSound, MergeSound, PickSound,
     CreateBranchSound, CheckoutSound, ResetSound, StashSound
  DEF Next
<1> QED
  BY <1>1, <1>2

LEMMA InvHolds == Spec => []Inv
  BY InitSound, NextSound, PTL DEF Spec

(***************************************************************************)
(* Whatever commands are run, in whatever order, the repository keeps its  *)
(* types.                                                                  *)
(***************************************************************************)
THEOREM TypeCorrect == Spec => []TypeOK
<1>1. Inv => TypeOK
  BY DEF Inv
<1> QED
  BY <1>1, InvHolds, PTL

(***************************************************************************)
(* Whatever commands are run, in whatever order, the commit graph is       *)
(* closed under ancestors, and every reference and MERGE_HEAD name         *)
(* existing commits.                                                       *)
(***************************************************************************)
THEOREM RepositoryStaysSound == Spec => []RepositorySound
<1>1. Inv => RepositorySound
  BY DEF Inv
<1> QED
  BY <1>1, InvHolds, PTL
-----------------------------------------------------------------------------
(***************************************************************************)
(* Only four commands move the tip of the branch HEAD stands for: commit,  *)
(* a fast-forward, a merge that commits itself, and reset.                 *)
(***************************************************************************)
MergeCommits(c, m) ==
  /\ ResultFits(m)
  /\ index' = ResultIndex(m)
  /\ workdir' = ResultWorkdir(m)
  /\ mergeHeads' = <<c>>
  /\ CommitAllowed(ResultIndex(m), ResultWorkdir(m), <<c>>, FALSE, FALSE)
  /\ CommitOnHead(CommitRecord(ResultIndex(m), <<c>>, FALSE))

TipMover ==
  \/ \E allowEmpty, amend \in BOOLEAN : Commit(allowEmpty, amend)
  \/ \E c \in CommitIds : CanFastForward(c) /\ FastForward(c)
  \/ \E c \in CommitIds, m \in IndexStates : MergeCommits(c, m)
  \/ ResetTip

LEMMA MergeMoves ==
  ASSUME Inv, MergeStep
  PROVE  /\ refs' = refs \/ refs' = [refs EXCEPT ![head] = refs'[head]]
         /\ refs' = refs \/ TipMover
<1>1. PICK c \in MergeSources, ffOnly \in BOOLEAN, noFF \in BOOLEAN,
           noCommit \in BOOLEAN :
        Merge(c, ffOnly, noFF, noCommit)
  BY DEF MergeStep
<1>2. c \in CommitIds
  BY Sources
<1>3. refs \in [RefNames -> CommitIds \cup {NoCommit}] /\ head \in RefNames
  BY Parts
<1>4. CASE CanFastForward(c) /\ ~noFF
  <2>1. FastForward(c) /\ refs' = [refs EXCEPT ![head] = c]
    BY <1>1, <1>4 DEF Merge, FastForward
  <2> QED
    BY <1>2, <1>3, <1>4, <2>1 DEF TipMover
<1>5. CASE MergeRefused
  BY <1>5 DEF MergeRefused, graph
<1>6. CASE Born /\ ThreeWayMerge(c, noCommit) /\ ~MergeRefused
  <2>1. PICK base \in MergeBases(c) :
          LET m == ThreeWay(base, HeadTree, commits[c].tree)
          IN  ResultFits(m) /\ MergeWritten(c, m, noCommit)
    BY <1>6 DEF ThreeWayMerge
  <2> DEFINE m == ThreeWay(base, HeadTree, commits[c].tree)
  <2>2. m \in IndexStates
    BY <1>2, <1>6, MergeResultType
  <2>3. ResultFits(m) /\ MergeWritten(c, m, noCommit)
    BY <2>1
  <2> HIDE DEF m
  <2>4. UNCHANGED refs \/ MergeCommits(c, m)
    BY <2>3 DEF MergeWritten, MergeCommits
  <2>5. MergeCommits(c, m) => refs' = [refs EXCEPT ![head] = Len(commits) + 1]
    BY DEF MergeCommits, CommitOnHead
  <2> QED
    BY <1>2, <1>3, <2>2, <2>4, <2>5 DEF TipMover
<1> QED
  BY <1>1, <1>4, <1>5, <1>6 DEF Merge, ThreeWayMerge

LEMMA OnlyTipMoversMove ==
  ASSUME Inv, Next
  PROVE  /\ \A b \in Branches :
              b # head \/ head' # head => refs[b] \in {NoCommit, refs'[b]}
         /\ TipMoves => TipMover
<1>1. refs \in [RefNames -> CommitIds \cup {NoCommit}] /\ head \in RefNames
  BY Parts
<1>2. CASE UserStep
  BY <1>2 DEF UserStep, Edit, Fetch, graph, TipMoves
<1>3. CASE StageStep
  BY <1>3 DEF StageStep, Add, Rm, graph, TipMoves
<1>4. CASE CommitStep
  BY <1>1, <1>4 DEF CommitStep, Commit, CommitOnHead, TipMover, RefNames
<1>5. CASE MergeStep
  <2>1. head' = head
    BY <1>5 DEF MergeStep, Merge, FastForward, ThreeWayMerge, MergeWritten,
                MergeRefused, graph
  <2> QED
    BY <1>1, <1>5, <2>1, MergeMoves DEF RefNames, TipMoves
<1>6. CASE PickStep
  BY <1>6 DEF PickStep, CherryPick, graph, TipMoves
<1>7. ASSUME NEW b \in Branches, CreateBranch(b)
      PROVE  /\ \A d \in Branches : refs[d] \in {NoCommit, refs'[d]}
             /\ ~TipMoves
  BY <1>1, <1>7 DEF CreateBranch, TipMoves, Born, Tip, RefNames
<1>8. CASE CheckoutStep
  <2>1. ASSUME NEW b \in Branches, CheckoutBranch(b) \/ CheckoutTracking(b)
        PROVE  /\ \A d \in Branches : refs[d] \in {NoCommit, refs'[d]}
               /\ ~TipMoves
    BY <1>1, <2>1 DEF CheckoutBranch, CheckoutTracking, SwitchTo, TipMoves,
                      Born, Tip, RefNames
  <2>2. ASSUME NEW b \in Branches, CheckoutUnborn(b)
        PROVE  /\ \A d \in Branches : refs[d] \in {NoCommit, refs'[d]}
               /\ ~TipMoves
    BY <1>1, <2>2 DEF CheckoutUnborn, TipMoves, Born, Tip, RefNames
  <2>3. ASSUME NEW c \in DetachTargets, Detach(c)
        PROVE  /\ \A d \in Branches : refs[d] \in {NoCommit, refs'[d]}
               /\ ~TipMoves
    BY <1>1, <2>3 DEF Detach, TipMoves, RefNames
  <2>4. ASSUME NEW p \in Paths, CheckoutPath(p)
        PROVE  /\ \A d \in Branches : refs[d] \in {NoCommit, refs'[d]}
               /\ ~TipMoves
    BY <2>4 DEF CheckoutPath, graph, TipMoves
  <2> QED
    BY <1>8, <2>1, <2>2, <2>3, <2>4 DEF CheckoutStep
<1>9. CASE ResetStep
  <2>1. ASSUME NEW c \in CommitIds, ResetSoft(c) \/ ResetMixed(c) \/ ResetHard(c)
        PROVE  /\ refs' = [refs EXCEPT ![head] = c] /\ head' = head
               /\ TipMover
    <3>1. MoveTip(c) /\ head' = head
      BY <2>1 DEF ResetSoft, ResetMixed, ResetHard
    <3> QED
      BY <2>1, <3>1 DEF MoveTip, TipMover, ResetTip
  <2>2. ASSUME NEW c \in CommitIds, NEW S \in PathSelections, ResetPaths(c, S)
        PROVE  refs' = refs /\ head' = head
    BY <2>2 DEF ResetPaths, graph
  <2> QED
    BY <1>1, <1>9, <2>1, <2>2 DEF ResetStep, TipMoves, RefNames
<1>10. CASE StashStep
  BY <1>10 DEF StashStep, StashSave, StashDrop, StashApply, graph, TipMoves
<1> QED
  BY <1>2, <1>3, <1>4, <1>5, <1>6, <1>7, <1>8, <1>9, <1>10 DEF Next
(***************************************************************************)
(* What the two kinds of commit steps leave in the branch.                 *)
(***************************************************************************)
LEMMA RangeInFront ==
  ASSUME NEW S, NEW x \in S, NEW t \in Seq(S)
  PROVE  Range(<<x>> \o t) = Range(<<x>>) \cup Range(t)
<1> DEFINE s == <<x>>
<1>1. s \in Seq(S)
  OBVIOUS
<1> HIDE DEF s
<1>2. Range(s \o t) = Range(s) \cup Range(t)
  BY <1>1, RangeConcatenation
<1> QED
  BY <1>2 DEF s

LEMMA CommittedTip ==
  ASSUME Inv, NEW idx \in IndexStates, NEW wd, NEW mh \in Seq(CommitIds),
         NEW allowEmpty \in BOOLEAN, NEW amend \in BOOLEAN,
         CommitAllowed(idx, wd, mh, allowEmpty, amend),
         CommitOnHead(CommitRecord(idx, mh, amend)),
         Born, head' = head
  PROVE  /\ Len(commits') > Len(commits)
         /\ NewTip = CommitRecord(idx, mh, amend)
         /\ HeadTree' = idx
         /\ Range(mh) \subseteq NewTip.below
         /\ ~amend => Tip \in NewTip.below
         /\ amend => NewTip.parents = commits[Tip].parents
<1>1. PICK ps \in Seq(CommitIds) :
        CommitRecord(idx, mh, amend) = NewCommit(ps, idx)
  BY CommitRecordShape
<1>2. idx \in Trees
  BY CommitRecordShape
<1>3. /\ StoreCommit(NewCommit(ps, idx))
      /\ refs' = [refs EXCEPT ![head] = Len(commits) + 1]
  BY <1>1 DEF CommitOnHead
<1>4. /\ Len(commits') = Len(commits) + 1
      /\ Len(commits) + 1 \in 1..MaxCommits
      /\ commits'[Len(commits) + 1] = NewCommit(ps, idx)
  BY <1>2, <1>3, StoreSound
<1>5. refs'[head] = Len(commits) + 1
  BY <1>3, Parts
<1>6. NewTip = CommitRecord(idx, mh, amend)
  BY <1>1, <1>4, <1>5 DEF NewTip
<1>7. HeadTree' = idx
  BY <1>1, <1>4, <1>5 DEF HeadTree, Born, Tip, NoCommit, NewCommit
<1>8. Len(commits) \in Nat
  BY LenProperties DEF Inv, TypeOK
<1>9. CASE amend
  <2>1. Len(mh) = 0
    <3> DEFINE n == Len(mh)
               k == Len(Parents(mh))
    <3>1. k = 1
      BY <1>9 DEF CommitAllowed
    <3>2. k = n + 1
      BY ParentsType
    <3>3. n \in Nat
      BY LenProperties
    <3> HIDE DEF n, k
    <3>4. n = 0
      BY <3>1, <3>2, <3>3
    <3> QED
      BY <3>4 DEF n
  <2>2. Range(mh) = {}
    <3>1. DOMAIN mh = 1..Len(mh)
      BY LenProperties
    <3>2. DOMAIN mh = {}
      BY <2>1, <3>1
    <3> QED
      BY <3>2 DEF Range
  <2> QED
    BY <1>4, <1>6, <1>7, <1>8, <1>9, <2>2 DEF CommitRecord, NewCommit
<1>10. CASE ~amend
  <2>1. NewTip.below = HistoryOf(Range(Parents(mh)))
    BY <1>6, <1>10 DEF CommitRecord, NewCommit
  <2>2. Range(Parents(mh)) = Range(<<Tip>>) \cup Range(mh)
    <3>1. Tip \in CommitIds /\ Parents(mh) = <<Tip>> \o mh
      BY TipFacts DEF Parents
    <3>2. Range(<<Tip>> \o mh) = Range(<<Tip>>) \cup Range(mh)
      BY <3>1, RangeInFront
    <3> QED
      BY <3>1, <3>2
  <2>3. Tip \in Range(<<Tip>>)
    BY DEF Range
  <2>4. Range(Parents(mh)) \subseteq HistoryOf(Range(Parents(mh)))
    BY DEF HistoryOf, History
  <2>5. Range(mh) \subseteq NewTip.below /\ Tip \in NewTip.below
    BY <2>1, <2>2, <2>3, <2>4
  <2>6. Len(commits') > Len(commits)
    BY <1>4, <1>8
  <2> QED
    BY <1>6, <1>7, <1>10, <2>5, <2>6
<1> QED
  BY <1>9, <1>10
-----------------------------------------------------------------------------
LEMMA HistoryStepHolds == Inv /\ [Next]_vars => [HistoryStep]_vars
<1> SUFFICES ASSUME Inv, Next
             PROVE  HistoryStep
  BY DEF vars
<1>1. ASSUME TipMoves
      PROVE  GainsHistory \/ ReplacesTip \/ ResetTip
  <2>1. TipMover /\ Born /\ head' = head /\ refs'[head] # Tip
    BY <1>1, OnlyTipMoversMove DEF TipMoves, Tip
  <2>2. ASSUME NEW allowEmpty \in BOOLEAN, NEW amend \in BOOLEAN,
               Commit(allowEmpty, amend)
        PROVE  GainsHistory \/ ReplacesTip
    BY <2>1, <2>2, Parts, CommittedTip DEF Commit, GainsHistory, ReplacesTip
  <2>3. ASSUME NEW c \in CommitIds, CanFastForward(c), FastForward(c)
        PROVE  GainsHistory
    <3>1. Tip \in commits[c].below
      BY <2>1, <2>3 DEF CanFastForward, History
    <3>2. NewTip = commits[c]
      BY <2>3, Parts DEF FastForward, NewTip
    <3> QED
      BY <3>1, <3>2 DEF GainsHistory
  <2>4. ASSUME NEW c \in CommitIds, NEW m \in IndexStates, MergeCommits(c, m)
        PROVE  GainsHistory
    <3>1. <<c>> \in Seq(CommitIds) /\ ResultIndex(m) \in IndexStates
      BY ResultTypes
    <3> QED
      BY <2>1, <2>4, <3>1, CommittedTip DEF MergeCommits, GainsHistory
  <2> QED
    BY <2>1, <2>2, <2>3, <2>4 DEF TipMover
<1> QED
  BY <1>1, OnlyTipMoversMove DEF HistoryStep

(***************************************************************************)
(* No sequence of commands rewrites a branch behind the user's back: a     *)
(* step that moves a branch moves the one HEAD stands for, and keeps its   *)
(* old tip in the history, amends it, or is a reset.                       *)
(***************************************************************************)
THEOREM BranchesOnlyGainHistory == Spec => BranchesGainHistory
  BY InvHolds, HistoryStepHolds, PTL DEF Spec, BranchesGainHistory

LEMMA RecordStepHolds == Inv /\ [Next]_vars => [RecordStep]_vars
<1> SUFFICES ASSUME Inv, Next, TipMoves, Len(commits') > Len(commits)
             PROVE  Range(mergeHeads') \subseteq NewTip.below
  BY DEF RecordStep, vars
<1>1. TipMover /\ Born /\ head' = head
  BY OnlyTipMoversMove DEF TipMoves
<1>2. commits' # commits
  <2>1. Len(commits) \in Nat
    BY LenProperties DEF Inv, TypeOK
  <2> QED
    BY <2>1
<1>3. ASSUME NEW allowEmpty \in BOOLEAN, NEW amend \in BOOLEAN,
             Commit(allowEmpty, amend)
      PROVE  Range(mergeHeads') \subseteq NewTip.below
  BY <1>1, <1>3, Parts, CommittedTip DEF Commit
<1>4. ASSUME NEW c \in CommitIds, NEW m \in IndexStates, MergeCommits(c, m)
      PROVE  Range(mergeHeads') \subseteq NewTip.below
  <2>1. <<c>> \in Seq(CommitIds) /\ ResultIndex(m) \in IndexStates
    BY ResultTypes
  <2> QED
    BY <1>1, <1>4, <2>1, CommittedTip DEF MergeCommits
<1>5. ~ResetTip /\ \A c \in CommitIds : ~FastForward(c)
  BY <1>2 DEF ResetTip, ResetSoft, ResetMixed, ResetHard, FastForward
<1> QED
  BY <1>1, <1>3, <1>4, <1>5 DEF TipMover

(***************************************************************************)
(* No commit forgets a merge: whatever MERGE_HEAD lists is below every     *)
(* commit that commit and merge create while it lists it.                  *)
(***************************************************************************)
THEOREM MergesAreRecorded == Spec => MergeHeadsRecorded
  BY InvHolds, RecordStepHolds, PTL DEF Spec, MergeHeadsRecorded

LEMMA FirstCommitStepHolds == Inv /\ [Next]_vars => [FirstCommitStep]_vars
<1> SUFFICES ASSUME Inv, Next, ~Born, Born', Len(commits') > Len(commits)
             PROVE  commits'[Tip'].parents = <<>>
  BY DEF FirstCommitStep, vars
<1>1. commits' # commits /\ Len(commits) \in Nat
  BY LenProperties DEF Inv, TypeOK
<1>2. PICK allowEmpty \in BOOLEAN, amend \in BOOLEAN : Commit(allowEmpty, amend)
  <2>1. \A b, ps, t : ~Fetch(b, ps, t)
    BY DEF Fetch, Born, Tip
  <2>2. \A c, ffOnly, noFF, noCommit : ~Merge(c, ffOnly, noFF, noCommit)
    BY <1>1 DEF Merge, FastForward, ThreeWayMerge, MergeRefused, graph
  <2>3. (\A b : ~CreateBranch(b)) /\ ~CheckoutStep
    BY <1>1 DEF CreateBranch, CheckoutStep, CheckoutBranch, CheckoutTracking, SwitchTo,
                CheckoutUnborn, Detach, CheckoutPath, graph
  <2>4. ~ResetStep /\ ~StashStep
    BY <1>1 DEF ResetStep, ResetSoft, ResetMixed, ResetHard, ResetPaths,
                StashStep, StashSave, StashApply, StashDrop, graph
  <2>5. (\A p, f : ~Edit(p, f)) /\ ~StageStep /\ ~PickStep
    BY <1>1 DEF Edit, StageStep, Add, Rm, PickStep, CherryPick, graph
  <2> QED
    BY <2>1, <2>2, <2>3, <2>4, <2>5 DEF Next, UserStep, CommitStep, MergeStep
<1>3. mergeHeads = <<>> /\ Parents(mergeHeads) = <<>>
  BY <1>2 DEF Commit, CommitAllowed, Parents
<1>4. ~amend
  BY <1>2, <1>3 DEF Commit, CommitAllowed
<1>5. /\ commits' = Append(commits, NewCommit(<<>>, index))
      /\ refs' = [refs EXCEPT ![head] = Len(commits) + 1] /\ head' = head
  BY <1>2, <1>3, <1>4 DEF Commit, CommitOnHead, StoreCommit, CommitRecord
<1>6. Tip' = Len(commits) + 1
  BY <1>5, Parts DEF Tip
<1>7. commits'[Len(commits) + 1] = NewCommit(<<>>, index)
  BY <1>1, <1>5, AppendProperties DEF Inv, TypeOK
<1> QED
  BY <1>6, <1>7 DEF NewCommit

(***************************************************************************)
(* The first commit of a branch is a root, whatever MERGE_HEAD lists.      *)
(***************************************************************************)
THEOREM FirstCommitsAreRoots == Spec => FirstCommitIsRoot
  BY InvHolds, FirstCommitStepHolds, PTL DEF Spec, FirstCommitIsRoot

LEMMA HoldStepHolds == Inv /\ [Next]_vars => [HoldStep]_vars
<1> SUFFICES ASSUME Inv, Next, TipMoves, HasConflicts(index)
             PROVE  ResetTip
  BY DEF HoldStep, vars
<1>1. TipMover
  BY OnlyTipMoversMove
<1>2. \A allowEmpty, amend \in BOOLEAN : ~Commit(allowEmpty, amend)
  BY DEF Commit, CommitAllowed
<1>3. \A c \in CommitIds : ~FastForward(c)
  BY DEF FastForward, SafeCheckoutPossible
<1>4. \A c \in CommitIds, m \in IndexStates : ~MergeCommits(c, m)
  BY DEF MergeCommits, ResultFits
<1> QED
  BY <1>1, <1>2, <1>3, <1>4 DEF TipMover

(***************************************************************************)
(* An unmerged index holds the branch: neither commit nor merge moves the  *)
(* tip while there are conflicts.                                          *)
(***************************************************************************)
THEOREM ConflictsHold == Spec => ConflictsHoldTheTip
  BY InvHolds, HoldStepHolds, PTL DEF Spec, ConflictsHoldTheTip

LEMMA CleanStepHolds == Inv /\ [Next]_vars => [CleanStep]_vars
<1> SUFFICES ASSUME Inv, Next, TipMoves, Clean, ~SoftReset
             PROVE  Clean'
  BY DEF CleanStep, vars
<1>1. TipMover /\ Born /\ head' = head
  BY OnlyTipMoversMove DEF TipMoves
<1>2. HeadTree \in Trees /\ index = HeadTree /\ workdir = HeadTree
  BY HeadTreeType DEF Clean
<1>3. ASSUME NEW allowEmpty \in BOOLEAN, NEW amend \in BOOLEAN,
             Commit(allowEmpty, amend)
      PROVE  Clean'
  <2>1. HeadTree' = index
    BY <1>1, <1>3, Parts, CommittedTip DEF Commit
  <2> QED
    BY <1>2, <1>3, <2>1 DEF Clean, Commit, worktree
<1>4. ASSUME NEW c \in CommitIds, commits' = commits,
             refs' = [refs EXCEPT ![head] = c]
      PROVE  HeadTree' = commits[c].tree /\ commits[c].tree \in Trees
  <2>1. refs'[head] = c
    BY <1>4, Parts
  <2>2. c # NoCommit
    BY DEF CommitIds, NoCommit
  <2> QED
    BY <1>1, <1>4, <2>1, <2>2, CommitFields DEF HeadTree, Born, Tip
<1>5. ASSUME NEW t \in Trees
      PROVE  Overlay(HeadTree, t, Updated(t)) = t
  BY <1>2 DEF Overlay, Updated, Trees
<1>6. ASSUME NEW c \in CommitIds, FastForward(c)
      PROVE  Clean'
  BY <1>2, <1>4, <1>5, <1>6
     DEF FastForward, Clean, SafeCheckoutIndex, SafeCheckoutWorkdir
<1>7. ASSUME NEW c \in CommitIds, NEW m \in IndexStates, MergeCommits(c, m)
      PROVE  Clean'
  <2>1. <<c>> \in Seq(CommitIds) /\ ResultIndex(m) \in IndexStates
    BY ResultTypes
  <2>2. HeadTree' = ResultIndex(m)
    BY <1>1, <1>7, <2>1, CommittedTip DEF MergeCommits
  <2>3. \A p \in Paths : ResultIndex(m)[p] # Unmerged
    BY <1>7 DEF MergeCommits, CommitAllowed, HasConflicts
  <2>4. \A p \in Updated(m) : m[p] # Unmerged
    BY <2>3 DEF ResultIndex, Overlay, Updated
  <2>5. ResultWorkdir(m) = ResultIndex(m)
    BY <1>2, <2>4 DEF ResultWorkdir, ResultIndex, Overlay
  <2> QED
    BY <1>7, <2>2, <2>5 DEF MergeCommits, Clean
<1>8. ASSUME NEW c \in CommitIds, ResetHard(c)
      PROVE  Clean'
  <2> DEFINE t == commits[c].tree
             tracked == {p \in Paths : {t[p], HeadTree[p], index[p]} # {Absent}}
  <2>1. HeadTree' = t /\ t \in Trees
    BY <1>4, <1>8 DEF ResetHard, MoveTip
  <2>2. index' = t /\ workdir' = Overlay(workdir, t, tracked)
    BY <1>8 DEF ResetHard
  <2>3. \A p \in Paths \ tracked : t[p] = workdir[p]
    BY <1>2
  <2> HIDE DEF t, tracked
  <2>4. workdir' = t
    BY <2>1, <2>2, <2>3 DEF Overlay, Trees
  <2> QED
    BY <2>1, <2>2, <2>4 DEF Clean
<1> QED
  BY <1>1, <1>3, <1>6, <1>7, <1>8 DEF TipMover, ResetTip, SoftReset

(***************************************************************************)
(* A clean repository stays clean when commit, merge or a hard reset moves *)
(* its tip.                                                                *)
(***************************************************************************)
THEOREM CleanIsKept == Spec => CleanStaysClean
  BY InvHolds, CleanStepHolds, PTL DEF Spec, CleanStaysClean
-----------------------------------------------------------------------------
(***************************************************************************)
(* Where the work tree is written without asking the user: a safe checkout *)
(* and a merge result leave a file alone that differs from HEAD's tree,    *)
(* unless it already is what they were to write.                           *)
(***************************************************************************)
LEMMA SafeCheckoutSpares ==
  ASSUME NEW t, SafeCheckoutPossible(t), NEW p \in Paths,
         workdir[p] # HeadTree[p]
  PROVE  SafeCheckoutWorkdir(t)[p] = workdir[p]
  BY DEF SafeCheckoutPossible, SafeCheckoutWorkdir, Overlay, Updated

LEMMA ResultSpares ==
  ASSUME Inv, NEW m, ResultFits(m), NEW p \in Paths,
         workdir[p] # HeadTree[p]
  PROVE  ResultWorkdir(m)[p] = workdir[p]
<1>1. workdir[p] # Unmerged
  BY Parts DEF Trees, Files
<1> QED
  BY <1>1 DEF ResultFits, ResultWorkdir, Updated

LEMMA MergeSpares ==
  ASSUME Inv, MergeStep, NEW p \in Paths, workdir[p] # HeadTree[p]
  PROVE  workdir'[p] = workdir[p]
<1>1. PICK c \in MergeSources, ffOnly \in BOOLEAN, noFF \in BOOLEAN,
           noCommit \in BOOLEAN :
        Merge(c, ffOnly, noFF, noCommit)
  BY DEF MergeStep
<1>2. CASE FastForward(c)
  BY <1>2, SafeCheckoutSpares DEF FastForward
<1>3. CASE MergeRefused
  BY <1>3 DEF MergeRefused, worktree
<1>4. ASSUME NEW m, ResultFits(m), MergeWritten(c, m, noCommit)
      PROVE  workdir'[p] = workdir[p]
  BY <1>4, ResultSpares DEF MergeWritten
<1> QED
  BY <1>1, <1>2, <1>3, <1>4 DEF Merge, ThreeWayMerge

LEMMA SaveStepHolds == Inv /\ [Next]_vars => [SaveStep]_vars
<1> SUFFICES ASSUME Inv, Next, NEW p \in Paths,
                    workdir[p] \notin {Absent, HeadTree[p]},
                    workdir'[p] # workdir[p],
                    ~UserEdits, ~Discards
             PROVE  Len(stash') > Len(stash)
                      /\ (index[p] = Absent \/ stash'[1][p] = workdir[p])
  BY DEF SaveStep, vars
<1>1. ~UserStep
  BY DEF UserStep, UserEdits, Fetch, worktree
<1>2. ~StageStep /\ ~CommitStep
  BY DEF StageStep, Add, Rm, CommitStep, Commit, worktree
<1>3. ~MergeStep
  BY MergeSpares
<1>4. ~PickStep
  BY ResultSpares DEF PickStep, CherryPick
<1>5. \A b \in Branches : ~CreateBranch(b)
  BY DEF CreateBranch, worktree
<1>6. ~CheckoutStep
  BY DEF CheckoutStep, Discards, CheckoutUnborn, worktree
<1>7. ~ResetStep
  BY DEF ResetStep, Discards, ResetSoft, ResetMixed, ResetPaths, worktree
<1>8. \A pop \in BOOLEAN : ~StashApply(pop)
  BY SafeCheckoutSpares DEF StashApply
<1>9. StashSave
  BY <1>1, <1>2, <1>3, <1>4, <1>5, <1>6, <1>7, <1>8
  DEF Next, StashStep, StashDrop, worktree
<1>10. /\ StashTree \in Trees /\ stash \in Seq(Trees)
       /\ stash' = <<StashTree>> \o stash
  BY <1>9, Parts DEF StashSave, StashTree, Trees, Files
<1>11. /\ <<StashTree>> \in Seq(Trees) /\ Len(<<StashTree>>) = 1
       /\ <<StashTree>>[1] = StashTree
  BY <1>10
<1>12. /\ Len(stash) \in Nat /\ Len(stash') = 1 + Len(stash)
       /\ stash'[1] = StashTree
  BY <1>10, <1>11, ConcatProperties, LenProperties
<1> QED
  BY <1>12 DEF StashTree

(***************************************************************************)
(* No command overwrites a file that differs from HEAD's tree, unless it   *)
(* is asked to discard it or has put it into a stash entry.                *)
(***************************************************************************)
THEOREM UnsavedWorkIsKept == Spec => UnsavedWorkSurvives
  BY InvHolds, SaveStepHolds, PTL DEF Spec, UnsavedWorkSurvives

LEMMA PopStepHolds == Inv /\ [Next]_vars => [PopStep]_vars
<1> SUFFICES ASSUME Inv, Len(stash') < Len(stash), StashApply(TRUE),
                    NEW p \in Paths
             PROVE  stash[1][p] \in {HeadTree[p], workdir'[p]}
  BY DEF PopStep, vars
<1>1. stash # <<>>
  BY DEF StashApply
<1>2. workdir' = SafeCheckoutWorkdir(stash[1])
  BY <1>1 DEF StashApply, StashCandidates
<1> QED
  BY <1>2 DEF SafeCheckoutWorkdir, Overlay, Updated

(***************************************************************************)
(* A stash entry that pop removes has its changes in the work tree.        *)
(***************************************************************************)
THEOREM PopRestores == Spec => StashPopRestores
  BY InvHolds, PopStepHolds, PTL DEF Spec, StashPopRestores

-----------------------------------------------------------------------------
(***************************************************************************)
(* Invocations of sgit that share a repository, any number of them.  The   *)
(* calls change the repository as the commands do, or in part, so that the *)
(* lemmas above carry over.                                                *)
(***************************************************************************)

(***************************************************************************)
(* Any sound repository in which no invocation has begun, with at most one *)
(* commit in MERGE_HEAD, as merge leaves it.  The fresh one is a special   *)
(* case.                                                                   *)
(***************************************************************************)
OneMergeHead == Len(mergeHeads) <= 1
AnyStart ==
  /\ Inv /\ OneMergeHead
  /\ pc = [p \in Procs |-> "idle"]
  /\ loc = [p \in Procs |-> Unread]
AnyShared == AnyStart /\ [][NextAll]_allVars

LEMMA SharedStartsAnywhere == SpecAll => AnyShared
<1>1. InitAll => AnyStart
  BY InitSound, EmptySeq DEF InitAll, Init, AnyStart, OneMergeHead
<1> QED
  BY <1>1, PTL DEF SpecAll, AnyShared

(***************************************************************************)
(* The inductive invariant.  What an invocation has read names commits     *)
(* that exist, and it knows of those it is going to use.  MERGE_HEAD may   *)
(* have changed between the count and the read, but never has two entries; *)
(* and what it adds is added to a tip, without which --amend would take    *)
(* its entry for the commit to amend.                                      *)
(***************************************************************************)
Locals ==
  [job : Jobs \cup {""}, arg : Branches, ref : RefNames,
   tip : CommitIds \cup {NoCommit}, count : Nat, heads : Seq(CommitIds),
   tree : IndexStates, theirs : CommitIds \cup {NoCommit}]
Good(goal, l) ==
  /\ goal \in {"heads", "status", "write"} =>
       l.count = 0 \/ (l.count = 1 /\ l.tip # NoCommit)
  /\ goal \in {"status", "write"} => Len(l.heads) = l.count
  /\ goal \in {"files", "set"} => l.tip # NoCommit
  /\ goal \in {"analyse", "ffhead", "files", "set", "merge", "sethead", "force"}
       => l.theirs # NoCommit
  /\ goal = "lookup" => l.job \in {"merge", "ff-only", "no-ff", "checkout"}
  /\ goal = "analyse" => l.job \in {"merge", "ff-only", "no-ff"}
  /\ goal \in {"ffhead", "files", "set"} => l.job \in {"merge", "ff-only"}
SharedInv ==
  /\ Inv /\ OneMergeHead
  /\ pc \in [Procs -> Calls]
  /\ loc \in [Procs -> Locals]
  /\ \A p \in Procs : Good(pc[p], loc[p])

LEMMA UnreadFacts ==
  /\ Unread \in Locals
  /\ Good("idle", Unread) /\ Good("done", Unread)
<1>1. EmptyTree \in IndexStates
  BY EmptyTreeType, TreesAreIndexes
<1>2. <<>> \in Seq(CommitIds)
  BY EmptySeq
<1> QED
  BY <1>1, <1>2 DEF Unread, Locals, Good, RefNames

LEMMA StartSound == AnyStart => SharedInv
  BY UnreadFacts DEF AnyStart, SharedInv, Calls

LEMMA SharedParts ==
  ASSUME SharedInv, NEW p \in Procs
  PROVE  /\ Inv /\ OneMergeHead
         /\ loc[p] \in Locals /\ Good(pc[p], loc[p])
         /\ loc[p].arg \in Branches /\ loc[p].ref \in RefNames
         /\ loc[p].tip \in CommitIds \cup {NoCommit}
         /\ loc[p].count \in Nat
         /\ loc[p].heads \in Seq(CommitIds)
         /\ loc[p].tree \in IndexStates
         /\ loc[p].theirs \in CommitIds \cup {NoCommit}
         /\ loc[p].job \in Jobs \cup {""}
<1>1. loc[p] \in Locals
  BY DEF SharedInv
<1> QED
  BY <1>1 DEF SharedInv, Locals

LEMMA LocalsGrow ==
  ASSUME CommitIds \subseteq CommitIds', NEW l \in Locals
  PROVE  l \in Locals'
<1>1. l.heads \in Seq(CommitIds')
  <2>1. l.heads \in Seq(CommitIds)
    BY DEF Locals
  <2> QED
    BY <2>1, SeqMonotonic
<1> QED
  BY <1>1 DEF Locals

\* What a step of one invocation has to establish.
LEMMA CallStep ==
  ASSUME SharedInv, Inv', OneMergeHead', CommitIds \subseteq CommitIds',
         NEW p \in Procs, NEW goal \in Calls, NEW l \in Locals, Good(goal, l),
         pc' = [pc EXCEPT ![p] = goal],
         loc' = [loc EXCEPT ![p] = l]
  PROVE  SharedInv'
<1>1. /\ pc \in [Procs -> Calls] /\ loc \in [Procs -> Locals]
      /\ \A q \in Procs : Good(pc[q], loc[q])
  BY DEF SharedInv
<1>2. pc' \in [Procs -> Calls]
  BY <1>1
<1>3. loc' \in [Procs -> Locals]
  BY <1>1
<1>4. loc' \in [Procs -> Locals']
  BY <1>3, LocalsGrow
<1>5. \A q \in Procs : Good(pc'[q], loc'[q])
  BY <1>1
<1> QED
  BY <1>2, <1>4, <1>5 DEF SharedInv

\* The same for the invocation's last step, and for a call that only reads.
LEMMA ExitStep ==
  ASSUME SharedInv, Inv', OneMergeHead', CommitIds \subseteq CommitIds',
         NEW p \in Procs, Exit(p)
  PROVE  SharedInv'
  BY CallStep, UnreadFacts DEF Exit, Calls

LEMMA CommitIdsStay ==
  ASSUME UNCHANGED commits
  PROVE  CommitIds' = CommitIds
  BY DEF CommitIds

LEMMA Untouched ==
  ASSUME SharedInv, UNCHANGED vars
  PROVE  Inv' /\ OneMergeHead' /\ CommitIds \subseteq CommitIds'
<1>1. UNCHANGED graph /\ UNCHANGED <<commits, mergeHeads, index, workdir, stash>>
  BY DEF vars, graph
<1>2. Inv'
  BY <1>1, Parts, WorktreeStep DEF SharedInv
<1> QED
  BY <1>1, <1>2, CommitIdsStay DEF SharedInv, OneMergeHead

-----------------------------------------------------------------------------
(***************************************************************************)
(* commit.                                                                 *)
(***************************************************************************)
LEMMA ReadRefFacts ==
  ASSUME SharedInv, NEW p \in Procs, ReadRef(p)
  PROVE  \E l \in Locals :
           /\ loc' = [loc EXCEPT ![p] = l]
           /\ l = [loc[p] EXCEPT !.ref = head, !.tip = Tip]
           /\ l.tip = Tip /\ l.job = loc[p].job /\ l.theirs = loc[p].theirs
<1> DEFINE l == [loc[p] EXCEPT !.ref = head, !.tip = Tip]
<1>1. Tip \in CommitIds \cup {NoCommit} /\ head \in RefNames
  BY Parts DEF SharedInv, Tip
<1>2. loc[p] \in Locals /\ loc \in [Procs -> Locals]
  BY DEF SharedInv
<1>3. l \in Locals
  BY <1>1, <1>2 DEF Locals
<1>4. loc' = [loc EXCEPT ![p] = l]
  BY <1>2 DEF ReadRef
<1>5. l.tip = Tip /\ l.job = loc[p].job /\ l.theirs = loc[p].theirs
  BY <1>2 DEF Locals
<1> QED
  BY <1>3, <1>4, <1>5

LEMMA ReadHeadStep ==
  ASSUME SharedInv, NEW p \in Procs, ReadHead(p)
  PROVE  SharedInv'
<1>1. /\ UNCHANGED vars /\ ReadRef(p)
      /\ \E goal \in {"create", "count"} : Goto(p, goal)
  BY DEF ReadHead
<1>2. PICK goal \in {"create", "count"} : pc' = [pc EXCEPT ![p] = goal]
  BY <1>1 DEF Goto
<1>3. PICK l \in Locals : loc' = [loc EXCEPT ![p] = l]
  BY <1>1, ReadRefFacts
<1>4. Good(goal, l) /\ goal \in Calls
  BY DEF Good, Calls
<1> QED
  BY <1>1, <1>2, <1>3, <1>4, Untouched, CallStep

LEMMA CountStep ==
  ASSUME SharedInv, NEW p \in Procs, CountMergeHeads(p)
  PROVE  SharedInv'
<1> DEFINE l == [loc[p] EXCEPT !.count = Len(mergeHeads)]
<1>1. /\ UNCHANGED vars /\ pc' = [pc EXCEPT ![p] = "heads"]
      /\ loc' = [loc EXCEPT ![p].count = Len(mergeHeads)]
      /\ mergeHeads # <<>> => loc[p].tip # NoCommit
  BY DEF CountMergeHeads, Goto, Read
<1>2. loc[p] \in Locals /\ loc \in [Procs -> Locals] /\ mergeHeads \in Seq(CommitIds)
  BY Parts DEF SharedInv
<1>3. Len(mergeHeads) \in Nat
  BY <1>2, LenProperties
<1>4. l \in Locals /\ loc' = [loc EXCEPT ![p] = l]
  BY <1>1, <1>2, <1>3 DEF Locals
<1>5. l.tip = loc[p].tip /\ l.count = Len(mergeHeads)
  BY <1>2 DEF Locals
<1>6. l.count = 0 \/ (l.count = 1 /\ l.tip # NoCommit)
  BY <1>1, <1>2, <1>3, <1>5, EmptySeq DEF SharedInv, OneMergeHead
<1> HIDE DEF l
<1>7. Good("heads", l) /\ "heads" \in Calls
  BY <1>6 DEF Good, Calls
<1> QED
  BY <1>1, <1>4, <1>7, Untouched, CallStep

LEMMA FillStep ==
  ASSUME SharedInv, NEW p \in Procs, ReadMergeHeads(p)
  PROVE  SharedInv'
<1> DEFINE mh == IF loc[p].count > 0 THEN mergeHeads ELSE <<>>
           l == [loc[p] EXCEPT !.heads = mh]
<1>1. /\ UNCHANGED vars /\ pc' = [pc EXCEPT ![p] = "status"]
      /\ loc' = [loc EXCEPT ![p].heads = mh]
      /\ loc[p].count > 0 => mergeHeads # <<>>
      /\ pc[p] = "heads"
  BY DEF ReadMergeHeads, Goto, Read, At
<1>2. /\ loc[p] \in Locals /\ loc \in [Procs -> Locals] /\ mergeHeads \in Seq(CommitIds)
      /\ loc[p].count \in Nat /\ Good(pc[p], loc[p])
  BY Parts, SharedParts DEF SharedInv
<1>3. mh \in Seq(CommitIds)
  BY <1>2, EmptySeq
<1>4. l \in Locals /\ loc' = [loc EXCEPT ![p] = l]
  BY <1>1, <1>2, <1>3 DEF Locals
<1>5. l.tip = loc[p].tip /\ l.count = loc[p].count /\ l.heads = mh
  BY <1>2 DEF Locals
<1>6. loc[p].count = 0 \/ (loc[p].count = 1 /\ loc[p].tip # NoCommit)
  BY <1>1, <1>2 DEF Good
<1>7. Len(mh) = loc[p].count
  <2>1. mergeHeads \in Seq(CommitIds) /\ Len(mergeHeads) <= 1
    BY <1>2 DEF SharedInv, OneMergeHead
  <2>2. mergeHeads # <<>> => Len(mergeHeads) = 1
    <3>1. mergeHeads # <<>> => Len(mergeHeads) \in Nat \ {0}
      BY <2>1, EmptySeq
    <3>2. \A n \in Nat \ {0} : n <= 1 => n = 1
      OBVIOUS
    <3> QED
      BY <2>1, <3>1, <3>2
  <2>3. CASE loc[p].count = 0
    <3>1. mh = <<>>
      BY <2>3
    <3> QED
      BY <2>3, <3>1
  <2>4. CASE loc[p].count = 1
    <3>1. mh = mergeHeads /\ mergeHeads # <<>>
      BY <1>1, <2>4
    <3> QED
      BY <2>2, <2>4, <3>1
  <2> QED
    BY <1>6, <2>3, <2>4
<1> HIDE DEF l
<1>8. Good("status", l) /\ "status" \in Calls
  BY <1>5, <1>6, <1>7 DEF Good, Calls
<1> QED
  BY <1>1, <1>4, <1>8, Untouched, CallStep

LEMMA StatusStep ==
  ASSUME SharedInv, NEW p \in Procs, ReadStatus(p)
  PROVE  SharedInv'
<1> DEFINE l == [loc[p] EXCEPT !.tree = index]
<1>1. /\ UNCHANGED vars /\ pc' = [pc EXCEPT ![p] = "write"]
      /\ loc' = [loc EXCEPT ![p].tree = index]
      /\ pc[p] = "status"
  BY DEF ReadStatus, Goto, Read, At
<1>2. /\ loc[p] \in Locals /\ loc \in [Procs -> Locals] /\ index \in IndexStates
      /\ Good(pc[p], loc[p])
  BY Parts, SharedParts DEF SharedInv
<1>3. l \in Locals /\ loc' = [loc EXCEPT ![p] = l]
  BY <1>1, <1>2 DEF Locals
<1>4. l.tip = loc[p].tip /\ l.count = loc[p].count /\ l.heads = loc[p].heads
  BY <1>2 DEF Locals
<1> HIDE DEF l
<1>5. Good("write", l) /\ "write" \in Calls
  BY <1>1, <1>2, <1>4 DEF Good, Calls
<1> QED
  BY <1>1, <1>3, <1>5, Untouched, CallStep

(***************************************************************************)
(* The parents of the commit that is written.                              *)
(***************************************************************************)
Given(l) == (IF l.tip = NoCommit THEN <<>> ELSE <<l.tip>>) \o l.heads

LEMMA GivenFacts ==
  ASSUME SharedInv, NEW p \in Procs, pc[p] = "write"
  PROVE  /\ Given(loc[p]) \in Seq(CommitIds)
         /\ loc[p].tip # NoCommit =>
              /\ loc[p].tip \in CommitIds
              /\ loc[p].tip \in Range(Given(loc[p]))
         /\ Len(Given(loc[p])) = 1 => loc[p].tip # NoCommit
<1> DEFINE l == loc[p]
           first == IF l.tip = NoCommit THEN <<>> ELSE <<l.tip>>
<1>1. /\ l.tip \in CommitIds \cup {NoCommit} /\ l.heads \in Seq(CommitIds)
      /\ l.count = 0 \/ (l.count = 1 /\ l.tip # NoCommit)
      /\ Len(l.heads) = l.count
  BY SharedParts DEF Good
<1>2. /\ first \in Seq(CommitIds)
      /\ l.tip # NoCommit => Len(first) = 1 /\ first[1] = l.tip
      /\ l.tip = NoCommit => Len(first) = 0
  BY <1>1, EmptySeq
<1> HIDE DEF first, l
<1>3. /\ first \o l.heads \in Seq(CommitIds)
      /\ Len(first \o l.heads) = Len(first) + Len(l.heads)
      /\ \A i \in 1..Len(first) + Len(l.heads) :
           (first \o l.heads)[i] = IF i <= Len(first) THEN first[i]
                                   ELSE l.heads[i - Len(first)]
  BY <1>1, <1>2, ConcatProperties
<1>4. Given(l) = first \o l.heads
  BY DEF Given, first
<1>5. ASSUME l.tip # NoCommit
      PROVE  l.tip \in Range(Given(l))
  <2>1. Given(l)[1] = l.tip /\ 1 \in 1..Len(Given(l))
    BY <1>1, <1>2, <1>3, <1>4, <1>5
  <2>2. DOMAIN Given(l) = 1..Len(Given(l))
    BY <1>3, <1>4, LenProperties
  <2> QED
    BY <2>1, <2>2 DEF Range
<1>6. Len(Given(l)) = 1 => l.tip # NoCommit
  BY <1>1, <1>2, <1>3, <1>4
<1> QED
  BY <1>1, <1>3, <1>4, <1>5, <1>6 DEF l

\* The record that is written, as NewCommit of existing parents.
LEMMA WriteFacts ==
  ASSUME SharedInv, NEW p \in Procs, WriteCommit(p)
  PROVE  \E ps \in Seq(CommitIds), t \in Trees :
           /\ CommitOnHead(NewCommit(ps, t))
           /\ t = loc[p].tree
           /\ IF loc[p].job = "amend"
                THEN Tip # NoCommit /\ ps = commits[Tip].parents
                ELSE ps = Given(loc[p])
           /\ Tip = loc[p].tip /\ ~HasConflicts(t)
           /\ Exit(p)
           /\ UNCHANGED <<head, origin, index, workdir, mergeHeads, stash>>
<1> DEFINE l == loc[p]
           ps == IF l.job = "amend" THEN commits[l.tip].parents ELSE Given(l)
<1>1. /\ pc[p] = "write" /\ ~HasConflicts(l.tree) /\ Tip = l.tip
      /\ l.job = "amend" => Len(Given(l)) = 1
      /\ CommitOnHead(NewCommit(ps, l.tree))
      /\ Exit(p)
      /\ UNCHANGED <<head, origin, index, workdir, mergeHeads, stash>>
  BY DEF WriteCommit, At, Given, worktree
<1>2. l.tree \in Trees
  BY <1>1, SharedParts, ResolvedIndexIsTree
<1>3. l.job = "amend" => l.tip # NoCommit /\ l.tip \in CommitIds
  BY <1>1, GivenFacts
<1>4. ps \in Seq(CommitIds)
  <2>1. CASE l.job = "amend"
    <3>1. /\ commits[l.tip].parents \in Seq(1..MaxCommits)
          /\ Range(commits[l.tip].parents) \subseteq CommitIds
      BY <1>3, <2>1, CommitFields DEF SharedInv
    <3> QED
      BY <2>1, <3>1, SeqOfRange, SeqMonotonic
  <2>2. CASE l.job # "amend"
    BY <1>1, <2>2, GivenFacts
  <2> QED
    BY <2>1, <2>2
<1>5. IF l.job = "amend" THEN Tip # NoCommit /\ ps = commits[Tip].parents
                         ELSE ps = Given(l)
  BY <1>1, <1>3
<1> HIDE DEF ps
<1> QED
  BY <1>1, <1>2, <1>4, <1>5

LEMMA WriteStep ==
  ASSUME SharedInv, NEW p \in Procs, WriteCommit(p)
  PROVE  SharedInv'
<1>1. PICK ps \in Seq(CommitIds), t \in Trees :
           /\ CommitOnHead(NewCommit(ps, t))
           /\ Exit(p)
           /\ UNCHANGED <<head, origin, index, workdir, mergeHeads, stash>>
  BY WriteFacts
<1>2. Inv /\ OneMergeHead
  BY DEF SharedInv
<1>3. Inv'
  BY <1>1, <1>2, Parts, CommitOnHeadStep
<1>4. CommitIds \subseteq CommitIds'
  BY <1>1, <1>2, StoreSound DEF CommitOnHead
<1> QED
  BY <1>1, <1>2, <1>3, <1>4, ExitStep DEF OneMergeHead

-----------------------------------------------------------------------------
(***************************************************************************)
(* merge.                                                                  *)
(***************************************************************************)
LEMMA LookUpStep ==
  ASSUME SharedInv, NEW p \in Procs, LookUp(p)
  PROVE  SharedInv'
<1> DEFINE l == [loc[p] EXCEPT !.theirs = refs[loc[p].arg]]
<1>1. /\ UNCHANGED vars
      /\ \E goal \in {"sethead", "analyse"} : pc' = [pc EXCEPT ![p] = goal]
      /\ loc' = [loc EXCEPT ![p].theirs = refs[loc[p].arg]]
      /\ refs[loc[p].arg] # NoCommit
      /\ Good("lookup", loc[p])
  BY SharedParts DEF LookUp, Goto, Read, At
<1>2. PICK goal \in {"sethead", "analyse"} :
        /\ pc' = [pc EXCEPT ![p] = goal]
        /\ goal = "analyse" => loc[p].job # "checkout"
  BY DEF LookUp, Goto
<1>3. /\ loc[p] \in Locals /\ loc \in [Procs -> Locals]
      /\ refs[loc[p].arg] \in CommitIds \cup {NoCommit}
  BY Parts, SharedParts DEF SharedInv, RefNames
<1>4. l \in Locals /\ loc' = [loc EXCEPT ![p] = l]
  BY <1>1, <1>3 DEF Locals
<1>5. l.theirs # NoCommit /\ l.job = loc[p].job
  BY <1>1, <1>3 DEF Locals
<1> HIDE DEF l
<1>6. Good(goal, l) /\ goal \in Calls
  BY <1>1, <1>2, <1>5 DEF Good, Calls
<1> QED
  BY <1>1, <1>2, <1>4, <1>6, Untouched, CallStep

LEMMA AnalyseStep ==
  ASSUME SharedInv, NEW p \in Procs, Analyse(p)
  PROVE  SharedInv'
<1>1. /\ loc[p] \in Locals /\ loc \in [Procs -> Locals] /\ Good("analyse", loc[p])
      /\ UNCHANGED vars
      /\ loc' = [loc EXCEPT ![p] = loc[p]]
  BY SharedParts DEF SharedInv, Analyse, At
<1>2. loc[p].job \in {"merge", "ff-only", "no-ff"} /\ loc[p].theirs # NoCommit
  BY <1>1 DEF Good
<1>3. \E goal \in {"merge", "ffhead"} :
        /\ pc' = [pc EXCEPT ![p] = goal]
        /\ loc[p].job = "no-ff" => goal = "merge"
  BY DEF Analyse, Goto
<1>4. PICK goal \in {"merge", "ffhead"} :
        /\ pc' = [pc EXCEPT ![p] = goal]
        /\ loc[p].job = "no-ff" => goal = "merge"
  BY <1>3
<1>5. Good(goal, loc[p]) /\ goal \in Calls
  BY <1>2, <1>4 DEF Good, Calls
<1> QED
  BY <1>1, <1>4, <1>5, Untouched, CallStep

LEMMA ReadTargetStep ==
  ASSUME SharedInv, NEW p \in Procs, ReadTarget(p)
  PROVE  SharedInv'
<1>1. /\ UNCHANGED vars /\ Tip # NoCommit
      /\ pc' = [pc EXCEPT ![p] = "files"]
      /\ Good("ffhead", loc[p])
      /\ ReadRef(p)
  BY SharedParts DEF ReadTarget, Born, Goto, At
<1>2. PICK l \in Locals :
        /\ loc' = [loc EXCEPT ![p] = l]
        /\ l.tip = Tip /\ l.job = loc[p].job /\ l.theirs = loc[p].theirs
  BY <1>1, ReadRefFacts
<1>3. Good("files", l) /\ "files" \in Calls
  BY <1>1, <1>2 DEF Good, Calls
<1> QED
  BY <1>1, <1>2, <1>3, Untouched, CallStep

LEMMA CheckOutTargetStep ==
  ASSUME SharedInv, NEW p \in Procs, CheckOutTarget(p)
  PROVE  SharedInv'
<1> DEFINE t == commits[loc[p].theirs].tree
<1>1. /\ Good("files", loc[p]) /\ loc[p] \in Locals /\ loc \in [Procs -> Locals]
      /\ loc[p].theirs \in CommitIds \cup {NoCommit}
      /\ Inv /\ OneMergeHead
  BY SharedParts DEF CheckOutTarget, At, SharedInv
<1>2. /\ index' = SafeCheckoutIndex(t) /\ workdir' = SafeCheckoutWorkdir(t)
      /\ pc' = [pc EXCEPT ![p] = "set"] /\ loc' = loc
      /\ UNCHANGED graph /\ UNCHANGED <<mergeHeads, stash>>
  BY DEF CheckOutTarget, Goto
<1>3. t \in Trees
  BY <1>1, CommitFields DEF Good
<1>4. index' \in IndexStates /\ workdir' \in Trees
  BY <1>1, <1>2, <1>3, Parts, OverlayTypes, TreesAreIndexes
  DEF SafeCheckoutIndex, SafeCheckoutWorkdir
<1>5. Inv' /\ OneMergeHead'
  BY <1>1, <1>2, <1>4, Parts, WorktreeStep DEF OneMergeHead
<1>6. CommitIds' = CommitIds
  BY <1>2, CommitIdsStay DEF graph
<1>7. Good("set", loc[p]) /\ "set" \in Calls
  BY <1>1 DEF Good, Calls
<1>8. loc' = [loc EXCEPT ![p] = loc[p]]
  BY <1>1, <1>2
<1> QED
  BY <1>1, <1>2, <1>5, <1>6, <1>7, <1>8, CallStep

(***************************************************************************)
(* The reference may have become another invocation's in between; but with *)
(* its target unchanged it is still there, also that of a detached HEAD.   *)
(***************************************************************************)
LEMMA SetTargetStep ==
  ASSUME SharedInv, NEW p \in Procs, SetTarget(p)
  PROVE  SharedInv'
<1>1. /\ Good("set", loc[p])
      /\ loc[p].theirs \in CommitIds \cup {NoCommit}
      /\ loc[p].ref \in RefNames
      /\ Inv /\ OneMergeHead
  BY SharedParts DEF SetTarget, At
<1>2. /\ refs[loc[p].ref] = loc[p].tip
      /\ refs' = [refs EXCEPT ![loc[p].ref] = loc[p].theirs]
      /\ Exit(p)
      /\ UNCHANGED <<commits, head, origin, index, workdir, mergeHeads, stash>>
  BY DEF SetTarget, worktree
<1>3. loc[p].theirs \in CommitIds /\ loc[p].theirs # NoCommit /\ loc[p].tip # NoCommit
  BY <1>1 DEF Good
<1>4. refs' \in [RefNames -> CommitIds \cup {NoCommit}]
  BY <1>1, <1>2, <1>3, Parts
<1>5. head' = Detached <=> refs'[Detached] # NoCommit
  BY <1>1, <1>2, <1>3, Parts DEF RefNames
<1>6. Inv'
  BY <1>1, <1>2, <1>4, <1>5, Parts, RefStep
<1>7. OneMergeHead' /\ CommitIds' = CommitIds
  BY <1>1, <1>2, CommitIdsStay DEF OneMergeHead
<1> QED
  BY <1>2, <1>6, <1>7, ExitStep

LEMMA CallMergeStep ==
  ASSUME SharedInv, NEW p \in Procs, CallMerge(p)
  PROVE  SharedInv'
<1> DEFINE c == loc[p].theirs
           m(base) == ThreeWay(base, HeadTree, commits[c].tree)
<1>1. /\ Good("merge", loc[p]) /\ loc[p] \in Locals /\ loc \in [Procs -> Locals]
      /\ c \in CommitIds \cup {NoCommit}
      /\ Inv /\ OneMergeHead
  BY SharedParts DEF CallMerge, At, SharedInv
<1>2. c \in CommitIds
  BY <1>1 DEF Good
<1>3. ASSUME Born, NEW base \in MergeBases(c), MergeWritten(c, m(base), TRUE),
             Exit(p) \/ (Goto(p, "head") /\ UNCHANGED loc)
      PROVE  SharedInv'
  <2>1. m(base) \in IndexStates
    BY <1>1, <1>2, <1>3, MergeResultType
  <2>2. Inv'
    BY <1>1, <1>2, <1>3, <2>1, MergeWrittenSound
  <2>3. mergeHeads' = <<c>> /\ UNCHANGED commits
    BY <1>3 DEF MergeWritten
  <2>4. OneMergeHead' /\ CommitIds' = CommitIds
    BY <2>3, CommitIdsStay DEF OneMergeHead
  <2>5. CASE Exit(p)
    BY <2>2, <2>4, <2>5, ExitStep
  <2>6. CASE Goto(p, "head") /\ UNCHANGED loc
    <3>1. /\ pc' = [pc EXCEPT ![p] = "head"]
          /\ loc' = [loc EXCEPT ![p] = loc[p]]
      BY <1>1, <2>6 DEF Goto
    <3>2. Good("head", loc[p]) /\ "head" \in Calls
      BY DEF Good, Calls
    <3> QED
      BY <1>1, <2>2, <2>4, <3>1, <3>2, CallStep
  <2> QED
    BY <1>3, <2>5, <2>6
<1>4. ASSUME MergeRefused, Exit(p)
      PROVE  SharedInv'
  <2>1. Inv'
    BY <1>1, <1>4, Parts, WorktreeStep DEF MergeRefused, worktree
  <2>2. OneMergeHead' /\ CommitIds' = CommitIds
    BY <1>4, CommitIdsStay, EmptySeq DEF MergeRefused, OneMergeHead, graph
  <2> QED
    BY <1>4, <2>1, <2>2, ExitStep
<1> QED
  BY <1>3, <1>4 DEF CallMerge

-----------------------------------------------------------------------------
(***************************************************************************)
(* branch and checkout.                                                    *)
(***************************************************************************)
LEMMA CreateRefStep ==
  ASSUME SharedInv, NEW p \in Procs, CreateRef(p)
  PROVE  SharedInv'
<1>1. /\ loc[p].arg \in Branches /\ loc[p].tip \in CommitIds \cup {NoCommit}
      /\ Inv /\ OneMergeHead
  BY SharedParts
<1>2. /\ loc[p].tip # NoCommit
      /\ refs' = [refs EXCEPT ![loc[p].arg] = loc[p].tip]
      /\ Exit(p)
      /\ UNCHANGED <<commits, head, origin, index, workdir, mergeHeads, stash>>
  BY DEF CreateRef, worktree
<1>3. /\ refs' \in [RefNames -> CommitIds \cup {NoCommit}]
      /\ head' = Detached <=> refs'[Detached] # NoCommit
  BY <1>1, <1>2, Parts DEF RefNames
<1>4. Inv'
  BY <1>1, <1>2, <1>3, Parts, RefStep
<1>5. OneMergeHead' /\ CommitIds' = CommitIds
  BY <1>1, <1>2, CommitIdsStay DEF OneMergeHead
<1> QED
  BY <1>2, <1>4, <1>5, ExitStep

LEMMA SetHeadStep ==
  ASSUME SharedInv, NEW p \in Procs, SetHead(p)
  PROVE  SharedInv'
<1>1. /\ Good("sethead", loc[p]) /\ loc[p] \in Locals /\ loc \in [Procs -> Locals]
      /\ loc[p].arg \in Branches
      /\ Inv /\ OneMergeHead
  BY SharedParts DEF SetHead, At, SharedInv
<1>2. /\ head' = loc[p].arg
      /\ refs' = [refs EXCEPT ![Detached] = NoCommit]
      /\ pc' = [pc EXCEPT ![p] = "force"] /\ loc' = loc
      /\ UNCHANGED <<commits, origin, index, workdir, mergeHeads, stash>>
  BY DEF SetHead, Goto, worktree
<1>3. /\ refs' \in [RefNames -> CommitIds \cup {NoCommit}]
      /\ head' = Detached <=> refs'[Detached] # NoCommit
      /\ head' \in RefNames
  BY <1>1, <1>2, Parts DEF RefNames
<1>4. Inv'
  BY <1>1, <1>2, <1>3, Parts, RefStep
<1>5. OneMergeHead' /\ CommitIds' = CommitIds
  BY <1>1, <1>2, CommitIdsStay DEF OneMergeHead
<1>6. Good("force", loc[p]) /\ "force" \in Calls
  BY <1>1 DEF Good, Calls
<1>7. loc' = [loc EXCEPT ![p] = loc[p]]
  BY <1>1, <1>2
<1> QED
  BY <1>1, <1>2, <1>4, <1>5, <1>6, <1>7, CallStep

LEMMA ForceHeadStep ==
  ASSUME SharedInv, NEW p \in Procs, ForceHead(p)
  PROVE  SharedInv'
<1>1. Inv /\ OneMergeHead
  BY DEF SharedInv
<1>2. /\ index' = HeadTree /\ workdir' = HeadTree /\ Exit(p)
      /\ UNCHANGED graph /\ UNCHANGED <<mergeHeads, stash>>
  BY DEF ForceHead, ForceCheckout
<1>3. Inv'
  BY <1>1, <1>2, HeadTreeType, TreesAreIndexes, Parts, WorktreeStep
<1>4. OneMergeHead' /\ CommitIds' = CommitIds
  BY <1>1, <1>2, CommitIdsStay DEF OneMergeHead, graph
<1> QED
  BY <1>2, <1>3, <1>4, ExitStep

-----------------------------------------------------------------------------
(***************************************************************************)
(* Beginnings, ends, and the user.                                         *)
(***************************************************************************)
LEMMA BeginSound ==
  ASSUME SharedInv, NEW p \in Procs, NEW job \in Jobs, NEW b \in Branches,
         Begin(p, job, b)
  PROVE  SharedInv'
<1> DEFINE l == [Unread EXCEPT !.job = job, !.arg = b]
<1>1. /\ UNCHANGED vars
      /\ loc' = [loc EXCEPT ![p] = l]
      /\ \E goal \in {"head", "lookup"} :
           /\ pc' = [pc EXCEPT ![p] = goal]
           /\ goal = "lookup" => job \notin {"commit", "amend", "branch"}
  BY DEF Begin, Goto
<1>2. PICK goal \in {"head", "lookup"} :
           /\ pc' = [pc EXCEPT ![p] = goal]
           /\ goal = "lookup" => job \notin {"commit", "amend", "branch"}
  BY <1>1
<1>3. l \in Locals /\ l.job = job
  BY UnreadFacts DEF Locals, Unread
<1> HIDE DEF l
<1>4. goal = "lookup" => job \in {"merge", "ff-only", "no-ff", "checkout"}
  BY <1>2, JobAssumption
<1>5. Good(goal, l) /\ goal \in Calls
  BY <1>2, <1>3, <1>4 DEF Good, Calls
<1> QED
  BY <1>1, <1>2, <1>3, <1>5, Untouched, CallStep

LEMMA EditSound ==
  ASSUME SharedInv, EditAndStage
  PROVE  SharedInv'
<1>1. Inv /\ OneMergeHead
  BY DEF SharedInv
<1>2. (UserStep \/ StageStep) /\ UNCHANGED <<pc, loc>> /\ mergeHeads' = mergeHeads
  BY DEF EditAndStage, StageStep, UserStep, Edit, Fetch, Add
<1>3. Inv'
  BY <1>1, <1>2, UserSound, StageSound
<1>4. CommitIds \subseteq CommitIds'
  <2>1. UNCHANGED commits \/ Len(commits') = Len(commits) + 1
    <3>1. ASSUME NEW p \in Paths, NEW f \in Files, Edit(p, f)
          PROVE  UNCHANGED commits
      BY <3>1 DEF Edit, graph
    <3>2. ASSUME NEW S, Add(S)
          PROVE  UNCHANGED commits
      BY <3>2 DEF Add, graph
    <3>3. ASSUME NEW b, NEW ps \in ParentChoices, NEW t \in Trees, Fetch(b, ps, t)
          PROVE  Len(commits') = Len(commits) + 1
      <4>1. <<>> \in Seq(CommitIds) /\ \A c \in CommitIds : <<c>> \in Seq(CommitIds)
        BY EmptySeq
      <4>2. ps \in Seq(CommitIds)
        BY <4>1 DEF ParentChoices
      <4> QED
        BY <1>1, <3>3, <4>2, StoreSound DEF Fetch
    <3> QED
      BY <3>1, <3>2, <3>3 DEF EditAndStage, UserStep
  <2>2. Len(commits) \in Nat
    BY <1>1, LenProperties DEF Inv, TypeOK
  <2> QED
    BY <2>1, <2>2, CommitIdsStay DEF CommitIds
<1>5. loc' \in [Procs -> Locals']
  BY <1>2, <1>4, LocalsGrow DEF SharedInv
<1> QED
  BY <1>1, <1>2, <1>3, <1>5 DEF SharedInv, OneMergeHead

LEMMA SharedNextSound ==
  ASSUME SharedInv, [NextAll]_allVars
  PROVE  SharedInv'
<1>1. ASSUME NEW p \in Procs, Call(p)
      PROVE  SharedInv'
  BY <1>1, ReadHeadStep, CountStep, FillStep, StatusStep, WriteStep, LookUpStep,
     AnalyseStep, ReadTargetStep, CheckOutTargetStep, SetTargetStep, CallMergeStep,
     CreateRefStep, SetHeadStep, ForceHeadStep DEF Call
<1>2. ASSUME NEW p \in Procs, Stop(p)
      PROVE  SharedInv'
  BY <1>2, Untouched, ExitStep DEF Stop
<1>3. CASE UNCHANGED allVars
  <2>1. UNCHANGED vars /\ UNCHANGED <<pc, loc>>
    BY <1>3 DEF allVars
  <2>2. Inv' /\ OneMergeHead' /\ CommitIds \subseteq CommitIds'
    BY <2>1, Untouched
  <2> QED
    BY <2>1, <2>2, LocalsGrow DEF SharedInv
<1>4. CASE NextAll
  BY <1>1, <1>2, <1>4, EditSound, BeginSound DEF NextAll
<1> QED
  BY <1>3, <1>4

LEMMA SharedInvHolds == AnyShared => []SharedInv
  BY StartSound, SharedNextSound, PTL DEF AnyShared

(***************************************************************************)
(* Whatever runs at the same time and wherever an invocation dies, HEAD,   *)
(* the branches, MERGE_HEAD and what the invocations have read name stored *)
(* commits, and the parents of a commit about to be written are complete.  *)
(***************************************************************************)
THEOREM SharingIsSound == AnyShared => []SharedRepositorySound
<1>1. SharedInv => SharedRepositorySound
  <2> SUFFICES ASSUME SharedInv
               PROVE  LocalsOK /\ RepositorySound
    BY DEF SharedRepositorySound
  <2>1. ASSUME NEW p \in Procs
        PROVE  /\ loc[p].arg \in Branches /\ loc[p].ref \in RefNames
               /\ {loc[p].tip, loc[p].theirs} \subseteq CommitIds \cup {NoCommit}
               /\ loc[p].heads \in Seq(CommitIds)
               /\ pc[p] \in {"status", "write"} => Len(loc[p].heads) = loc[p].count
               /\ loc[p].tree \in IndexStates
    BY SharedParts DEF Good
  <2> QED
    BY <2>1 DEF LocalsOK, SharedInv, Inv
<1> QED
  BY <1>1, SharedInvHolds, PTL

-----------------------------------------------------------------------------
(***************************************************************************)
(* The branches obey BranchHistory as long as nothing fast-forwards: the   *)
(* jobs that do lose commits, as the run of MergeJoins shows.              *)
(***************************************************************************)
Heads == [b \in Branches |-> refs[b]]

LEMMA HistoryStart ==
  ASSUME AnyStart
  PROVE  H!Init
<1>1. Inv /\ Len(commits) \in Nat
  BY LenProperties DEF AnyStart, Inv, TypeOK
<1>2. \A b \in Branches : refs[b] \in CommitIds \cup {NoCommit}
  BY <1>1, Parts DEF RefNames
<1> QED
  BY <1>1, <1>2 DEF H!Init, CommitIds, NoCommit

LEMMA HistoryStutters ==
  ASSUME UNCHANGED commits, \A b \in Branches : refs'[b] = refs[b]
  PROVE  UNCHANGED H!vars
  BY DEF H!vars

\* A commit is stored behind the ones there are.
LEMMA StoreRecords ==
  ASSUME Inv, NEW ps \in Seq(CommitIds), NEW t \in Trees,
         StoreCommit(NewCommit(ps, t))
  PROVE  H!Recorded /\ H!Commit = NewCommit(ps, t)
<1> DEFINE n == Len(commits)
           R == CommitRecords(MaxCommits)
<1>1. /\ commits \in Seq(R) /\ commits' \in Seq(R) /\ n \in Nat
      /\ Len(commits') = n + 1
      /\ commits'[n + 1] = NewCommit(ps, t)
      /\ \A c \in 1..n : commits'[c] = commits[c]
  BY StoreSound, LenProperties DEF Inv, TypeOK, CommitIds
<1>2. \A i \in 1..n : commits'[i] \in R
  BY <1>1, ElementOfSeq
<1>3. /\ SubSeq(commits', 1, n) \in Seq(R)
      /\ Len(SubSeq(commits', 1, n)) = IF 1 <= n THEN n - 1 + 1 ELSE 0
      /\ \A i \in 1..n - 1 + 1 : SubSeq(commits', 1, n)[i] = commits'[1 + i - 1]
  BY <1>1, <1>2, SubSeqProperties
<1>4. Len(SubSeq(commits', 1, n)) = n /\ \A i \in 1..n : SubSeq(commits', 1, n)[i] = commits[i]
  BY <1>1, <1>3
<1>5. SubSeq(commits', 1, n) = commits
  BY <1>1, <1>3, <1>4, SeqEqual
<1> QED
  BY <1>1, <1>5 DEF H!Recorded, H!Commit

LEMMA WriteExtends ==
  ASSUME SharedInv, NEW p \in Procs, WriteCommit(p)
  PROVE  H!Next
<1>1. PICK ps \in Seq(CommitIds), t \in Trees :
           /\ CommitOnHead(NewCommit(ps, t))
           /\ IF loc[p].job = "amend"
                THEN Tip # NoCommit /\ ps = commits[Tip].parents
                ELSE ps = Given(loc[p])
           /\ Tip = loc[p].tip
  BY WriteFacts
<1>2. /\ H!Recorded /\ H!Commit = NewCommit(ps, t)
      /\ refs' = [refs EXCEPT ![head] = Len(commits) + 1]
      /\ Len(commits') = Len(commits) + 1
  BY <1>1, StoreRecords, StoreSound DEF CommitOnHead, SharedInv
<1>3. refs \in [RefNames -> CommitIds \cup {NoCommit}] /\ head \in RefNames
  BY Parts DEF SharedInv
<1>4. CASE head \notin Branches
  <2>1. Heads' = Heads
    BY <1>2, <1>3, <1>4 DEF Heads
  <2> QED
    BY <1>2, <2>1 DEF H!Next, Heads
<1>5. ASSUME NEW b \in Branches, head = b
      PROVE  H!Next
  <2>1. H!Point(b, Len(commits'))
    BY <1>2, <1>3, <1>5 DEF H!Point, RefNames
  <2>2. Heads[b] = Tip
    BY <1>5 DEF Heads, Tip
  <2>3. CASE loc[p].job = "amend"
    <3>1. H!Commit.parents = commits[Tip].parents /\ Tip # 0
      BY <1>1, <1>2, <2>3 DEF NewCommit, NoCommit
    <3>2. H!Amend(b)
      BY <1>2, <2>1, <2>2, <3>1 DEF H!Amend, Heads
    <3> QED
      BY <1>5, <3>2 DEF H!Next
  <2>4. CASE loc[p].job # "amend"
    <3>1. Tip # NoCommit => Tip \in Range(ps)
      BY <1>1, <2>4, GivenFacts DEF WriteCommit, At
    <3>2. Tip \in H!Commit.below \cup {0}
      BY <1>2, <3>1 DEF NewCommit, HistoryOf, History, NoCommit
    <3>3. H!Extend(b)
      BY <1>2, <2>1, <2>2, <3>2 DEF H!Extend, Heads
    <3> QED
      BY <1>5, <3>3 DEF H!Next
  <2> QED
    BY <2>3, <2>4
<1> QED
  BY <1>4, <1>5

LEMMA CreationAdvances ==
  ASSUME SharedInv, NEW p \in Procs, CreateRef(p)
  PROVE  H!Next
<1>1. PICK b \in Branches, c \in 1..Len(commits) :
      /\ b = loc[p].arg /\ c = loc[p].tip
      /\ refs[b] = NoCommit /\ refs' = [refs EXCEPT ![b] = c]
      /\ UNCHANGED commits
      /\ refs \in [RefNames -> CommitIds \cup {NoCommit}]
  BY SharedParts, Parts DEF CreateRef, CommitIds, SharedInv
<1>2. Heads[b] = 0 /\ Heads' = [Heads EXCEPT ![b] = c]
  BY <1>1 DEF Heads, RefNames, NoCommit
<1>3. H!Advance(b, c)
  BY <1>1, <1>2 DEF H!Advance, H!Point, Heads
<1> QED
  BY <1>1, <1>3 DEF H!Next

LEMMA HistorySteps ==
  ASSUME SharedInv, [NextAll]_allVars, Jobs \cap FastForwards = {}
  PROVE  [H!Next]_(H!vars)
<1>1. ASSUME NEW p \in Procs, Call(p)
      PROVE  [H!Next]_(H!vars)
  <2>1. pc[p] \notin {"ffhead", "files", "set"}
    BY SharedParts DEF Good, FastForwards
  <2>2. CASE WriteCommit(p) \/ CreateRef(p)
    BY <2>2, WriteExtends, CreationAdvances
  <2>3. CASE CallMerge(p)
    <3>1. UNCHANGED commits /\ UNCHANGED refs
      BY <2>3 DEF CallMerge, MergeWritten, MergeRefused, graph
    <3> QED
      BY <3>1, HistoryStutters
  <2>4. CASE SetHead(p)
    <3>1. UNCHANGED commits /\ \A b \in Branches : refs'[b] = refs[b]
      BY <2>4, Parts DEF SetHead, SharedInv
    <3> QED
      BY <3>1, HistoryStutters
  <2>5. CASE ForceHead(p)
    BY <2>5, HistoryStutters DEF ForceHead, graph
  <2>6. CASE \/ ReadHead(p) \/ CountMergeHeads(p) \/ ReadMergeHeads(p)
             \/ ReadStatus(p) \/ LookUp(p) \/ Analyse(p)
    <3>1. UNCHANGED vars
      BY <2>6 DEF ReadHead, CountMergeHeads, ReadMergeHeads, ReadStatus, LookUp, Analyse
    <3> QED
      BY <3>1, HistoryStutters DEF vars
  <2> QED
    BY <1>1, <2>1, <2>2, <2>3, <2>4, <2>5, <2>6
    DEF Call, ReadTarget, CheckOutTarget, SetTarget, At
<1>2. CASE EditAndStage
  <2>1. ASSUME NEW b, NEW ps \in ParentChoices, NEW t \in Trees, Fetch(b, ps, t)
        PROVE  H!Next
    <3>1. <<>> \in Seq(CommitIds) /\ \A c \in CommitIds : <<c>> \in Seq(CommitIds)
      BY EmptySeq
    <3>2. ps \in Seq(CommitIds)
      BY <3>1 DEF ParentChoices
    <3>3. StoreCommit(NewCommit(ps, t)) /\ UNCHANGED refs
      BY <2>1 DEF Fetch
    <3>4. H!Recorded
      BY <3>2, <3>3, StoreRecords DEF SharedInv
    <3> QED
      BY <3>3, <3>4 DEF H!Next
  <2>2. ASSUME NEW p \in Paths, NEW f \in Files, Edit(p, f)
        PROVE  UNCHANGED H!vars
    BY <2>2, HistoryStutters DEF Edit, graph
  <2>3. ASSUME NEW S \in PathSelections, Add(S)
        PROVE  UNCHANGED H!vars
    BY <2>3, HistoryStutters DEF Add, graph
  <2> QED
    BY <1>2, <2>1, <2>2, <2>3 DEF EditAndStage, UserStep
<1>3. ASSUME UNCHANGED vars
      PROVE  UNCHANGED H!vars
  BY <1>3, HistoryStutters DEF vars
<1> QED
  BY <1>1, <1>2, <1>3 DEF NextAll, Begin, Stop, allVars

(***************************************************************************)
(* Invocations that commit, amend, merge, branch and check out at the same *)
(* time, and die anywhere, keep what each of them has committed: together  *)
(* they implement BranchHistory.                                           *)
(***************************************************************************)
THEOREM HistoryIsKept ==
  ASSUME Jobs \cap FastForwards = {}
  PROVE  AnyShared => HistoryKept
<1>1. AnyStart => H!Init
  BY HistoryStart
<1>2. SharedInv /\ [NextAll]_allVars => [H!Next]_(H!vars)
  BY HistorySteps
<1> QED
  BY <1>1, <1>2, SharedInvHolds, PTL DEF AnyShared, HistoryKept, H!Spec

-----------------------------------------------------------------------------
(***************************************************************************)
(* A lone invocation.  What it has read is what the repository still has,  *)
(* and what it has tested still holds, until its first write.              *)
(***************************************************************************)
Solo == \A p, q \in Running : p = q
Fresh(goal, l) ==
  /\ goal \in {"count", "heads", "status", "write", "create", "files", "set"}
       => l.tip = Tip
  /\ goal \in {"files", "set"} => l.ref = head
  /\ goal \in {"heads", "status", "write"} =>
       /\ l.count = Len(mergeHeads)
       /\ mergeHeads # <<>> => Born
  /\ goal \in {"status", "write"} => l.heads = mergeHeads
  /\ goal = "write" =>
       /\ l.tree = index
       /\ HasStatus(index, workdir) \/ l.job \in {"commit", "amend"}
  /\ goal \in {"analyse", "ffhead", "files", "merge", "sethead"}
       => l.theirs = refs[l.arg]
  /\ goal \in {"ffhead", "files"} => CanFastForward(l.theirs)
  /\ goal = "merge" /\ CanFastForward(l.theirs) => l.job = "no-ff"
AloneInv ==
  /\ SharedInv /\ Solo
  /\ \A p \in Procs : Fresh(pc[p], loc[p])

LEMMA AloneStart == AnyStart => AloneInv
  BY StartSound DEF AnyStart, AloneInv, Solo, Running, Fresh

LEMMA RunningCalls ==
  ASSUME SharedInv, NEW p \in Procs, Call(p)
  PROVE  p \in Running
  BY DEF Call, ReadHead, CountMergeHeads, ReadMergeHeads, ReadStatus, WriteCommit,
     LookUp, Analyse, ReadTarget, CheckOutTarget, SetTarget, CallMerge, CreateRef,
     SetHead, ForceHead, At, Running

\* What a step of the one that runs has to establish.
LEMMA AloneStep ==
  ASSUME AloneInv, SharedInv', NEW p \in Procs,
         p \in Running \/ Running = {},
         NEW goal, NEW l,
         pc' = [pc EXCEPT ![p] = goal],
         loc' = [loc EXCEPT ![p] = l],
         Fresh(goal, l)'
  PROVE  AloneInv'
<1>1. pc \in [Procs -> Calls] /\ loc \in [Procs -> Locals] /\ Solo
  BY DEF AloneInv, SharedInv
<1>2. ASSUME NEW q \in Procs, q # p
      PROVE  pc'[q] = pc[q] /\ pc[q] \in {"idle", "done"}
  BY <1>1, <1>2 DEF Solo, Running
<1>3. Solo'
  BY <1>2 DEF Solo, Running
<1>4. ASSUME NEW q \in Procs
      PROVE  Fresh(pc[q], loc[q])'
  <2>1. CASE q = p
    BY <1>1, <2>1
  <2>2. CASE q # p
    BY <1>2, <2>2 DEF Fresh
  <2> QED
    BY <2>1, <2>2
<1> QED
  BY <1>3, <1>4 DEF AloneInv

\* Steps that only read.
LEMMA AloneRead ==
  ASSUME AloneInv, SharedInv', NEW p \in Procs,
         p \in Running \/ Running = {},
         UNCHANGED vars,
         NEW goal, NEW l,
         pc' = [pc EXCEPT ![p] = goal],
         loc' = [loc EXCEPT ![p] = l],
         Fresh(goal, l)
  PROVE  AloneInv'
<1>1. /\ Tip' = Tip /\ (Born' <=> Born) /\ UNCHANGED <<head, mergeHeads, index, workdir, refs>>
      /\ UNCHANGED commits
  BY DEF vars, Tip, Born
<1>2. /\ HasStatus(index, workdir)' <=> HasStatus(index, workdir)
      /\ CanFastForward(l.theirs)' <=> CanFastForward(l.theirs)
  BY <1>1 DEF HasStatus, HeadTree, CanFastForward, History
<1>3. Fresh(goal, l)'
  BY <1>1, <1>2 DEF Fresh
<1> QED
  BY <1>3, AloneStep

LEMMA AloneExit ==
  ASSUME AloneInv, SharedInv', NEW p \in Procs, p \in Running, Exit(p)
  PROVE  AloneInv'
<1>1. Fresh("done", Unread)'
  BY DEF Fresh
<1> QED
  BY <1>1, AloneStep DEF Exit

LEMMA AloneReads ==
  ASSUME AloneInv, SharedInv', NEW p \in Procs, p \in Running,
         \/ ReadHead(p) \/ CountMergeHeads(p) \/ ReadMergeHeads(p)
         \/ ReadStatus(p) \/ LookUp(p) \/ Analyse(p) \/ ReadTarget(p)
  PROVE  AloneInv'
<1>1. /\ pc \in [Procs -> Calls] /\ loc \in [Procs -> Locals]
      /\ loc[p] \in Locals /\ loc[p].heads \in Seq(CommitIds)
      /\ Fresh(pc[p], loc[p]) /\ Good(pc[p], loc[p])
      /\ mergeHeads \in Seq(CommitIds)
  BY SharedParts, Parts DEF AloneInv, SharedInv
<1>2. CASE ReadHead(p)
  <2>1. UNCHANGED vars /\ ReadRef(p)
        /\ \E goal \in {"create", "count"} : pc' = [pc EXCEPT ![p] = goal]
    BY <1>2 DEF ReadHead, Goto
  <2>2. PICK l \in Locals : loc' = [loc EXCEPT ![p] = l] /\ l.tip = Tip
    BY <2>1, ReadRefFacts DEF AloneInv
  <2>3. PICK goal \in {"create", "count"} : pc' = [pc EXCEPT ![p] = goal]
    BY <2>1
  <2>4. Fresh(goal, l)
    BY <2>2 DEF Fresh
  <2> QED
    BY <2>1, <2>2, <2>3, <2>4, AloneRead
<1>3. CASE CountMergeHeads(p)
  <2> DEFINE l == [loc[p] EXCEPT !.count = Len(mergeHeads)]
  <2>1. /\ UNCHANGED vars /\ pc' = [pc EXCEPT ![p] = "heads"]
        /\ loc' = [loc EXCEPT ![p].count = Len(mergeHeads)]
        /\ mergeHeads # <<>> => loc[p].tip # NoCommit
        /\ loc[p].tip = Tip
    BY <1>1, <1>3 DEF CountMergeHeads, Goto, Read, At, Fresh
  <2>2. loc' = [loc EXCEPT ![p] = l]
    BY <1>1, <2>1
  <2>3. l.count = Len(mergeHeads) /\ l.tip = loc[p].tip
    BY <1>1 DEF Locals
  <2> HIDE DEF l
  <2>4. Fresh("heads", l)
    BY <2>1, <2>3 DEF Fresh, Born
  <2> QED
    BY <2>1, <2>2, <2>4, AloneRead
<1>4. CASE ReadMergeHeads(p)
  <2> DEFINE mh == IF loc[p].count > 0 THEN mergeHeads ELSE <<>>
             l == [loc[p] EXCEPT !.heads = mh]
  <2>1. /\ UNCHANGED vars /\ pc' = [pc EXCEPT ![p] = "status"]
        /\ loc' = [loc EXCEPT ![p].heads = mh]
        /\ loc[p].count = Len(mergeHeads) /\ loc[p].tip = Tip
        /\ mergeHeads # <<>> => Born
    BY <1>1, <1>4 DEF ReadMergeHeads, Goto, Read, At, Fresh
  <2>2. mh = mergeHeads
    <3>1. mergeHeads # <<>> => Len(mergeHeads) \in Nat \ {0}
      BY <1>1, EmptySeq
    <3>2. \A n \in Nat \ {0} : n > 0
      OBVIOUS
    <3> QED
      BY <2>1, <3>1, <3>2
  <2>3. loc' = [loc EXCEPT ![p] = l]
    BY <1>1, <2>1
  <2>4. l.count = loc[p].count /\ l.tip = loc[p].tip /\ l.heads = mergeHeads
    BY <1>1, <2>2 DEF Locals
  <2> HIDE DEF l
  <2>5. Fresh("status", l)
    BY <2>1, <2>4 DEF Fresh
  <2> QED
    BY <2>1, <2>3, <2>5, AloneRead
<1>5. CASE ReadStatus(p)
  <2> DEFINE l == [loc[p] EXCEPT !.tree = index]
  <2>1. /\ UNCHANGED vars /\ pc' = [pc EXCEPT ![p] = "write"]
        /\ loc' = [loc EXCEPT ![p].tree = index]
        /\ HasStatus(index, workdir) \/ loc[p].job \in {"commit", "amend"}
        /\ Fresh("status", loc[p])
    BY <1>1, <1>5 DEF ReadStatus, Goto, Read, At
  <2>2. loc' = [loc EXCEPT ![p] = l]
    BY <1>1, <2>1
  <2>3. /\ l.count = loc[p].count /\ l.tip = loc[p].tip /\ l.heads = loc[p].heads
        /\ l.tree = index /\ l.job = loc[p].job
    BY <1>1 DEF Locals
  <2> HIDE DEF l
  <2>4. Fresh("write", l)
    BY <2>1, <2>3 DEF Fresh
  <2> QED
    BY <2>1, <2>2, <2>4, AloneRead
<1>6. CASE LookUp(p)
  <2> DEFINE l == [loc[p] EXCEPT !.theirs = refs[loc[p].arg]]
  <2>1. /\ UNCHANGED vars
        /\ \E goal \in {"sethead", "analyse"} : pc' = [pc EXCEPT ![p] = goal]
        /\ loc' = [loc EXCEPT ![p].theirs = refs[loc[p].arg]]
    BY <1>6 DEF LookUp, Goto, Read
  <2>2. loc' = [loc EXCEPT ![p] = l]
    BY <1>1, <2>1
  <2>3. l.theirs = refs[l.arg]
    BY <1>1 DEF Locals
  <2> HIDE DEF l
  <2>4. PICK goal \in {"sethead", "analyse"} : pc' = [pc EXCEPT ![p] = goal]
    BY <2>1
  <2>5. Fresh(goal, l)
    BY <2>3 DEF Fresh
  <2> QED
    BY <2>1, <2>2, <2>4, <2>5, AloneRead
<1>7. CASE Analyse(p)
  <2>1. /\ UNCHANGED vars /\ loc' = [loc EXCEPT ![p] = loc[p]]
        /\ Fresh("analyse", loc[p])
    BY <1>1, <1>7 DEF Analyse, At
  <2>2. \E goal \in {"merge", "ffhead"} :
          /\ pc' = [pc EXCEPT ![p] = goal]
          /\ goal = "ffhead" => CanFastForward(loc[p].theirs)
          /\ goal = "merge" /\ CanFastForward(loc[p].theirs) => loc[p].job = "no-ff"
    BY <1>7 DEF Analyse, Goto
  <2>3. PICK goal \in {"merge", "ffhead"} :
          /\ pc' = [pc EXCEPT ![p] = goal]
          /\ goal = "ffhead" => CanFastForward(loc[p].theirs)
          /\ goal = "merge" /\ CanFastForward(loc[p].theirs) => loc[p].job = "no-ff"
    BY <2>2
  <2>4. Fresh(goal, loc[p])
    BY <2>1, <2>3 DEF Fresh
  <2> QED
    BY <2>1, <2>3, <2>4, AloneRead
<1>8. CASE ReadTarget(p)
  <2> DEFINE l == [loc[p] EXCEPT !.ref = head, !.tip = Tip]
  <2>1. /\ UNCHANGED vars /\ pc' = [pc EXCEPT ![p] = "files"]
        /\ loc' = [loc EXCEPT ![p].ref = head, ![p].tip = Tip]
        /\ Fresh("ffhead", loc[p])
    BY <1>1, <1>8 DEF ReadTarget, ReadRef, Goto, At
  <2>2. loc' = [loc EXCEPT ![p] = l]
    BY <1>1, <2>1
  <2>3. /\ l.tip = Tip /\ l.ref = head
        /\ l.theirs = loc[p].theirs /\ l.arg = loc[p].arg
    BY <1>1 DEF Locals
  <2> HIDE DEF l
  <2>4. Fresh("files", l)
    BY <2>1, <2>3 DEF Fresh
  <2> QED
    BY <2>1, <2>2, <2>4, AloneRead
<1> QED
  BY <1>2, <1>3, <1>4, <1>5, <1>6, <1>7, <1>8

LEMMA AloneWrites ==
  ASSUME AloneInv, SharedInv', NEW p \in Procs, p \in Running,
         \/ WriteCommit(p) \/ CheckOutTarget(p) \/ SetTarget(p) \/ CallMerge(p)
         \/ CreateRef(p) \/ SetHead(p) \/ ForceHead(p)
  PROVE  AloneInv'
<1>1. /\ loc \in [Procs -> Locals] /\ Fresh(pc[p], loc[p])
  BY DEF AloneInv, SharedInv
<1>2. CASE Exit(p)
  BY <1>2, AloneExit
<1>3. CASE CheckOutTarget(p)
  <2>1. /\ pc' = [pc EXCEPT ![p] = "set"] /\ loc' = [loc EXCEPT ![p] = loc[p]]
        /\ Fresh("files", loc[p])
        /\ UNCHANGED <<refs, head>>
    BY <1>1, <1>3 DEF CheckOutTarget, Goto, At, graph
  <2>2. Fresh("set", loc[p])'
    BY <2>1 DEF Fresh, Tip
  <2> QED
    BY <2>1, <2>2, AloneStep
<1>4. CASE CallMerge(p) /\ ~Exit(p)
  <2>1. pc' = [pc EXCEPT ![p] = "head"] /\ loc' = [loc EXCEPT ![p] = loc[p]]
    BY <1>1, <1>4 DEF CallMerge, Goto
  <2>2. Fresh("head", loc[p])'
    BY DEF Fresh
  <2> QED
    BY <2>1, <2>2, AloneStep
<1>5. CASE SetHead(p)
  <2>1. pc' = [pc EXCEPT ![p] = "force"] /\ loc' = [loc EXCEPT ![p] = loc[p]]
    BY <1>1, <1>5 DEF SetHead, Goto
  <2>2. Fresh("force", loc[p])'
    BY DEF Fresh
  <2> QED
    BY <2>1, <2>2, AloneStep
<1> QED
  BY <1>2, <1>3, <1>4, <1>5 DEF WriteCommit, SetTarget, CreateRef, ForceHead

LEMMA AloneNext ==
  ASSUME AloneInv, [NextAll]_allVars, alone
  PROVE  AloneInv'
<1>1. SharedInv /\ SharedInv'
  BY SharedNextSound DEF AloneInv
<1>2. ASSUME NEW p \in Procs, Call(p)
      PROVE  AloneInv'
  BY <1>1, <1>2, RunningCalls, AloneReads, AloneWrites DEF Call
<1>3. ASSUME NEW p \in Procs, Stop(p)
      PROVE  AloneInv'
  BY <1>1, <1>3, AloneExit DEF Stop
<1>4. ASSUME NEW p \in Procs, NEW job \in Jobs, NEW b \in Branches, Begin(p, job, b)
      PROVE  AloneInv'
  <2>1. /\ Running = {} /\ UNCHANGED vars
        /\ loc' = [loc EXCEPT ![p] = [Unread EXCEPT !.job = job, !.arg = b]]
        /\ \E goal \in {"head", "lookup"} : pc' = [pc EXCEPT ![p] = goal]
    BY <1>4 DEF Begin, Goto
  <2>2. PICK goal \in {"head", "lookup"} : pc' = [pc EXCEPT ![p] = goal]
    BY <2>1
  <2>3. Fresh(goal, [Unread EXCEPT !.job = job, !.arg = b])
    BY DEF Fresh
  <2> QED
    BY <1>1, <2>1, <2>2, <2>3, AloneRead
<1>5. CASE EditAndStage
  <2>1. Running = {} /\ pc' = pc /\ loc' = loc
    BY <1>5 DEF EditAndStage
  <2>2. \A p \in Procs : pc[p] \in {"idle", "done"}
    BY <2>1 DEF Running
  <2>3. Running' = {}
    BY <2>1, <2>2 DEF Running
  <2> QED
    BY <1>1, <2>1, <2>2, <2>3 DEF AloneInv, Solo, Fresh
<1>6. CASE UNCHANGED allVars
  <2>1. UNCHANGED vars /\ pc' = pc /\ loc' = loc
    BY <1>6 DEF allVars
  <2>2. Running' = Running
    BY <2>1 DEF Running
  <2>3. /\ Tip' = Tip /\ (Born' <=> Born)
        /\ UNCHANGED <<head, mergeHeads, index, workdir, refs, commits>>
    BY <2>1 DEF vars, Tip, Born
  <2>4. /\ HasStatus(index, workdir)' <=> HasStatus(index, workdir)
        /\ \A c : CanFastForward(c)' <=> CanFastForward(c)
    BY <2>3 DEF HasStatus, HeadTree, CanFastForward, History
  <2>5. ASSUME NEW p \in Procs
        PROVE  Fresh(pc[p], loc[p])'
    BY <2>1, <2>3, <2>4 DEF AloneInv, Fresh
  <2> QED
    BY <1>1, <2>2, <2>5 DEF AloneInv, Solo
<1> QED
  BY <1>2, <1>3, <1>4, <1>5, <1>6 DEF NextAll

-----------------------------------------------------------------------------
(***************************************************************************)
(* The repository as it is going to be.  Outside of the two writes of a    *)
(* fast-forward or a checkout it is the repository as it is, and Porcelain *)
(* says the same of both.                                                  *)
(***************************************************************************)
Settled == DueRefs = refs /\ DueIndex = index /\ DueWorkdir = workdir

LEMMA Settles ==
  ASSUME AloneInv, Between("set") = {}, Between("force") = {}
  PROVE  Settled
<1>1. refs \in [RefNames -> CommitIds \cup {NoCommit}]
  BY Parts DEF AloneInv, SharedInv
<1> QED
  BY <1>1 DEF Settled, DueRefs, DueIndex, DueWorkdir

LEMMA SettlesNext ==
  ASSUME AloneInv', Between("set")' = {}, Between("force")' = {}
  PROVE  Settled'
<1>1. Inv'
  BY DEF AloneInv, SharedInv
<1>2. refs' \in [RefNames -> CommitIds' \cup {NoCommit}]
  BY <1>1 DEF Inv, TypeOK, RepositorySound, NothingDangles
<1> QED
  BY <1>2 DEF Settled, DueRefs, DueIndex, DueWorkdir

LEMMA SameTip ==
  ASSUME Settled
  PROVE  /\ OneStep!Tip = Tip /\ (OneStep!Born <=> Born) /\ OneStep!HeadTree = HeadTree
         /\ OneStep!EmptyTree = EmptyTree
         /\ \A idx, wd : OneStep!HasStatus(idx, wd) <=> HasStatus(idx, wd)
         /\ \A idx : OneStep!HasConflicts(idx) <=> HasConflicts(idx)
         /\ \A t : OneStep!Updated(t) = Updated(t)
         /\ \A c : OneStep!CanFastForward(c) <=> CanFastForward(c)
<1>1. /\ OneStep!Tip = Tip /\ OneStep!EmptyTree = EmptyTree
      /\ (OneStep!Born <=> Born)
  BY DEF Settled, OneStep!Tip, Tip, OneStep!Born, Born, OneStep!NoCommit, NoCommit,
         OneStep!EmptyTree, EmptyTree
<1>2. OneStep!HeadTree = HeadTree
  BY <1>1 DEF OneStep!HeadTree, HeadTree
<1>3. \A idx, wd : OneStep!HasStatus(idx, wd) <=> HasStatus(idx, wd)
  BY <1>2 DEF OneStep!HasStatus, HasStatus
<1>4. \A idx : OneStep!HasConflicts(idx) <=> HasConflicts(idx)
  BY DEF OneStep!HasConflicts, HasConflicts
<1>5. \A t : OneStep!Updated(t) = Updated(t)
  BY <1>2 DEF OneStep!Updated, Updated
<1>6. \A c : OneStep!CanFastForward(c) <=> CanFastForward(c)
  BY <1>1 DEF OneStep!CanFastForward, CanFastForward, OneStep!History, History
<1> QED
  BY <1>1, <1>2, <1>3, <1>4, <1>5, <1>6

LEMMA SameData ==
  /\ \A f, g, S : OneStep!Overlay(f, g, S) = Overlay(f, g, S)
  /\ \A b, o, t : OneStep!ThreeWay(b, o, t) = ThreeWay(b, o, t)
  /\ \A c : OneStep!History(c) = History(c)
  /\ \A ps, t : OneStep!NewCommit(ps, t) = NewCommit(ps, t)
<1>1. \A f, g, S : OneStep!Overlay(f, g, S) = Overlay(f, g, S)
  BY DEF OneStep!Overlay, Overlay
<1>2. \A b, o, t : OneStep!ThreeWay(b, o, t) = ThreeWay(b, o, t)
  BY DEF OneStep!ThreeWay, ThreeWay
<1>3. \A c : OneStep!History(c) = History(c)
  BY DEF OneStep!History, History
<1>4. \A ps, t : OneStep!NewCommit(ps, t) = NewCommit(ps, t)
  BY <1>3 DEF OneStep!NewCommit, NewCommit, OneStep!HistoryOf, HistoryOf, OneStep!Range, Range
<1> QED
  BY <1>1, <1>2, <1>3, <1>4

LEMMA SameCalls ==
  ASSUME Settled
  PROVE  /\ \A t : OneStep!SafeCheckoutPossible(t) <=> SafeCheckoutPossible(t)
         /\ \A t : OneStep!SafeCheckoutIndex(t) = SafeCheckoutIndex(t)
         /\ \A t : OneStep!SafeCheckoutWorkdir(t) = SafeCheckoutWorkdir(t)
         /\ \A m : OneStep!ResultFits(m) <=> ResultFits(m)
         /\ \A m : OneStep!ResultIndex(m) = ResultIndex(m)
         /\ \A m : OneStep!ResultWorkdir(m) = ResultWorkdir(m)
         /\ \A c : OneStep!MergeBases(c) = MergeBases(c)
<1>1. /\ DueIndex = index /\ DueWorkdir = workdir
  BY DEF Settled
<1>2. \A t : OneStep!SafeCheckoutPossible(t) <=> SafeCheckoutPossible(t)
  BY <1>1, SameTip DEF OneStep!SafeCheckoutPossible, SafeCheckoutPossible
<1>3. /\ \A t : OneStep!SafeCheckoutIndex(t) = SafeCheckoutIndex(t)
      /\ \A t : OneStep!SafeCheckoutWorkdir(t) = SafeCheckoutWorkdir(t)
  BY <1>1, SameTip, SameData DEF OneStep!SafeCheckoutIndex, SafeCheckoutIndex,
     OneStep!SafeCheckoutWorkdir, SafeCheckoutWorkdir
<1>4. \A m : OneStep!ResultFits(m) <=> ResultFits(m)
  BY <1>1, SameTip DEF OneStep!ResultFits, ResultFits
<1>5. /\ \A m : OneStep!ResultIndex(m) = ResultIndex(m)
      /\ \A m : OneStep!ResultWorkdir(m) = ResultWorkdir(m)
  BY <1>1, SameTip, SameData DEF OneStep!ResultIndex, ResultIndex,
     OneStep!ResultWorkdir, ResultWorkdir
<1>6. \A c : OneStep!MergeBases(c) = MergeBases(c)
  BY SameTip, SameData DEF OneStep!MergeBases, MergeBases
<1> QED
  BY <1>2, <1>3, <1>4, <1>5, <1>6

\* Where the one that runs is between its writes, or is not.
LEMMA NotBetween ==
  ASSUME AloneInv, NEW p \in Procs, p \in Running, pc[p] \notin {"set", "force"}
  PROVE  Settled
<1>1. Between("set") = {} /\ Between("force") = {}
  BY DEF AloneInv, SharedInv, Solo, Running, Between, At
<1> QED
  BY <1>1, Settles

LEMMA NotBetweenNext ==
  ASSUME AloneInv, AloneInv', NEW p \in Procs, p \in Running,
         NEW goal \in Calls \ {"set", "force"}, pc' = [pc EXCEPT ![p] = goal]
  PROVE  Settled'
<1>1. pc \in [Procs -> Calls] /\ Solo
  BY DEF AloneInv, SharedInv
<1>2. \A q \in Procs : pc'[q] \notin {"set", "force"}
  BY <1>1 DEF Solo, Running
<1>3. Between("set")' = {} /\ Between("force")' = {}
  BY <1>2 DEF Between, At
<1> QED
  BY <1>3, SettlesNext

LEMMA SettledAfterExit ==
  ASSUME AloneInv, AloneInv', NEW p \in Procs, p \in Running, Exit(p)
  PROVE  Settled'
  BY NotBetweenNext DEF Exit, Calls

LEMMA OnlyBetween ==
  ASSUME AloneInv, NEW p \in Procs, NEW goal \in {"set", "force"}, pc[p] = goal
  PROVE  /\ Between(goal) = {p}
         /\ \A other \in {"set", "force"} \ {goal} : Between(other) = {}
<1>1. p \in Running /\ Solo
  BY DEF AloneInv, Running
<1>2. \A q \in Procs : pc[q] \in {"set", "force"} => q = p
  BY <1>1 DEF Solo, Running
<1> QED
  BY <1>2 DEF Between, At

LEMMA DueAtSet ==
  ASSUME AloneInv, NEW p \in Procs, pc[p] = "set"
  PROVE  /\ DueRefs = [refs EXCEPT ![loc[p].ref] = loc[p].theirs]
         /\ DueIndex = index /\ DueWorkdir = workdir
<1>1. Between("set") = {p} /\ Between("force") = {}
  BY OnlyBetween
<1>2. refs \in [RefNames -> CommitIds \cup {NoCommit}] /\ loc[p].ref \in RefNames
  BY Parts, SharedParts DEF AloneInv, SharedInv
<1>3. ASSUME NEW r \in RefNames
      PROVE  DueRefs[r] = [refs EXCEPT ![loc[p].ref] = loc[p].theirs][r]
  <2>1. CASE loc[p].ref = r
    <3>1. \E q \in Between("set") : loc[q].ref = r
      BY <1>1, <2>1
    <3>2. (CHOOSE q \in Between("set") : loc[q].ref = r) = p
      BY <1>1, <2>1
    <3>3. DueRefs[r] = loc[p].theirs
      BY <3>1, <3>2 DEF DueRefs
    <3> QED
      BY <1>2, <2>1, <3>3
  <2>2. CASE loc[p].ref # r
    <3>1. ~\E q \in Between("set") : loc[q].ref = r
      BY <1>1, <2>2
    <3>2. DueRefs[r] = refs[r]
      BY <3>1 DEF DueRefs
    <3> QED
      BY <1>2, <2>2, <3>2
  <2> QED
    BY <2>1, <2>2
<1>4. DueRefs = [refs EXCEPT ![loc[p].ref] = loc[p].theirs]
  <2>1. DueRefs = [r \in RefNames |-> DueRefs[r]]
    BY DEF DueRefs
  <2> QED
    BY <1>2, <1>3, <2>1
<1> QED
  BY <1>1, <1>4 DEF DueIndex, DueWorkdir

LEMMA DueAtForce ==
  ASSUME AloneInv, NEW p \in Procs, pc[p] = "force"
  PROVE  DueRefs = refs /\ DueIndex = HeadTree /\ DueWorkdir = HeadTree
<1>1. Between("force") = {p} /\ Between("set") = {}
  BY OnlyBetween
<1>2. refs \in [RefNames -> CommitIds \cup {NoCommit}]
  BY Parts DEF AloneInv, SharedInv
<1> QED
  BY <1>1, <1>2 DEF DueRefs, DueIndex, DueWorkdir

\* The same of the state a step leads to.
DueAsWritten ==
  \A p \in Procs :
    /\ pc[p] = "set" =>
         /\ DueRefs = [refs EXCEPT ![loc[p].ref] = loc[p].theirs]
         /\ DueIndex = index /\ DueWorkdir = workdir
    /\ pc[p] = "force" =>
         DueRefs = refs /\ DueIndex = HeadTree /\ DueWorkdir = HeadTree

LEMMA Dues == AloneInv => DueAsWritten
  BY DueAtSet, DueAtForce DEF DueAsWritten

LEMMA DuesNext == AloneInv' => DueAsWritten'
  BY Dues, PTL

-----------------------------------------------------------------------------
(***************************************************************************)
(* The calls that are a whole command, or one of its parts.                *)
(***************************************************************************)
LEMMA SameCommit ==
  ASSUME Settled, Settled', NEW allowEmpty \in BOOLEAN, NEW amend \in BOOLEAN,
         Commit(allowEmpty, amend)
  PROVE  OneStep!Next
<1>1. /\ DueIndex = index /\ DueWorkdir = workdir /\ DueRefs = refs
      /\ DueIndex' = index' /\ DueWorkdir' = workdir' /\ DueRefs' = refs'
  BY DEF Settled
<1>2. \A mh : OneStep!Parents(mh) = Parents(mh)
  BY SameTip DEF OneStep!Parents, Parents
<1>3. OneStep!CommitAllowed(DueIndex, DueWorkdir, mergeHeads, allowEmpty, amend)
  BY <1>1, <1>2, SameTip DEF Commit, CommitAllowed, OneStep!CommitAllowed
<1>4. OneStep!CommitRecord(DueIndex, mergeHeads, amend)
        = CommitRecord(index, mergeHeads, amend)
  BY <1>1, <1>2, SameTip, SameData DEF OneStep!CommitRecord, CommitRecord
<1>5. OneStep!CommitOnHead(OneStep!CommitRecord(DueIndex, mergeHeads, amend))
  BY <1>1, <1>4 DEF Commit, CommitOnHead, StoreCommit, OneStep!CommitOnHead,
     OneStep!StoreCommit
<1>6. OneStep!Commit(allowEmpty, amend)
  BY <1>1, <1>3, <1>5 DEF Commit, OneStep!Commit, worktree, OneStep!worktree
<1> QED
  BY <1>6 DEF OneStep!Next, OneStep!CommitStep

LEMMA WriteIsCommit ==
  ASSUME AloneInv, AloneInv', NEW p \in Procs, WriteCommit(p)
  PROVE  OneStep!Next
<1> DEFINE l == loc[p]
           amend == l.job = "amend"
           allowEmpty == l.job \in {"commit", "amend"}
<1>1. /\ Fresh("write", l) /\ p \in Running
  BY DEF WriteCommit, At, AloneInv, Running
<1>2. /\ l.tip = Tip /\ l.heads = mergeHeads /\ l.tree = index
      /\ mergeHeads # <<>> => Born
      /\ allowEmpty \/ HasStatus(index, workdir)
  BY <1>1 DEF Fresh
<1>3. Parents(mergeHeads) = Given(l)
  BY <1>2 DEF Parents, Given, Born
<1>4. /\ ~HasConflicts(index)
      /\ amend => Len(Parents(mergeHeads)) = 1
      /\ CommitOnHead(CommitRecord(index, mergeHeads, amend))
      /\ UNCHANGED <<head, origin, worktree, mergeHeads, stash>>
      /\ Exit(p)
  BY <1>2, <1>3 DEF WriteCommit, CommitRecord, Given
<1>5. PICK e \in BOOLEAN : e <=> allowEmpty
  OBVIOUS
<1>6. PICK a \in BOOLEAN : a <=> amend
  OBVIOUS
<1>7. Commit(e, a)
  BY <1>2, <1>4, <1>5, <1>6 DEF Commit, CommitAllowed
<1>8. Settled /\ Settled'
  BY <1>1, <1>4, NotBetween, SettledAfterExit DEF WriteCommit, At
<1> QED
  BY <1>7, <1>8, SameCommit

LEMMA SameSources ==
  ASSUME AloneInv, Settled, NEW p \in Procs, loc[p].theirs = refs[loc[p].arg],
         loc[p].theirs # NoCommit
  PROVE  loc[p].theirs \in OneStep!MergeSources
<1>1. loc[p].arg \in Branches
  BY SharedParts DEF AloneInv
<1> QED
  BY <1>1 DEF OneStep!MergeSources, OneStep!NoCommit, NoCommit, Settled

LEMMA CallIsMerge ==
  ASSUME AloneInv, AloneInv', NEW p \in Procs, CallMerge(p)
  PROVE  OneStep!Next
<1>1. /\ Fresh("merge", loc[p]) /\ Good("merge", loc[p]) /\ p \in Running
      /\ pc[p] = "merge"
  BY DEF CallMerge, At, AloneInv, SharedInv, Running
<1>2. PICK c : c = loc[p].theirs
  OBVIOUS
<1>3. Settled
  BY <1>1, NotBetween
<1>4. Settled'
  <2>1. CASE Exit(p)
    BY <1>1, <2>1, SettledAfterExit
  <2>2. CASE Goto(p, "head")
    BY <1>1, <2>2, NotBetweenNext DEF Goto, Calls
  <2> QED
    BY <2>1, <2>2 DEF CallMerge
<1>5. c \in OneStep!MergeSources
  BY <1>1, <1>2, <1>3, SameSources DEF Fresh, Good
<1>6. /\ DueIndex' = index' /\ DueWorkdir' = workdir' /\ DueRefs' = refs'
      /\ DueIndex = index /\ DueWorkdir = workdir /\ DueRefs = refs
  BY <1>3, <1>4 DEF Settled
<1>7. ASSUME NEW m, MergeWritten(c, m, TRUE)
      PROVE  OneStep!MergeWritten(c, m, TRUE)
  BY <1>3, <1>6, <1>7, SameCalls DEF MergeWritten, OneStep!MergeWritten
<1>8. ASSUME MergeRefused
      PROVE  OneStep!MergeRefused
  BY <1>6, <1>8 DEF MergeRefused, OneStep!MergeRefused, graph, OneStep!graph, worktree,
     OneStep!worktree
<1>9. \A base : OneStep!ThreeWay(base, OneStep!HeadTree, commits[c].tree)
                  = ThreeWay(base, HeadTree, commits[c].tree)
  BY <1>3, SameTip, SameData
<1>10. OneStep!ThreeWayMerge(c, TRUE)
  <2>1. CASE Born /\ \E base \in MergeBases(c) :
               LET m == ThreeWay(base, HeadTree, commits[c].tree)
               IN  ResultFits(m) /\ MergeWritten(c, m, TRUE)
    <3>1. PICK base \in MergeBases(c) :
               LET m == ThreeWay(base, HeadTree, commits[c].tree)
               IN  ResultFits(m) /\ MergeWritten(c, m, TRUE)
      BY <2>1
    <3> DEFINE m == OneStep!ThreeWay(base, OneStep!HeadTree, commits[c].tree)
    <3>2. OneStep!ResultFits(m) /\ OneStep!MergeWritten(c, m, TRUE)
      BY <1>3, <1>7, <1>9, <3>1, SameCalls
    <3>3. OneStep!Born /\ base \in OneStep!MergeBases(c)
      BY <1>3, <2>1, SameTip, SameCalls
    <3> QED
      BY <3>2, <3>3 DEF OneStep!ThreeWayMerge
  <2>2. CASE /\ Born => \E base \in MergeBases(c) :
                  ~ResultFits(ThreeWay(base, HeadTree, commits[c].tree))
             /\ MergeRefused
    <3>1. OneStep!MergeRefused
      BY <1>8, <2>2
    <3>2. CASE ~Born
      BY <1>3, <3>1, <3>2, SameTip DEF OneStep!ThreeWayMerge
    <3>3. CASE Born
      <4>1. PICK base \in MergeBases(c) :
                  ~ResultFits(ThreeWay(base, HeadTree, commits[c].tree))
        BY <2>2, <3>3
      <4>2. ~OneStep!ResultFits(OneStep!ThreeWay(base, OneStep!HeadTree, commits[c].tree))
        BY <1>3, <1>9, <4>1, SameCalls
      <4>3. OneStep!Born /\ base \in OneStep!MergeBases(c)
        BY <1>3, <3>3, SameTip, SameCalls
      <4> QED
        BY <3>1, <4>2, <4>3 DEF OneStep!ThreeWayMerge
    <3> QED
      BY <3>2, <3>3
  <2> QED
    BY <1>2, <2>1, <2>2 DEF CallMerge
<1>11. OneStep!Merge(c, FALSE, TRUE, TRUE)
  BY <1>10 DEF OneStep!Merge
<1> QED
  BY <1>5, <1>11 DEF OneStep!Next, OneStep!MergeStep

LEMMA CreationIsBranch ==
  ASSUME AloneInv, AloneInv', NEW p \in Procs, CreateRef(p)
  PROVE  OneStep!Next
<1>1. /\ Fresh("create", loc[p]) /\ p \in Running /\ pc[p] = "create" /\ Exit(p)
  BY DEF CreateRef, At, AloneInv, Running
<1>2. PICK b \in Branches : b = loc[p].arg
  BY SharedParts DEF AloneInv
<1>3. Settled /\ Settled'
  BY <1>1, NotBetween, SettledAfterExit
<1>4. /\ Born /\ refs[b] = NoCommit /\ refs' = [refs EXCEPT ![b] = Tip]
      /\ UNCHANGED <<commits, head, origin, worktree, mergeHeads, stash>>
  BY <1>1, <1>2 DEF CreateRef, Fresh, Born
<1>5. /\ OneStep!Born /\ OneStep!Tip = Tip /\ OneStep!NoCommit = NoCommit
  BY <1>3, <1>4, SameTip DEF OneStep!NoCommit, NoCommit
<1>6. OneStep!CreateBranch(b)
  BY <1>3, <1>4, <1>5 DEF OneStep!CreateBranch, Settled, worktree, OneStep!worktree
<1> QED
  BY <1>6 DEF OneStep!Next

\* The fast-forward takes effect with the checkout.
LEMMA CheckOutIsFastForward ==
  ASSUME AloneInv, AloneInv', NEW p \in Procs, CheckOutTarget(p)
  PROVE  OneStep!Next
<1>1. /\ Fresh("files", loc[p]) /\ Good("files", loc[p]) /\ p \in Running
      /\ pc[p] = "files"
  BY DEF CheckOutTarget, At, AloneInv, SharedInv, Running
<1>2. PICK c : c = loc[p].theirs
  OBVIOUS
<1>3. Settled
  BY <1>1, NotBetween
<1>4. /\ Tip # NoCommit /\ loc[p].tip = Tip /\ loc[p].ref = head
      /\ CanFastForward(c)
      /\ SafeCheckoutPossible(commits[c].tree)
      /\ index' = SafeCheckoutIndex(commits[c].tree)
      /\ workdir' = SafeCheckoutWorkdir(commits[c].tree)
      /\ UNCHANGED <<commits, refs, head, origin, mergeHeads, stash, loc>>
      /\ pc' = [pc EXCEPT ![p] = "set"]
  BY <1>1, <1>2 DEF CheckOutTarget, Fresh, Good, Goto, graph
<1>5. c \in OneStep!MergeSources
  BY <1>1, <1>2, <1>3, SameSources DEF Fresh, Good
<1>6. pc'[p] = "set"
  BY <1>4 DEF AloneInv, SharedInv
<1>7. /\ DueRefs' = [refs EXCEPT ![head] = c]
      /\ DueIndex' = index' /\ DueWorkdir' = workdir'
  BY <1>2, <1>4, <1>6, DuesNext DEF DueAsWritten
<1>8. /\ OneStep!Born /\ OneStep!CanFastForward(c)
      /\ OneStep!SafeCheckoutPossible(commits[c].tree)
      /\ DueIndex' = OneStep!SafeCheckoutIndex(commits[c].tree)
      /\ DueWorkdir' = OneStep!SafeCheckoutWorkdir(commits[c].tree)
  BY <1>3, <1>4, <1>7, SameTip, SameCalls DEF Born
<1>9. OneStep!FastForward(c)
  BY <1>3, <1>4, <1>7, <1>8 DEF OneStep!FastForward, Settled
<1>10. OneStep!Merge(c, FALSE, FALSE, FALSE)
  BY <1>8, <1>9 DEF OneStep!Merge
<1> QED
  BY <1>5, <1>10 DEF OneStep!Next, OneStep!MergeStep

\* The checkout takes effect with the move of HEAD.
LEMMA SetHeadIsCheckout ==
  ASSUME AloneInv, AloneInv', NEW p \in Procs, SetHead(p)
  PROVE  OneStep!Next
<1>1. /\ Fresh("sethead", loc[p]) /\ Good("sethead", loc[p]) /\ p \in Running
      /\ pc[p] = "sethead"
  BY DEF SetHead, At, AloneInv, SharedInv, Running
<1>2. PICK b \in Branches : b = loc[p].arg
  BY SharedParts DEF AloneInv
<1>3. Settled
  BY <1>1, NotBetween
<1>4. PICK c : c = refs[b]
  OBVIOUS
<1>5. /\ c # NoCommit /\ head' = b /\ refs' = [refs EXCEPT ![Detached] = NoCommit]
      /\ UNCHANGED <<commits, origin, index, workdir, mergeHeads, stash, loc>>
      /\ pc' = [pc EXCEPT ![p] = "force"]
  BY <1>1, <1>2, <1>4 DEF SetHead, Fresh, Good, Goto, worktree
<1>6. refs \in [RefNames -> CommitIds \cup {NoCommit}] /\ b # Detached /\ b \in RefNames
  BY Parts DEF AloneInv, SharedInv, RefNames
<1>7. /\ Tip' = c /\ refs' = [refs EXCEPT ![b] = c, ![Detached] = NoCommit]
  BY <1>4, <1>5, <1>6 DEF Tip
<1>8. HeadTree' = commits[c].tree
  BY <1>5, <1>7 DEF HeadTree, Born, NoCommit
<1>9. pc'[p] = "force"
  BY <1>5 DEF AloneInv, SharedInv
<1>10. /\ DueRefs' = [DueRefs EXCEPT ![b] = c, ![Detached] = NoCommit]
       /\ DueIndex' = commits[c].tree /\ DueWorkdir' = commits[c].tree
       /\ DueRefs[b] = c
  BY <1>3, <1>4, <1>7, <1>8, <1>9, DuesNext DEF DueAsWritten, Settled
<1>11. OneStep!CheckoutBranch(b)
  BY <1>5, <1>10 DEF OneStep!CheckoutBranch, OneStep!SwitchTo, OneStep!ForceCheckout,
     OneStep!NoCommit, NoCommit
<1> QED
  BY <1>11 DEF OneStep!Next, OneStep!CheckoutStep

-----------------------------------------------------------------------------
(***************************************************************************)
(* The steps that change nothing a reader of the repository is due to see. *)
(***************************************************************************)
LEMMA SecondWrites ==
  ASSUME AloneInv, AloneInv', NEW p \in Procs, SetTarget(p) \/ ForceHead(p)
  PROVE  UNCHANGED OneStep!vars
<1>1. p \in Running /\ Exit(p)
  BY DEF SetTarget, ForceHead, At, Running
<1>2. Settled'
  BY <1>1, SettledAfterExit
<1>3. CASE SetTarget(p)
  <2>1. pc[p] = "set"
    BY <1>3 DEF SetTarget, At
  <2>2. /\ DueRefs = [refs EXCEPT ![loc[p].ref] = loc[p].theirs]
        /\ DueIndex = index /\ DueWorkdir = workdir
    BY <2>1, Dues DEF DueAsWritten
  <2> QED
    BY <1>2, <1>3, <2>2 DEF SetTarget, Settled, OneStep!vars, worktree
<1>4. CASE ForceHead(p)
  <2>1. pc[p] = "force"
    BY <1>4 DEF ForceHead, At
  <2>2. DueRefs = refs /\ DueIndex = HeadTree /\ DueWorkdir = HeadTree
    BY <2>1, Dues DEF DueAsWritten
  <2> QED
    BY <1>2, <1>4, <2>2 DEF ForceHead, ForceCheckout, Settled, OneStep!vars, graph
<1> QED
  BY <1>3, <1>4

LEMMA SettledSteps ==
  ASSUME Settled, Settled', UNCHANGED vars
  PROVE  UNCHANGED OneStep!vars
  BY DEF Settled, vars, OneStep!vars

LEMMA ReadsShowNothing ==
  ASSUME AloneInv, AloneInv', NEW p \in Procs,
         \/ ReadHead(p) \/ CountMergeHeads(p) \/ ReadMergeHeads(p)
         \/ ReadStatus(p) \/ LookUp(p) \/ Analyse(p) \/ ReadTarget(p)
  PROVE  UNCHANGED OneStep!vars
<1>1. /\ UNCHANGED vars /\ p \in Running /\ pc[p] \notin {"set", "force"}
      /\ \E goal \in Calls \ {"set", "force"} : pc' = [pc EXCEPT ![p] = goal]
  BY DEF ReadHead, CountMergeHeads, ReadMergeHeads, ReadStatus, LookUp, Analyse,
     ReadTarget, At, Goto, Running, Calls
<1>2. Settled
  BY <1>1, NotBetween
<1>3. Settled'
  BY <1>1, NotBetweenNext
<1> QED
  BY <1>1, <1>2, <1>3, SettledSteps

LEMMA IdleIsSettled ==
  ASSUME AloneInv, Running = {}
  PROVE  Settled
<1>1. Between("set") = {} /\ Between("force") = {}
  BY DEF Running, Between, At
<1> QED
  BY <1>1, Settles

LEMMA BeginAndStopShowNothing ==
  ASSUME AloneInv, AloneInv', alone, NEW p \in Procs,
         Stop(p) \/ \E job \in Jobs, b \in Branches : Begin(p, job, b)
  PROVE  UNCHANGED OneStep!vars
<1>1. CASE Stop(p)
  <2>1. /\ UNCHANGED vars /\ p \in Running /\ pc[p] \notin {"set", "force"} /\ Exit(p)
    BY <1>1 DEF Stop
  <2> QED
    BY <2>1, NotBetween, SettledAfterExit, SettledSteps
<1>2. ASSUME NEW job \in Jobs, NEW b \in Branches, Begin(p, job, b)
      PROVE  UNCHANGED OneStep!vars
  <2>1. /\ UNCHANGED vars /\ Running = {}
        /\ \E goal \in {"head", "lookup"} : pc' = [pc EXCEPT ![p] = goal]
    BY <1>2 DEF Begin, Goto
  <2>2. \A q \in Procs : pc'[q] \notin {"set", "force"}
    BY <2>1 DEF Running, AloneInv, SharedInv
  <2>3. Between("set")' = {} /\ Between("force")' = {}
    BY <2>2 DEF Between, At
  <2> QED
    BY <2>1, <2>3, IdleIsSettled, SettlesNext, SettledSteps
<1> QED
  BY <1>1, <1>2

LEMMA UserSteps ==
  ASSUME AloneInv, AloneInv', alone, EditAndStage
  PROVE  OneStep!Next
<1>1. Running = {} /\ UNCHANGED <<pc, loc>>
  BY DEF EditAndStage
<1>2. Between("set")' = {} /\ Between("force")' = {}
  <2>1. \A q \in Procs : pc'[q] \notin {"set", "force"}
    BY <1>1 DEF Running
  <2> QED
    BY <2>1 DEF Between, At
<1>3. Settled /\ Settled'
  BY <1>1, <1>2, IdleIsSettled, SettlesNext
<1>4. /\ DueRefs = refs /\ DueIndex = index /\ DueWorkdir = workdir
      /\ DueRefs' = refs' /\ DueIndex' = index' /\ DueWorkdir' = workdir'
  BY <1>3 DEF Settled
<1>5. ASSUME NEW q \in Paths, NEW f \in Files, Edit(q, f)
      PROVE  OneStep!Next
  <2>1. OneStep!Edit(q, f)
    BY <1>4, <1>5 DEF Edit, OneStep!Edit, graph, OneStep!graph
  <2> QED
    BY <2>1 DEF OneStep!Next, OneStep!UserStep, OneStep!Files, Files
<1>6. ASSUME NEW b \in Remotes, NEW ps \in ParentChoices, NEW t \in Trees, Fetch(b, ps, t)
      PROVE  OneStep!Next
  <2>1. OneStep!Fetch(b, ps, t)
    BY <1>4, <1>6, SameData DEF Fetch, OneStep!Fetch, StoreCommit, OneStep!StoreCommit,
       worktree, OneStep!worktree
  <2> QED
    BY <2>1 DEF OneStep!Next, OneStep!UserStep, OneStep!ParentChoices, ParentChoices,
       OneStep!CommitIds, CommitIds, OneStep!Trees, Trees, OneStep!Files, Files
<1>7. ASSUME NEW S \in PathSelections, Add(S)
      PROVE  OneStep!Next
  <2>1. OneStep!Add(S)
    BY <1>4, <1>7, SameData DEF Add, OneStep!Add, graph, OneStep!graph
  <2> QED
    BY <2>1 DEF OneStep!Next, OneStep!StageStep, OneStep!PathSelections, PathSelections
<1> QED
  BY <1>5, <1>6, <1>7 DEF EditAndStage, UserStep

LEMMA StutterShowsNothing ==
  ASSUME AloneInv, AloneInv', UNCHANGED allVars
  PROVE  UNCHANGED OneStep!vars
<1>1. UNCHANGED vars /\ pc' = pc /\ loc' = loc
  BY DEF allVars
<1>2. HeadTree' = HeadTree
  BY <1>1 DEF vars, HeadTree, Born, Tip
<1>3. CASE \E p \in Procs : pc[p] \in {"set", "force"}
  BY <1>1, <1>2, <1>3, Dues, DuesNext DEF DueAsWritten, vars, OneStep!vars
<1>4. CASE ~\E p \in Procs : pc[p] \in {"set", "force"}
  <2>1. /\ Between("set") = {} /\ Between("force") = {}
        /\ Between("set")' = {} /\ Between("force")' = {}
    BY <1>1, <1>4 DEF Between, At
  <2> QED
    BY <1>1, <2>1, Settles, SettlesNext, SettledSteps
<1> QED
  BY <1>3, <1>4

-----------------------------------------------------------------------------
LEMMA StepsAreCommands ==
  ASSUME AloneInv, AloneInv', alone, [NextAll]_allVars
  PROVE  [OneStep!Next]_(OneStep!vars)
<1>1. ASSUME NEW p \in Procs, Call(p)
      PROVE  OneStep!Next \/ UNCHANGED OneStep!vars
  BY <1>1, WriteIsCommit, CallIsMerge, CreationIsBranch, CheckOutIsFastForward,
     SetHeadIsCheckout, SecondWrites, ReadsShowNothing DEF Call
<1> QED
  BY <1>1, BeginAndStopShowNothing, UserSteps, StutterShowsNothing DEF NextAll

(***************************************************************************)
(* A command that runs alone does what Porcelain says it does in one step, *)
(* in whatever sound repository it begins: what the lemmas and theorems of *)
(* PorcelainProofs say of a step holds of the sequence of libgit2 calls    *)
(* that cmd_commit, cmd_merge, cmd_branch and cmd_checkout make.           *)
(***************************************************************************)
THEOREM CommandsRunInOneStep == AnyShared => CommandsAreAtomic
<1>1. AnyStart => (alone => AloneInv)
  BY AloneStart
<1>2. (alone => AloneInv) /\ [NextAll]_allVars => (alone => AloneInv)'
  <2>1. [NextAll]_allVars => alone' = alone
    BY DEF NextAll, allVars
  <2> QED
    BY <2>1, AloneNext
<1>3. /\ (alone => AloneInv) /\ (alone => AloneInv)'
      /\ [NextAll]_allVars
      => [alone => OneStep!Next]_(OneStep!vars)
  <2>1. [NextAll]_allVars => alone' = alone
    BY DEF NextAll, allVars
  <2> QED
    BY <2>1, StepsAreCommands
<1> QED
  BY <1>1, <1>2, <1>3, PTL DEF AnyShared, CommandsAreAtomic

-----------------------------------------------------------------------------
(***************************************************************************)
(* Rebase, for every repository it can be started in.  Its steps on the    *)
(* repository are those of the commands.                                   *)
(***************************************************************************)

(***************************************************************************)
(* Any repository in which no rebase is going on: RebaseInit, the empty    *)
(* one, is a special case.                                                 *)
(***************************************************************************)
AnyRepository == Inv /\ rebase = NoRebase /\ call = "none"
AnyRebase == AnyRepository /\ [][RebaseNext]_rebaseVars

LEMMA SpecStartsAnywhere == RebaseSpec => AnyRebase
<1>1. RebaseInit => AnyRepository
  BY InitSound DEF RebaseInit, AnyRepository
<1> QED
  BY <1>1, PTL DEF RebaseSpec, AnyRebase

(***************************************************************************)
(* The inductive invariant.  HEAD is detached during every rebase, that of *)
(* a detached HEAD included; the handler runs only while there is one; and *)
(* the commit to go back to exists.                                        *)
(***************************************************************************)
Underway ==
  /\ InProgress => head = Detached /\ rebase.orig # NoCommit
  /\ call # "none" => InProgress
RebaseInv == Inv /\ RebaseTypeOK /\ BranchWaits /\ Underway

LEMMA RebaseInvParts ==
  ASSUME RebaseInv
  PROVE  /\ rebase.name \in RefNames
         /\ rebase.orig \in CommitIds \cup {NoCommit}
         /\ rebase.todo \subseteq CommitIds
         /\ InProgress => /\ rebase.orig \in CommitIds
                          /\ head = Detached
                          /\ Born /\ Tip \in CommitIds
         /\ InProgress /\ rebase.name # Detached =>
              /\ rebase.name \in Branches
              /\ refs[rebase.name] = rebase.orig
<1>1. /\ rebase.name \in RefNames
      /\ rebase.orig \in CommitIds \cup {NoCommit}
      /\ rebase.todo \subseteq CommitIds
  BY DEF RebaseInv, RebaseTypeOK
<1>2. InProgress => head = Detached /\ rebase.orig # NoCommit
  BY DEF RebaseInv, Underway
<1>3. head = Detached => Born
  BY Parts DEF RebaseInv, Born, Tip
<1> QED
  BY <1>1, <1>2, <1>3, TipFacts DEF RebaseInv, BranchWaits, RefNames

(***************************************************************************)
(* What a step has to establish.                                           *)
(***************************************************************************)
LEMMA RebaseInvKept ==
  ASSUME Inv', CommitIds \subseteq CommitIds',
         rebase' \in [name : RefNames, orig : CommitIds \cup {NoCommit},
                      todo : SUBSET CommitIds],
         call' \in {"none", "next", "commit"},
         call' # "none" => InProgress',
         InProgress' => /\ head' = Detached
                        /\ rebase'.orig # NoCommit
                        /\ rebase'.name \in Branches =>
                             refs'[rebase'.name] = rebase'.orig
  PROVE  RebaseInv'
<1>1. rebase' \in [name : RefNames, orig : CommitIds' \cup {NoCommit},
                   todo : SUBSET CommitIds']
  OBVIOUS
<1>2. RebaseTypeOK'
  BY <1>1 DEF RebaseTypeOK, Inv
<1>3. rebase'.name \in RefNames
  OBVIOUS
<1>4. BranchWaits'
  BY <1>3 DEF BranchWaits, RefNames
<1> QED
  BY <1>2, <1>4 DEF RebaseInv, Underway

LEMMA CommitIdsKept ==
  ASSUME UNCHANGED commits
  PROVE  CommitIds' = CommitIds
  BY DEF CommitIds

\* A step on the repository that keeps HEAD and the branches.
LEMMA RepositoryStep ==
  ASSUME RebaseInv, Inv', CommitIds \subseteq CommitIds', head' = head,
         \A b \in Branches : b = head \/ refs'[b] = refs[b],
         rebase' = rebase, call' = "none" \/ (InProgress /\ call' \in {"next", "commit"})
  PROVE  RebaseInv'
<1>1. rebase' \in [name : RefNames, orig : CommitIds \cup {NoCommit},
                   todo : SUBSET CommitIds]
  BY DEF RebaseInv, RebaseTypeOK
<1>2. InProgress' <=> InProgress
  BY DEF InProgress, NoRebase
<1>3. InProgress' => /\ head' = Detached
                     /\ rebase'.orig # NoCommit
                     /\ rebase'.name \in Branches =>
                          refs'[rebase'.name] = rebase'.orig
  BY <1>2, RebaseInvParts DEF RebaseInv, Underway
<1> QED
  BY <1>1, <1>2, <1>3, RebaseInvKept

-----------------------------------------------------------------------------
LEMMA StartStep ==
  ASSUME RebaseInv, NEW c \in MergeSources, Start(c)
  PROVE  RebaseInv'
<1>1. Inv /\ Born /\ Tip \in CommitIds /\ c \in CommitIds /\ c # NoCommit
  BY Sources, TipFacts, CommitFields DEF RebaseInv, Start, NoCommit
<1>2. /\ refs' = [refs EXCEPT ![Detached] = c] /\ head' = Detached
      /\ UNCHANGED <<commits, origin, stash>> /\ mergeHeads' = mergeHeads
      /\ rebase' = [name |-> head, orig |-> Tip, todo |-> Patches(c)]
      /\ call' = "next"
  BY DEF Start
<1>3. commits[c].tree \in Trees
  BY <1>1, CommitFields
<1>4. index' \in IndexStates /\ workdir' \in Trees
  BY <1>1, <1>3, Parts, OverlayTypes, TreesAreIndexes
  DEF Start, SafeCheckoutIndex, SafeCheckoutWorkdir
<1>5. /\ refs' \in [RefNames -> CommitIds \cup {NoCommit}]
      /\ refs'[Detached] = c
      /\ head' \in RefNames
  BY <1>1, <1>2, Parts DEF RefNames
<1>6. Inv'
  BY <1>1, <1>2, <1>4, <1>5, RefStep
<1>7. Patches(c) \subseteq CommitIds
  BY <1>1, CommitFields DEF Patches, History
<1>8. rebase' \in [name : RefNames, orig : CommitIds \cup {NoCommit},
                   todo : SUBSET CommitIds]
  BY <1>1, <1>2, <1>7, Parts
<1>9. InProgress' /\ rebase'.orig # NoCommit
  BY <1>1, <1>2 DEF InProgress, NoRebase, Born
<1>10. rebase'.name \in Branches => refs'[rebase'.name] = rebase'.orig
  BY <1>1, <1>2, Parts DEF Tip, RefNames
<1>11. CommitIds' = CommitIds
  BY <1>2, CommitIdsKept
<1> QED
  BY <1>2, <1>6, <1>8, <1>9, <1>10, <1>11, RebaseInvKept

\* The oldest patch is one of them.
LEMMA OldestPatch ==
  ASSUME NEW S \in SUBSET Nat, S # {}
  PROVE  (CHOOSE a \in S : \A b \in S : a <= b) \in S
<1> DEFINE Less == {ss \in Nat \X Nat : ss[1] < ss[2]}
<1>1. IsWellFoundedOn(Less, Nat)
  BY NatLessThanWellFounded DEF OpToRel
<1>2. \E a \in S : \A b \in S : ~(<<b, a>> \in Less)
  BY <1>1, WFMin
<1>3. ASSUME NEW a \in Nat, NEW b \in Nat
      PROVE  <<b, a>> \in Less <=> b < a
  OBVIOUS
<1> HIDE DEF Less
<1>4. PICK a \in S : \A b \in S : ~(<<b, a>> \in Less)
  BY <1>2
<1>5. ASSUME NEW b \in S
      PROVE  a <= b
  <2>1. a \in Nat /\ b \in Nat
    OBVIOUS
  <2>2. ~(b < a)
    BY <1>3, <1>4, <2>1
  <2> QED
    BY <2>1, <2>2
<1> QED
  BY <1>5

LEMMA NextPatchStep ==
  ASSUME RebaseInv, NextPatch
  PROVE  RebaseInv'
<1> DEFINE op == CHOOSE a \in rebase.todo : \A b \in rebase.todo : a <= b
           m == ThreeWay(ParentTree(op), HeadTree, commits[op].tree)
<1>1. Inv /\ InProgress
  BY DEF RebaseInv, NextPatch, Underway
<1>2. op \in CommitIds /\ rebase.todo \subseteq CommitIds
  <2>1. rebase.todo \subseteq CommitIds /\ CommitIds \subseteq Nat /\ rebase.todo # {}
    BY RebaseInvParts DEF NextPatch, CommitIds
  <2>2. rebase.todo \in SUBSET Nat
    BY <2>1
  <2> QED
    BY <2>1, <2>2, OldestPatch
<1>3. m \in IndexStates
  BY <1>1, <1>2, PatchTypes
<1>4. /\ rebase' = [rebase EXCEPT !.todo = @ \ {op}]
      /\ call' \in {"none", "commit"}
      /\ UNCHANGED graph /\ UNCHANGED <<mergeHeads, stash>>
      /\ \/ index' = ResultIndex(m) /\ workdir' = ResultWorkdir(m)
         \/ UNCHANGED worktree
  BY DEF NextPatch
<1> HIDE DEF m, op
<1>5. index' \in IndexStates /\ workdir' \in Trees
  BY <1>1, <1>3, <1>4, ResultTypes, Parts DEF worktree
<1>6. Inv'
  BY <1>1, <1>4, <1>5, Parts, WorktreeStep
<1>7. /\ rebase' \in [name : RefNames, orig : CommitIds \cup {NoCommit},
                      todo : SUBSET CommitIds]
      /\ rebase'.name = rebase.name /\ rebase'.orig = rebase.orig
  BY <1>2, <1>4 DEF RebaseInv, RebaseTypeOK
<1>8. /\ rebase.orig # NoCommit /\ head = Detached
      /\ rebase.name \in Branches => refs[rebase.name] = rebase.orig
  BY <1>1, RebaseInvParts DEF RebaseInv, Underway
<1>9. InProgress'
  BY <1>7, <1>8 DEF InProgress, NoRebase
<1>10. UNCHANGED <<refs, head>> /\ CommitIds' = CommitIds
  BY <1>4, CommitIdsKept DEF graph
<1> QED
  BY <1>4, <1>6, <1>7, <1>8, <1>9, <1>10, RebaseInvKept

-----------------------------------------------------------------------------
\* The two steps that end a rebase set the name to a commit and forget it.
LEMMA EndStep ==
  ASSUME RebaseInv, InProgress, NEW c \in CommitIds,
         head' = rebase.name,
         refs' = [refs EXCEPT ![Detached] = NoCommit, ![rebase.name] = c],
         UNCHANGED <<commits, origin, stash>>,
         index' \in IndexStates, workdir' \in Trees,
         mergeHeads' \in {mergeHeads, <<>>},
         rebase' = NoRebase, call' = "none"
  PROVE  RebaseInv'
<1>1. Inv /\ c # NoCommit /\ rebase.name \in RefNames
  BY CommitFields, RebaseInvParts DEF RebaseInv, NoCommit
<1>2. /\ refs' \in [RefNames -> CommitIds \cup {NoCommit}]
      /\ head' \in RefNames
      /\ head' = Detached <=> refs'[Detached] # NoCommit
  BY <1>1, Parts DEF RefNames
<1>3. Inv'
  BY <1>1, <1>2, RefStep
<1>4. ~InProgress'
  BY DEF InProgress, NoRebase
<1>5. rebase' \in [name : RefNames, orig : CommitIds \cup {NoCommit},
                   todo : SUBSET CommitIds]
  BY DEF NoRebase, RefNames
<1>6. CommitIds' = CommitIds
  BY CommitIdsKept
<1> QED
  BY <1>3, <1>4, <1>5, <1>6, RebaseInvKept

LEMMA FinishStep ==
  ASSUME RebaseInv, Finish
  PROVE  RebaseInv'
<1>1. Inv /\ InProgress
  BY DEF RebaseInv, Finish, Underway
<1>2. Tip \in CommitIds
  BY <1>1, RebaseInvParts
<1>3. refs[rebase.name] = rebase.orig \/ rebase.name = Detached
  BY <1>1, RebaseInvParts
<1>4. /\ index' \in IndexStates /\ workdir' \in Trees
      /\ mergeHeads' = mergeHeads
      /\ UNCHANGED <<commits, origin, stash>>
  BY <1>1, Parts DEF Finish, worktree
<1> QED
  BY <1>1, <1>2, <1>3, <1>4, EndStep DEF Finish

LEMMA AbortStep ==
  ASSUME RebaseInv, Abort
  PROVE  RebaseInv'
<1>1. Inv /\ InProgress /\ rebase.orig \in CommitIds
  BY RebaseInvParts DEF RebaseInv, Abort
<1>2. commits[rebase.orig].tree \in Trees
  BY <1>1, CommitFields
<1>3. index' \in IndexStates /\ workdir' \in Trees
  BY <1>1, <1>2, Parts, OverlayTypes, TreesAreIndexes DEF Abort
<1> QED
  BY <1>1, <1>3, EndStep DEF Abort

LEMMA CommitPatchStep ==
  ASSUME RebaseInv, CommitPatch
  PROVE  RebaseInv'
<1>1. Inv /\ InProgress /\ Tip \in CommitIds
  BY RebaseInvParts DEF RebaseInv, CommitPatch, Underway
<1>2. CASE call' = "none" /\ UNCHANGED vars
  <2>1. Inv'
    BY <1>1, <1>2, NextSound
  <2>2. UNCHANGED <<commits, refs, head>>
    BY <1>2 DEF vars
  <2> QED
    BY <1>2, <2>1, <2>2, CommitIdsKept, RepositoryStep DEF CommitPatch
<1>3. CASE /\ ~HasConflicts(index)
           /\ CommitOnHead(NewCommit(<<Tip>>, index))
           /\ call' = "next"
           /\ UNCHANGED <<head, origin, worktree, mergeHeads, stash>>
  <2>1. index \in Trees /\ <<Tip>> \in Seq(CommitIds)
    BY <1>1, <1>3, Parts, ResolvedIndexIsTree
  <2>2. index' \in IndexStates /\ workdir' \in Trees /\ mergeHeads' \in Seq(CommitIds)
    BY <1>1, <1>3, Parts DEF worktree
  <2>3. UNCHANGED <<head, origin, stash>>
    BY <1>3
  <2>4. Inv'
    BY <1>1, <1>3, <2>1, <2>2, <2>3, CommitOnHeadStep
  <2>5. CommitIds \subseteq CommitIds' /\ \A b \in Branches : b = head \/ refs'[b] = refs[b]
    BY <1>1, <1>3, <2>1, StoreSound, Parts DEF CommitOnHead, RefNames
  <2> QED
    BY <1>1, <1>3, <2>3, <2>4, <2>5, RepositoryStep DEF CommitPatch
<1> QED
  BY <1>2, <1>3 DEF CommitPatch

LEMMA UserRebaseStep ==
  ASSUME RebaseInv, User
  PROVE  RebaseInv'
<1>1. Inv /\ rebase' = rebase /\ call' = "none"
  BY DEF RebaseInv, User
<1>2. CASE \/ \E p \in Paths, f \in Files : Edit(p, f)
           \/ \E S \in PathSelections : Add(S)
  <2>1. UNCHANGED graph
    BY <1>2 DEF Edit, Add
  <2>2. Inv'
    BY <1>1, <1>2, UserSound, StageSound DEF UserStep, StageStep
  <2>3. UNCHANGED <<commits, refs, head>>
    BY <2>1 DEF graph
  <2> QED
    BY <1>1, <2>2, <2>3, CommitIdsKept, RepositoryStep
<1>3. CASE Commit(FALSE, FALSE)
  <2>1. Inv'
    BY <1>1, <1>3, CommitSound DEF CommitStep
  <2>2. head' = head /\ \A b \in Branches : b = head \/ refs'[b] = refs[b]
    BY <1>1, <1>3, Parts DEF Commit, CommitOnHead, RefNames
  <2>3. CommitIds \subseteq CommitIds'
    <3>1. PICK ps \in Seq(CommitIds) :
            CommitRecord(index, mergeHeads, FALSE) = NewCommit(ps, index)
      BY <1>1, <1>3, CommitRecordShape, Parts DEF Commit
    <3>2. index \in Trees /\ StoreCommit(NewCommit(ps, index))
      BY <1>1, <1>3, <3>1, CommitRecordShape, Parts DEF Commit, CommitOnHead
    <3> QED
      BY <1>1, <3>2, StoreSound
  <2> QED
    BY <1>1, <2>1, <2>2, <2>3, RepositoryStep
<1> QED
  BY <1>2, <1>3 DEF User

LEMMA RebaseInvStep == RebaseInv /\ [RebaseNext]_rebaseVars => RebaseInv'
<1> SUFFICES ASSUME RebaseInv, [RebaseNext]_rebaseVars
             PROVE  RebaseInv'
  OBVIOUS
<1>1. ASSUME UNCHANGED <<vars, rebase>>,
             call' = call \/ call' = "none" \/ (InProgress /\ call' = "next")
      PROVE  RebaseInv'
  <2>1. Inv' /\ UNCHANGED <<commits, refs, head>> /\ rebase' = rebase
    BY <1>1, NextSound DEF vars, RebaseInv
  <2>2. call' = "none" \/ (InProgress /\ call' \in {"next", "commit"})
    BY <1>1 DEF RebaseInv, RebaseTypeOK, Underway
  <2> QED
    BY <2>1, <2>2, CommitIdsKept, RepositoryStep
<1>2. CASE Continue \/ Die \/ UNCHANGED rebaseVars
  BY <1>1, <1>2 DEF Continue, Die, rebaseVars
<1> QED
  BY <1>2, StartStep, NextPatchStep, CommitPatchStep, FinishStep, AbortStep,
     UserRebaseStep
  DEF RebaseNext, Handler

LEMMA RebaseInvHolds == AnyRebase => []RebaseInv
<1>1. AnyRepository => RebaseInv
  BY DEF AnyRepository, RebaseInv, RebaseTypeOK, BranchWaits, Underway,
         InProgress, NoRebase, Inv, RefNames
<1> QED
  BY <1>1, RebaseInvStep, PTL DEF AnyRebase

(***************************************************************************)
(* What libgit2 keeps of the rebase names existing commits, whatever state *)
(* the handler stops or dies in.                                           *)
(***************************************************************************)
THEOREM RebaseTypes == AnyRebase => []RebaseTypeOK
<1>1. RebaseInv => RebaseTypeOK
  BY DEF RebaseInv
<1> QED
  BY <1>1, RebaseInvHolds, PTL

(***************************************************************************)
(* Until a rebase is finished or aborted, HEAD is detached and the branch  *)
(* has its old tip.                                                        *)
(***************************************************************************)
THEOREM BranchKeepsWaiting == AnyRebase => []BranchWaits
<1>1. RebaseInv => BranchWaits
  BY DEF RebaseInv
<1> QED
  BY <1>1, RebaseInvHolds, PTL
-----------------------------------------------------------------------------
LEMMA AbortStepRestores ==
  ASSUME RebaseInv, Abort
  PROVE  /\ \A b \in Branches : refs'[b] = refs[b]
         /\ Tip' = rebase.orig
         /\ ~(HasStatus(index, workdir))'
<1> DEFINE t == commits[rebase.orig].tree
<1>1. Inv /\ InProgress /\ rebase.orig \in CommitIds /\ rebase.name \in RefNames
  BY RebaseInvParts DEF RebaseInv, Abort
<1>2. /\ head' = rebase.name /\ commits' = commits
      /\ refs' = [refs EXCEPT ![Detached] = NoCommit, ![rebase.name] = rebase.orig]
      /\ index' = t
      /\ workdir' = Overlay(workdir, t, {p \in Paths : {t[p], index[p]} # {Absent}})
  BY DEF Abort
<1>3. \A b \in Branches : refs'[b] = refs[b]
  BY <1>1, <1>2, Parts, RebaseInvParts DEF RefNames
<1>4. Tip' = rebase.orig /\ rebase.orig # NoCommit
  BY <1>1, <1>2, Parts, CommitFields DEF Tip, NoCommit
<1>5. HeadTree' = t
  BY <1>2, <1>4 DEF HeadTree, Born
<1>6. \A p \in Paths : t[p] # Absent => workdir'[p] = t[p]
  BY <1>2 DEF Overlay
<1> QED
  BY <1>2, <1>3, <1>4, <1>5, <1>6 DEF HasStatus

(***************************************************************************)
(* --abort undoes all that was done since the rebase began, also by the    *)
(* user and by a handler that died.                                        *)
(***************************************************************************)
THEOREM AbortUndoes == AnyRebase => AbortRestores
<1>1. RebaseInv /\ [RebaseNext]_rebaseVars =>
        [Abort => /\ \A b \in Branches : refs'[b] = refs[b]
                  /\ Tip' = rebase.orig
                  /\ ~(HasStatus(index, workdir))']_rebaseVars
  BY AbortStepRestores
<1> QED
  BY <1>1, RebaseInvHolds, PTL DEF AnyRebase, AbortRestores
=============================================================================
