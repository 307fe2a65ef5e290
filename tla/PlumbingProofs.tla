--------------------------- MODULE PlumbingProofs ---------------------------
(***************************************************************************)
(* Theorems about the plumbing commands, for any paths, blobs, trees and   *)
(* input, and any number of files on the command line.                     *)
(***************************************************************************)
EXTENDS PlumbingProps, RankingProofs, SequenceTheorems

-----------------------------------------------------------------------------
(***************************************************************************)
(* The inductive invariant.  An index is sound, and a conflict has another *)
(* side, without which --refresh could lose a path and go on.              *)
(***************************************************************************)
TwoSided(idx) ==
  \A e \in idx : e.stage # 0 =>
    \E f \in idx : f.path = e.path /\ f.stage \notin {0, e.stage}
IndexOK(idx) == SoundIndex(idx) /\ TwoSided(idx)
WorkdirOK ==
  /\ workdir \in [Paths -> Blobs \cup {Absent}]
  /\ \A p, q \in Paths : IsFile(p) /\ IsFile(q) => ~Below(p, q)

(***************************************************************************)
(* Lines that were printed, here or elsewhere, and those of them that may  *)
(* be read.                                                                *)
(***************************************************************************)
Printed ==
  {LineOf("stage", e.path, Quoted(e.path), e.blob) : e \in Entries}
  \cup {LineOf("tree", e.path, Quoted(Cut(e.path)), e.blob) : e \in Entries}
  \cup UNION {Range(lines) : lines \in ForeignLines}
Lines == {line \in Printed : Readable(line)}

Options == {"refresh", "add", "remove", "replace", "info"}
Commands ==
  [state : {"refresh", "files", "done", "failed", "crashed"},
   opts : SUBSET Options, files : Seq(Paths), lines : Seq(Lines),
   idx : SUBSET Entries, named : Seq(Paths), listed : Seq(Lines),
   start : SUBSET Entries, stale : BOOLEAN]

(***************************************************************************)
(* While an update-index is under way: what is left of its files and lines *)
(* is the end of those it was given, what it has passed is in its copy of  *)
(* the index, and nothing else has left it.                                *)
(***************************************************************************)
Passed(rest, all) == Len(all) - Len(rest)
Rest(rest, all) ==
  /\ Len(rest) <= Len(all)
  /\ \A i \in 1..Len(rest) : rest[i] = all[Passed(rest, all) + i]

Registers(idx, p) ==
  IF IsFile(p) THEN Entry(p, 0, workdir[p]) \in idx ELSE ~Registered(idx, p)
FilesDone(idx, named, n) ==
  \A i \in 1..n : (\A j \in (i + 1)..n : ~InTheWay(named[i], named[j])) =>
                    Registers(idx, named[i])
OthersKept(idx, named, n) ==
  "replace" \notin cmd.opts =>
    PathsOf(cmd.start) \ {named[i] : i \in 1..n} \subseteq PathsOf(idx)
Name(line) == NameIn(line.text)
LineDone(idx, listed, i) ==
  \/ PassedOver(listed[i])
  \/ \E j \in DOMAIN listed \ {i} : InTheWay(Name(listed[i]), Name(listed[j]))
  \/ Entry(Name(listed[i]), 0, listed[i].blob) \in idx
LinesDone(idx, listed, n) ==
  /\ \A i \in 1..n : LineDone(idx, listed, i)
  /\ PathsOf(idx) \subseteq PathsOf(cmd.start) \cup {Name(l) : l \in Range(listed)}

Underway ==
  /\ Rest(cmd.files, cmd.named) /\ Rest(cmd.lines, cmd.listed)
  /\ cmd.state = "refresh" =>
       cmd.idx = cmd.start /\ cmd.files = cmd.named /\ cmd.lines = cmd.listed
  /\ IF "info" \in cmd.opts
       THEN /\ cmd.named = <<>> /\ cmd.state = "files"
            /\ LinesDone(cmd.idx, cmd.listed, Passed(cmd.lines, cmd.listed))
       ELSE /\ cmd.listed = <<>>
            /\ FilesDone(cmd.idx, cmd.named, Passed(cmd.files, cmd.named))
            /\ OthersKept(cmd.idx, cmd.named, Passed(cmd.files, cmd.named))
  /\ ~cmd.stale => PathsOf(index) = PathsOf(cmd.start)
OutOK ==
  /\ out.kind = "listing" => out.lines \in Seq(Printed)
  /\ TreesWritten /\ ParentsKept
PlumbingInv ==
  /\ IndexOK(index) /\ IndexOK(cmd.idx) /\ WorkdirOK /\ odb \subseteq Blobs
  /\ cmd \in Commands
  /\ OutOK
  /\ Running => Underway

-----------------------------------------------------------------------------
(***************************************************************************)
(* Paths and entries.                                                      *)
(***************************************************************************)
LEMMA PathLength ==
  ASSUME NEW p \in Paths
  PROVE  Len(p) \in Nat /\ ~Below(p, p)
<1>1. IsText(p)
  BY UpdateAssumption DEF Paths, Range
<1>2. Len(p) \in Nat
  BY <1>1, LenProperties DEF IsText
<1> QED
  BY <1>2 DEF Below

LEMMA EntryFields ==
  ASSUME NEW p, NEW s, NEW b
  PROVE  /\ Entry(p, s, b).path = p /\ Entry(p, s, b).stage = s
         /\ Entry(p, s, b).blob = b
         /\ p \in Paths /\ s \in 0..3 /\ b \in Blobs => Entry(p, s, b) \in Entries
  BY DEF Entry, Entries

LEMMA SameEntry ==
  ASSUME NEW e \in Entries, NEW f \in Entries,
         e.path = f.path, e.stage = f.stage, e.blob = f.blob
  PROVE  e = f
  BY DEF Entries

(***************************************************************************)
(* What libgit2's calls leave of an index.                                 *)
(***************************************************************************)
LEMMA InsertIs ==
  ASSUME NEW idx, NEW e, e.stage = 0
  PROVE  \A f : f \in Insert(idx, e) <=>
           \/ f = e
           \/ f \in idx /\ (f.stage # 0 \/ ~InTheWay(f.path, e.path))
  BY DEF Insert, InTheWay

LEMMA InsertOK ==
  ASSUME NEW idx, IndexOK(idx), NEW e \in Entries, e.stage = 0
  PROVE  IndexOK(Insert(idx, e))
<1> DEFINE new == Insert(idx, e)
<1>1. \A f : f \in new <=>
        \/ f = e
        \/ f \in idx /\ (f.stage # 0 \/ ~InTheWay(f.path, e.path))
  BY InsertIs
<1> HIDE DEF new
<1>2. new \subseteq Entries
  BY <1>1 DEF IndexOK, SoundIndex
<1>3. ~Below(e.path, e.path)
  BY PathLength DEF Entries
<1>4. ASSUME NEW f \in new, NEW g \in new
      PROVE  /\ f.path = g.path /\ f.stage = g.stage => f = g
             /\ f.stage = 0 /\ g.stage = 0 => ~Below(f.path, g.path)
  <2>1. CASE f \in idx /\ g \in idx
    BY <2>1 DEF IndexOK, SoundIndex
  <2>2. CASE f = e /\ g # e
    BY <1>1, <2>2 DEF InTheWay
  <2>3. CASE g = e /\ f # e
    BY <1>1, <2>3 DEF InTheWay
  <2>4. CASE f = e /\ g = e
    BY <1>3, <2>4
  <2> QED
    BY <1>1, <2>1, <2>2, <2>3, <2>4
<1>5. TwoSided(new)
  <2> SUFFICES ASSUME NEW f \in new, f.stage # 0
               PROVE  \E g \in new : g.path = f.path /\ g.stage \notin {0, f.stage}
    BY DEF TwoSided
  <2>1. f \in idx
    BY <1>1
  <2>2. PICK g \in idx : g.path = f.path /\ g.stage \notin {0, f.stage}
    BY <2>1 DEF IndexOK, TwoSided
  <2>3. g.stage # 0
    BY <2>2
  <2> QED
    BY <1>1, <2>2, <2>3
<1> QED
  BY <1>2, <1>4, <1>5 DEF IndexOK, SoundIndex, new

LEMMA AddByPathIs ==
  ASSUME NEW idx, NEW p
  PROVE  \A f : f \in AddByPath(idx, p) <=>
           \/ f = Entry(p, 0, workdir[p])
           \/ f \in idx /\ f.path # p /\ (f.stage # 0 \/ ~InTheWay(f.path, p))
<1> DEFINE e == Entry(p, 0, workdir[p])
<1>1. e.path = p /\ e.stage = 0
  BY EntryFields
<1>2. ASSUME NEW f
      PROVE  f \in AddByPath(idx, p) <=> f \in Insert(idx, e) /\ (f.path = p => f.stage = 0)
  BY DEF AddByPath
<1> HIDE DEF e
<1>3. \A f : f \in Insert(idx, e) <=>
           \/ f = e
           \/ f \in idx /\ (f.stage # 0 \/ ~InTheWay(f.path, e.path))
  BY <1>1, InsertIs
<1>4. ASSUME NEW f
      PROVE  f \in AddByPath(idx, p) <=>
               \/ f = e
               \/ f \in idx /\ f.path # p /\ (f.stage # 0 \/ ~InTheWay(f.path, p))
  BY <1>1, <1>2, <1>3 DEF InTheWay
<1> QED
  BY <1>4 DEF e

LEMMA AddByPathOK ==
  ASSUME NEW idx, IndexOK(idx), NEW p \in Paths, IsFile(p), WorkdirOK
  PROVE  IndexOK(AddByPath(idx, p))
<1> DEFINE e == Entry(p, 0, workdir[p])
           new == AddByPath(idx, p)
<1>1. e \in Entries /\ e.path = p /\ e.stage = 0
  BY EntryFields DEF WorkdirOK, IsFile
<1>2. \A f : f \in new <=>
           \/ f = e
           \/ f \in idx /\ f.path # p /\ (f.stage # 0 \/ ~InTheWay(f.path, p))
  BY AddByPathIs
<1> HIDE DEF e, new
<1>3. \A f : f \in Insert(idx, e) <=>
           \/ f = e
           \/ f \in idx /\ (f.stage # 0 \/ ~InTheWay(f.path, p))
  BY <1>1, InsertIs
<1>4. IndexOK(Insert(idx, e))
  BY <1>1, InsertOK
<1>5. new \subseteq Insert(idx, e)
  BY <1>2, <1>3
<1>6. SoundIndex(new)
  BY <1>4, <1>5 DEF IndexOK, SoundIndex
<1>7. TwoSided(new)
  <2> SUFFICES ASSUME NEW f \in new, f.stage # 0
               PROVE  \E g \in new : g.path = f.path /\ g.stage \notin {0, f.stage}
    BY DEF TwoSided
  <2>1. f \in idx /\ f.path # p
    BY <1>1, <1>2
  <2>2. PICK g \in idx : g.path = f.path /\ g.stage \notin {0, f.stage}
    BY <2>1 DEF IndexOK, TwoSided
  <2>3. g.stage # 0
    BY <2>2
  <2> QED
    BY <1>2, <2>1, <2>2, <2>3
<1> QED
  BY <1>6, <1>7 DEF IndexOK, new

\* Entries without stage may go.
LEMMA FewerOK ==
  ASSUME NEW idx, IndexOK(idx), NEW new \in SUBSET idx,
         \A e \in idx \ new : e.stage = 0
  PROVE  IndexOK(new)
<1>1. SoundIndex(new)
  BY DEF IndexOK, SoundIndex
<1>2. TwoSided(new)
  <2> SUFFICES ASSUME NEW f \in new, f.stage # 0
               PROVE  \E g \in new : g.path = f.path /\ g.stage \notin {0, f.stage}
    BY DEF TwoSided
  <2>1. PICK g \in idx : g.path = f.path /\ g.stage \notin {0, f.stage}
    BY DEF IndexOK, TwoSided
  <2> QED
    BY <2>1
<1> QED
  BY <1>1, <1>2 DEF IndexOK

LEMMA RemovedOK ==
  ASSUME NEW idx, IndexOK(idx), NEW p
  PROVE  IndexOK(Removed(idx, p))
<1>1. Removed(idx, p) \in SUBSET idx /\ \A e \in idx \ Removed(idx, p) : e.stage = 0
  BY DEF Removed
<1> QED
  BY <1>1, FewerOK


-----------------------------------------------------------------------------
(***************************************************************************)
(* The order of an index.  The places of its entries, by path and then by  *)
(* stage, are numbers, one for each entry.                                 *)
(***************************************************************************)
Places(idx) == {Place(e) : e \in idx}

LEMMA PlaceOf ==
  ASSUME NEW e \in Entries
  PROVE  \E i \in 1..Len(PathOrder) :
           PathOrder[i] = e.path /\ Place(e) = 4 * i + e.stage
<1>1. DOMAIN PathOrder = 1..Len(PathOrder)
  BY UpdateAssumption, LenProperties DEF IsText
<1>2. \E i \in DOMAIN PathOrder : PathOrder[i] = e.path
  BY DEF Entries, Paths, Range
<1> QED
  BY <1>1, <1>2 DEF Place

LEMMA PlaceTells ==
  ASSUME NEW e \in Entries, NEW f \in Entries
  PROVE  /\ Place(e) \in 4..(4 * Len(PathOrder) + 3)
         /\ Place(e) = Place(f) => e.path = f.path /\ e.stage = f.stage
         /\ e.path = f.path => Place(e) - e.stage = Place(f) - f.stage
<1>1. PICK i \in 1..Len(PathOrder) : PathOrder[i] = e.path /\ Place(e) = 4 * i + e.stage
  BY PlaceOf
<1>2. PICK j \in 1..Len(PathOrder) : PathOrder[j] = f.path /\ Place(f) = 4 * j + f.stage
  BY PlaceOf
<1>3. e.stage \in 0..3 /\ f.stage \in 0..3
  BY DEF Entries
<1>4. Len(PathOrder) \in Nat /\ DOMAIN PathOrder = 1..Len(PathOrder)
  BY UpdateAssumption, LenProperties DEF IsText
<1>5. e.path = f.path => i = j
  BY <1>1, <1>2, <1>4, UpdateAssumption DEF IsInjective
<1>6. Place(e) = Place(f) => i = j /\ e.stage = f.stage
  BY <1>1, <1>2, <1>3, <1>4
<1>7. Place(e) \in 4..(4 * Len(PathOrder) + 3)
  BY <1>1, <1>3, <1>4
<1>8. e.path = f.path => Place(e) - e.stage = Place(f) - f.stage
  <2>1. Place(e) - e.stage = 4 * i
    BY <1>1, <1>3, <1>4
  <2>2. Place(f) - f.stage = 4 * j
    BY <1>2, <1>3, <1>4
  <2> QED
    BY <1>5, <2>1, <2>2
<1> QED
  BY <1>1, <1>2, <1>6, <1>7, <1>8

\* Of the entries that p extends there is a first one.
LEMMA FirstOfExtended ==
  ASSUME NEW idx \in SUBSET Entries, NEW p, Extended(idx, p) # {}
  PROVE  FirstExtended(idx, p) \in Extended(idx, p)
<1> DEFINE places == {Place(e) : e \in Extended(idx, p)}
<1>1. Extended(idx, p) \subseteq Entries
  BY DEF Extended
<1>2. places \in SUBSET Nat /\ places # {}
  <2>1. ASSUME NEW e \in Extended(idx, p)
        PROVE  Place(e) \in Nat
    <3>1. e \in Entries
      BY <1>1
    <3>2. PICK i \in 1..Len(PathOrder) : Place(e) = 4 * i + e.stage
      BY <3>1, PlaceOf
    <3>3. e.stage \in Nat /\ i \in Nat
      BY <3>1 DEF Entries
    <3> QED
      BY <3>2, <3>3
  <2> QED
    BY <2>1
<1> HIDE DEF places
<1>3. PICK m \in places : \A k \in places : m <= k
  BY <1>2, Least
<1>4. PICK e \in Extended(idx, p) : m = Place(e)
  BY DEF places
<1>5. \A f \in Extended(idx, p) : Place(e) <= Place(f)
  BY <1>3, <1>4 DEF places
<1> QED
  BY <1>5, Zenon DEF FirstExtended

LEMMA MadeWayIs ==
  ASSUME cmd.idx \in SUBSET Entries, NEW p
  PROVE  /\ MadeWay(p) \in SUBSET cmd.idx
         /\ \A e \in cmd.idx \ MadeWay(p) :
              e.stage = 0 /\ (Below(e.path, p) \/ Below(p, e.path))
<1> DEFINE flat == IF OverlapsDirectory(cmd.idx, p)
                     THEN DirectoryRemoved(cmd.idx, p) ELSE cmd.idx
<1>1. flat \in SUBSET cmd.idx /\ \A e \in cmd.idx \ flat : e.stage = 0 /\ Below(e.path, p)
  BY DEF DirectoryRemoved
<1>2. MadeWay(p) = IF Extended(flat, p) = {} THEN flat
                   ELSE Removed(flat, FirstExtended(flat, p).path)
  BY DEF MadeWay
<1> HIDE DEF flat
<1>3. CASE Extended(flat, p) = {}
  BY <1>1, <1>2, <1>3
<1>4. CASE Extended(flat, p) # {}
  <2>1. flat \in SUBSET Entries
    BY <1>1
  <2>2. FirstExtended(flat, p) \in Extended(flat, p)
    BY <1>4, <2>1, FirstOfExtended
  <2>3. Below(p, FirstExtended(flat, p).path)
    BY <2>2 DEF Extended
  <2> QED
    BY <1>1, <1>2, <1>4, <2>3 DEF Removed
<1> QED
  BY <1>3, <1>4

LEMMA MadeWayOK ==
  ASSUME IndexOK(cmd.idx), NEW p
  PROVE  IndexOK(MadeWay(p))
<1>1. cmd.idx \in SUBSET Entries
  BY DEF IndexOK, SoundIndex
<1>2. MadeWay(p) \in SUBSET cmd.idx /\ \A e \in cmd.idx \ MadeWay(p) : e.stage = 0
  BY <1>1, MadeWayIs
<1> QED
  BY <1>2, FewerOK

LEMMA PlacesCount ==
  ASSUME NEW idx, SoundIndex(idx)
  PROVE  /\ IsFiniteSet(idx)
         /\ Places(idx) \in SUBSET Nat /\ IsFiniteSet(Places(idx))
         /\ Cardinality(Places(idx)) = Cardinality(idx)
         /\ \A e, f \in idx : Place(e) = Place(f) => e = f
<1> DEFINE all == 4..(4 * Len(PathOrder) + 3)
           g == [e \in idx |-> Place(e)]
<1>1. idx \subseteq Entries
  BY DEF SoundIndex
<1>2. Len(PathOrder) \in Nat
  BY UpdateAssumption, LenProperties DEF IsText
<1>3. Places(idx) \subseteq all
  BY <1>1, PlaceTells DEF Places
<1>4. all \subseteq Nat /\ IsFiniteSet(all)
  <2>1. 4 \in Int /\ 4 * Len(PathOrder) + 3 \in Int
    BY <1>2
  <2>2. IsFiniteSet(all)
    BY <2>1, FS_Interval
  <2> QED
    BY <1>2, <2>2
<1>5. \A e, f \in idx : Place(e) = Place(f) => e = f
  BY <1>1, PlaceTells DEF SoundIndex
<1>6. Places(idx) \in SUBSET Nat /\ IsFiniteSet(Places(idx))
  <2> HIDE DEF all
  <2> QED
    BY <1>3, <1>4, FS_Subset
<1>7. g \in Injection(idx, Places(idx)) /\ g \in Surjection(idx, Places(idx))
  BY <1>5 DEF Injection, IsInjective, Surjection, Places
<1> HIDE DEF g
<1>8. IsFiniteSet(idx) /\ Cardinality(idx) = Cardinality(Places(idx))
  BY <1>6, <1>7, FS_Injection
<1> QED
  BY <1>5, <1>6, <1>8

\* The i-th entry is one of the index, and each one is the i-th for some i.
LEMMA EntryAtIs ==
  ASSUME NEW idx, SoundIndex(idx), NEW i \in 1..Cardinality(idx)
  PROVE  /\ EntryAt(idx, i) \in idx
         /\ Place(EntryAt(idx, i)) = Kth(Places(idx), i)
         /\ Rank(Places(idx), Place(EntryAt(idx, i))) = i - 1
<1>1. i \in 1..Cardinality(Places(idx))
  BY PlacesCount
<1>2. Kth(Places(idx), i) \in Places(idx)
      /\ Rank(Places(idx), Kth(Places(idx), i)) = i - 1
  BY <1>1, PlacesCount, KthIs
<1>3. \E e \in idx : Place(e) = Kth(Places(idx), i)
  BY <1>2 DEF Places
<1>4. EntryAt(idx, i) \in idx /\ Place(EntryAt(idx, i)) = Kth(Places(idx), i)
  BY <1>3 DEF EntryAt, Places
<1> QED
  BY <1>2, <1>4

LEMMA EntryAtOf ==
  ASSUME NEW idx, SoundIndex(idx), NEW e \in idx
  PROVE  /\ Rank(Places(idx), Place(e)) + 1 \in 1..Cardinality(idx)
         /\ EntryAt(idx, Rank(Places(idx), Place(e)) + 1) = e
<1> DEFINE i == Rank(Places(idx), Place(e)) + 1
<1>1. Place(e) \in Places(idx)
  BY DEF Places
<1>2. i \in 1..Cardinality(idx)
  BY <1>1, PlacesCount, RankBelow
<1>3. Kth(Places(idx), i) = Place(e)
  BY <1>1, PlacesCount, KthOf
<1> HIDE DEF i
<1>4. EntryAt(idx, i) = e
  BY <1>2, <1>3, EntryAtIs, PlacesCount
<1> QED
  BY <1>2, <1>4 DEF i

-----------------------------------------------------------------------------
LEMMA OneMore ==
  ASSUME NEW S, IsFiniteSet(S), NEW x, NEW T \in SUBSET (S \cup {x})
  PROVE  /\ IsFiniteSet(T)
         /\ Cardinality(T) \in Nat /\ Cardinality(T) <= Cardinality(S) + 1
<1>1. Cardinality(S) \in Nat
  BY FS_CardinalityType
<1>2. IsFiniteSet(S \cup {x})
  BY FS_AddElement
<1>3. Cardinality(S \cup {x}) \in {Cardinality(S), Cardinality(S) + 1}
  BY FS_AddElement, Zenon
<1>4. IsFiniteSet(T) /\ Cardinality(T) <= Cardinality(S \cup {x})
  BY <1>2, FS_Subset
<1>5. Cardinality(T) \in Nat
  BY <1>4, FS_CardinalityType
<1> QED
  BY <1>1, <1>3, <1>4, <1>5

(***************************************************************************)
(* --refresh.  Adding a file whose entry is there makes no entry more; and *)
(* if it makes none fewer, the entry was no conflict, and the new one has  *)
(* its place.  An index without conflicts keeps its number of entries.     *)
(***************************************************************************)
Clean(idx) == \A e \in idx : e.stage = 0

LEMMA Readded ==
  ASSUME NEW idx, IndexOK(idx), NEW f \in idx, IsFile(f.path), WorkdirOK
  PROVE  LET new == AddByPath(idx, f.path)
         IN  /\ IsFiniteSet(new) /\ Cardinality(new) <= Cardinality(idx)
             /\ Cardinality(new) = Cardinality(idx) =>
                  f.stage = 0 /\ Places(new) = Places(idx)
             /\ Clean(idx) => Clean(new) /\ Cardinality(new) = Cardinality(idx)
<1> DEFINE e == Entry(f.path, 0, workdir[f.path])
           new == AddByPath(idx, f.path)
           rest == idx \ {f}
<1>1. idx \subseteq Entries /\ f \in Entries
  BY DEF IndexOK, SoundIndex
<1>2. e \in Entries /\ e.path = f.path /\ e.stage = 0
  <2>1. f.path \in Paths /\ workdir[f.path] \in Blobs
    BY <1>1 DEF Entries, WorkdirOK, IsFile
  <2> QED
    BY <2>1, EntryFields
<1>3. \A g : g \in new <=>
        \/ g = e
        \/ g \in idx /\ g.path # f.path /\ (g.stage # 0 \/ ~InTheWay(g.path, f.path))
  BY AddByPathIs
<1> HIDE DEF e, new
<1>4. IsFiniteSet(idx) /\ Cardinality(idx) \in Nat
  BY PlacesCount, FS_CardinalityType DEF IndexOK
<1>5. IsFiniteSet(rest) /\ Cardinality(rest) = Cardinality(idx) - 1
  BY <1>4, FS_RemoveElement
<1>6. new \subseteq rest \cup {e}
  BY <1>3
<1> HIDE DEF rest
<1>7. IsFiniteSet(new) /\ Cardinality(new) <= Cardinality(idx)
  <2>1. IsFiniteSet(new)
        /\ Cardinality(new) \in Nat /\ Cardinality(new) <= Cardinality(rest) + 1
    BY <1>5, <1>6, OneMore
  <2> QED
    BY <1>4, <1>5, <2>1
<1>8. ASSUME Cardinality(new) = Cardinality(idx)
      PROVE  f.stage = 0 /\ Places(new) = Places(idx)
  <2>1. rest \subseteq new
    <3>1. SUFFICES ASSUME NEW g \in rest, g \notin new
                   PROVE  FALSE
      OBVIOUS
    <3> DEFINE fewer == rest \ {g}
    <3>2. IsFiniteSet(fewer) /\ Cardinality(fewer) = Cardinality(rest) - 1
      BY <1>5, <3>1, FS_RemoveElement
    <3>3. new \subseteq fewer \cup {e}
      BY <1>6, <3>1
    <3> HIDE DEF fewer
    <3>4. Cardinality(new) <= Cardinality(fewer) + 1
      BY <3>2, <3>3, OneMore
    <3> QED
      BY <1>4, <1>5, <1>8, <3>2, <3>4
  <2>2. f.stage = 0
    <3>1. SUFFICES ASSUME f.stage # 0
                   PROVE  FALSE
      OBVIOUS
    <3>2. PICK g \in idx : g.path = f.path /\ g.stage \notin {0, f.stage}
      BY <3>1 DEF IndexOK, TwoSided
    <3>3. g \in new /\ g # e
      BY <1>2, <2>1, <3>2 DEF rest
    <3> QED
      BY <1>3, <3>2, <3>3
  <2>3. Place(e) = Place(f)
    <3>1. Place(e) \in Int /\ Place(f) \in Int
      <4>1. Len(PathOrder) \in Nat
        BY UpdateAssumption, LenProperties DEF IsText
      <4> QED
        BY <1>1, <1>2, <4>1, PlaceTells
    <3>2. Place(e) - e.stage = Place(f) - f.stage
      BY <1>1, <1>2, PlaceTells
    <3> QED
      BY <1>2, <2>2, <3>1, <3>2
  <2>4. new = rest \cup {e} /\ idx = rest \cup {f}
    <3>1. e \in new
      BY <1>3
    <3> QED
      BY <1>6, <2>1, <3>1 DEF rest
  <2> QED
    BY <2>2, <2>3, <2>4 DEF Places
<1>9. ASSUME Clean(idx)
      PROVE  Clean(new) /\ Cardinality(new) = Cardinality(idx)
  <2>1. ASSUME NEW g \in rest
        PROVE  g \in new /\ g # e
    <3>1. g \in idx /\ g # f /\ g.stage = 0 /\ f.stage = 0
      BY <1>9 DEF rest, Clean
    <3>2. g.path # f.path /\ ~Below(g.path, f.path) /\ ~Below(f.path, g.path)
      BY <3>1 DEF IndexOK, SoundIndex
    <3> QED
      BY <1>2, <1>3, <3>1, <3>2 DEF InTheWay
  <2>2. new = rest \cup {e} /\ e \notin rest
    BY <1>3, <1>6, <2>1
  <2>3. Cardinality(new) = Cardinality(rest) + 1
    BY <1>5, <2>2, FS_AddElement
  <2>4. Clean(new)
    BY <1>2, <1>9, <2>2 DEF Clean, rest
  <2> QED
    BY <1>4, <1>5, <2>3, <2>4
<1> QED
  BY <1>7, <1>8, <1>9 DEF new

\* Indexes with the same places have the same paths, in the same order.
LEMMA SamePlaces ==
  ASSUME NEW idx, SoundIndex(idx), NEW other, SoundIndex(other),
         Places(other) = Places(idx)
  PROVE  /\ PathsOf(other) = PathsOf(idx)
         /\ Cardinality(other) = Cardinality(idx)
         /\ \A i \in 1..Cardinality(idx) :
              /\ EntryAt(other, i).path = EntryAt(idx, i).path
              /\ EntryAt(other, i).stage = EntryAt(idx, i).stage
<1>1. idx \subseteq Entries /\ other \subseteq Entries
  BY DEF SoundIndex
<1>2. Cardinality(other) = Cardinality(idx)
  BY PlacesCount
<1>3. ASSUME NEW e \in idx
      PROVE  \E f \in other : f.path = e.path
  <2>1. PICK f \in other : Place(f) = Place(e)
    <3>1. Place(e) \in Places(other)
      BY DEF Places
    <3> QED
      BY <3>1, Zenon DEF Places
  <2> QED
    BY <1>1, <2>1, PlaceTells
<1>4. ASSUME NEW f \in other
      PROVE  \E e \in idx : e.path = f.path
  <2>1. PICK e \in idx : Place(e) = Place(f)
    <3>1. Place(f) \in Places(idx)
      BY DEF Places
    <3> QED
      BY <3>1, Zenon DEF Places
  <2> QED
    BY <1>1, <2>1, PlaceTells
<1>5. ASSUME NEW i \in 1..Cardinality(idx)
      PROVE  /\ EntryAt(other, i).path = EntryAt(idx, i).path
             /\ EntryAt(other, i).stage = EntryAt(idx, i).stage
  <2>1. EntryAt(idx, i) \in idx /\ Place(EntryAt(idx, i)) = Kth(Places(idx), i)
    BY EntryAtIs
  <2>2. EntryAt(other, i) \in other /\ Place(EntryAt(other, i)) = Kth(Places(idx), i)
    BY <1>2, EntryAtIs
  <2> QED
    BY <1>1, <2>1, <2>2, PlaceTells
<1> QED
  BY <1>2, <1>3, <1>4, <1>5 DEF PathsOf

\* f is the walk after each of the first n entries.
Walked(f, n) ==
  f = [i \in 0..n |-> IF i = 0 THEN [alive |-> TRUE, idx |-> cmd.idx]
                      ELSE Visit(f[i - 1], i)]

LEMMA WalkedExists ==
  ASSUME NEW n \in Nat
  PROVE  \E f : Walked(f, n)
<1> DEFINE T == {m \in Nat : ~ \E f : Walked(f, m)}
<1>1. T = {}
  <2>1. SUFFICES ASSUME T # {}
                 PROVE  FALSE
    OBVIOUS
  <2>2. PICK m \in T : \A k \in T : m <= k
    <3>1. T \in SUBSET Nat
      OBVIOUS
    <3> HIDE DEF T
    <3> QED
      BY <2>1, <3>1, Least
  <2>3. m \in Nat /\ ~ \E f : Walked(f, m)
    OBVIOUS
  <2>4. CASE m = 0
    <3>1. Walked([i \in 0..0 |-> [alive |-> TRUE, idx |-> cmd.idx]], 0)
      BY DEF Walked
    <3> QED
      BY <2>3, <2>4, <3>1
  <2>5. CASE m # 0
    <3>1. m - 1 \in Nat /\ ~(m <= m - 1)
      BY <2>3, <2>5
    <3>2. m - 1 \notin T
      BY <2>2, <3>1, Zenon
    <3>3. PICK f : Walked(f, m - 1)
      BY <3>1, <3>2
    <3> DEFINE h == [i \in 0..m |-> IF i < m THEN f[i] ELSE Visit(f[m - 1], m)]
    <3>4. ASSUME NEW i \in 0..m
          PROVE  h[i] = IF i = 0 THEN [alive |-> TRUE, idx |-> cmd.idx]
                        ELSE Visit(h[i - 1], i)
      <4>1. CASE i < m
        <5>1. i \in 0..(m - 1) /\ h[i] = f[i]
          BY <2>3, <4>1
        <5>2. f[i] = IF i = 0 THEN [alive |-> TRUE, idx |-> cmd.idx]
                     ELSE Visit(f[i - 1], i)
          BY <3>3, <5>1, Zenon DEF Walked
        <5>3. i # 0 => h[i - 1] = f[i - 1]
          BY <2>3, <4>1
        <5> QED
          BY <5>1, <5>2, <5>3
      <4>2. CASE i = m
        <5>1. h[m] = Visit(f[m - 1], m) /\ h[m - 1] = f[m - 1]
          BY <2>3, <2>5
        <5> QED
          BY <2>5, <4>2, <5>1
      <4>3. i < m \/ i = m
        BY <2>3
      <4> QED
        BY <4>1, <4>2, <4>3
    <3>5. DOMAIN h = 0..m /\ h = [i \in DOMAIN h |-> h[i]]
      OBVIOUS
    <3> HIDE DEF h
    <3>6. Walked(h, m)
      BY <3>4, <3>5 DEF Walked
    <3> QED
      BY <2>3, <3>6
  <2> QED
    BY <2>4, <2>5
<1> QED
  BY <1>1

LEMMA VisitIs ==
  ASSUME NEW alive \in BOOLEAN, NEW idx, NEW i
  PROVE  LET w == [alive |-> alive, idx |-> idx]
             p == EntryAt(idx, i).path
         IN  Visit(w, i) =
               IF ~alive \/ i > Cardinality(idx) THEN [alive |-> FALSE, idx |-> idx]
               ELSE [alive |-> TRUE, idx |-> IF IsFile(p) THEN AddByPath(idx, p) ELSE idx]
<1> DEFINE w == [alive |-> alive, idx |-> idx]
           p == EntryAt(idx, i).path
<1>1. w.alive = alive /\ w.idx = idx
  OBVIOUS
<1>2. Visit(w, i) =
        IF ~alive \/ i > Cardinality(idx) THEN [w EXCEPT !.alive = FALSE]
        ELSE IF IsFile(p) THEN [w EXCEPT !.idx = AddByPath(idx, p)] ELSE w
  BY <1>1, Zenon DEF Visit
<1>3. [w EXCEPT !.alive = FALSE] = [alive |-> FALSE, idx |-> idx]
  <2>1. ASSUME NEW v
        PROVE  [w EXCEPT !.alive = v] = [alive |-> v, idx |-> idx]
    OBVIOUS
  <2> QED
    BY <2>1, Zenon
<1>4. ASSUME NEW new
      PROVE  [w EXCEPT !.idx = new] = [alive |-> alive, idx |-> new]
  OBVIOUS
<1>5. CASE alive = FALSE
  <2>1. Visit(w, i) = [w EXCEPT !.alive = FALSE]
    BY <1>2, <1>5, Zenon
  <2> QED
    BY <1>3, <1>5, <2>1, Zenon
<1>6. CASE alive = TRUE
  <2>1. CASE i > Cardinality(idx)
    BY <1>2, <1>3, <2>1, Zenon
  <2>2. CASE ~(i > Cardinality(idx))
    <3>1. Visit(w, i) = IF IsFile(p) THEN [w EXCEPT !.idx = AddByPath(idx, p)] ELSE w
      BY <1>2, <1>6, <2>2, Zenon
    <3>2. [w EXCEPT !.idx = AddByPath(idx, p)] = [alive |-> alive, idx |-> AddByPath(idx, p)]
      BY <1>4, Zenon
    <3>3. Visit(w, i) = [alive |-> alive,
                         idx |-> IF IsFile(p) THEN AddByPath(idx, p) ELSE idx]
      BY <3>1, <3>2, Zenon
    <3> QED
      BY <1>6, <2>2, <3>3, Zenon
  <2> QED
    BY <2>1, <2>2
<1> QED
  BY <1>5, <1>6

(***************************************************************************)
(* The walk after k of n entries: its index is sound and has at most n     *)
(* entries; and if it goes on and still has n, the places are those there  *)
(* were, and the files among the first k entries are no conflicts.  If     *)
(* there was no conflict at all, it goes on.                               *)
(***************************************************************************)
WalkOK(w, n, k) ==
  \E alive \in BOOLEAN, idx \in SUBSET Entries :
    /\ w = [alive |-> alive, idx |-> idx]
    /\ IndexOK(idx) /\ Cardinality(idx) <= n
    /\ Clean(cmd.idx) => alive /\ Cardinality(idx) = n /\ Clean(idx)
    /\ alive /\ Cardinality(idx) = n =>
         /\ Places(idx) = Places(cmd.idx)
         /\ \A i \in 1..k : IsFile(EntryAt(cmd.idx, i).path) =>
                              EntryAt(cmd.idx, i).stage = 0

LEMMA WalkGoesOn ==
  ASSUME IndexOK(cmd.idx), WorkdirOK,
         NEW n \in Nat, n = Cardinality(cmd.idx), NEW k \in 1..n,
         NEW w, WalkOK(w, n, k - 1)
  PROVE  WalkOK(Visit(w, k), n, k)
<1>1. PICK alive \in BOOLEAN, idx \in SUBSET Entries :
        /\ w = [alive |-> alive, idx |-> idx]
        /\ IndexOK(idx) /\ Cardinality(idx) <= n
        /\ Clean(cmd.idx) => alive /\ Cardinality(idx) = n /\ Clean(idx)
        /\ alive /\ Cardinality(idx) = n =>
             /\ Places(idx) = Places(cmd.idx)
             /\ \A i \in 1..(k - 1) : IsFile(EntryAt(cmd.idx, i).path) =>
                                        EntryAt(cmd.idx, i).stage = 0
  BY DEF WalkOK
<1>2. SoundIndex(idx) /\ SoundIndex(cmd.idx)
  BY <1>1 DEF IndexOK
<1>3. Cardinality(idx) \in Nat
  BY <1>2, PlacesCount, FS_CardinalityType
<1> DEFINE e == EntryAt(idx, k)
<1>4. CASE ~alive \/ k > Cardinality(idx)
  <2>1. Visit(w, k) = [alive |-> FALSE, idx |-> idx]
    BY <1>1, <1>4, VisitIs
  <2>2. ~Clean(cmd.idx)
    BY <1>1, <1>4
  <2> QED
    BY <1>1, <2>1, <2>2 DEF WalkOK
<1>5. CASE alive /\ ~(k > Cardinality(idx)) /\ ~IsFile(e.path)
  <2>1. Visit(w, k) = [alive |-> TRUE, idx |-> idx]
    BY <1>1, <1>5, VisitIs
  <2>2. ASSUME Cardinality(idx) = n
        PROVE  \A i \in 1..k : IsFile(EntryAt(cmd.idx, i).path) =>
                                 EntryAt(cmd.idx, i).stage = 0
    <3>1. ~IsFile(EntryAt(cmd.idx, k).path)
      BY <1>1, <1>2, <1>5, <2>2, SamePlaces
    <3>2. \A i \in 1..k : i \in 1..(k - 1) \/ i = k
      OBVIOUS
    <3> QED
      BY <1>1, <1>5, <2>2, <3>1, <3>2
  <2> QED
    BY <1>1, <1>5, <2>1, <2>2 DEF WalkOK
<1>6. CASE alive /\ ~(k > Cardinality(idx)) /\ IsFile(e.path)
  <2> DEFINE new == AddByPath(idx, e.path)
  <2>1. Visit(w, k) = [alive |-> TRUE, idx |-> new]
    BY <1>1, <1>6, VisitIs
  <2>2. e \in idx /\ e.path \in Paths
    <3>1. k \in 1..Cardinality(idx)
      BY <1>3, <1>6
    <3>2. e \in idx
      BY <1>2, <3>1, EntryAtIs
    <3> HIDE DEF e
    <3> QED
      BY <3>2 DEF Entries
  <2>3. /\ IsFiniteSet(new) /\ Cardinality(new) <= Cardinality(idx)
        /\ Cardinality(new) = Cardinality(idx) => e.stage = 0 /\ Places(new) = Places(idx)
        /\ Clean(idx) => Clean(new) /\ Cardinality(new) = Cardinality(idx)
    BY <1>1, <1>6, <2>2, Readded
  <2>4. IndexOK(new)
    BY <1>1, <1>6, <2>2, AddByPathOK
  <2>5. new \in SUBSET Entries
    BY <2>4 DEF IndexOK, SoundIndex
  <2>6. Cardinality(new) \in Nat
    BY <2>3, FS_CardinalityType
  <2>7. Cardinality(new) <= n /\ (Cardinality(new) = n => Cardinality(idx) = n)
    BY <1>1, <1>3, <2>3, <2>6
  <2>8. ASSUME Cardinality(new) = n
        PROVE  /\ Places(new) = Places(cmd.idx)
               /\ \A i \in 1..k : IsFile(EntryAt(cmd.idx, i).path) =>
                                    EntryAt(cmd.idx, i).stage = 0
    <3>1. Cardinality(idx) = n /\ Places(new) = Places(idx) /\ e.stage = 0
      BY <2>3, <2>7, <2>8
    <3>2. EntryAt(cmd.idx, k).stage = 0
      BY <1>1, <1>2, <1>6, <3>1, SamePlaces
    <3>3. \A i \in 1..k : i \in 1..(k - 1) \/ i = k
      OBVIOUS
    <3> HIDE DEF new
    <3> QED
      BY <1>1, <1>6, <3>1, <3>2, <3>3
  <2> HIDE DEF new
  <2>9. Clean(cmd.idx) => Cardinality(new) = n /\ Clean(new)
    BY <1>1, <2>3
  <2> QED
    BY <2>1, <2>4, <2>5, <2>7, <2>8, <2>9 DEF WalkOK
<1> QED
  BY <1>4, <1>5, <1>6

LEMMA WalkSound ==
  ASSUME IndexOK(cmd.idx), WorkdirOK, NEW n \in Nat, n = Cardinality(cmd.idx),
         NEW f, Walked(f, n), NEW k \in 0..n
  PROVE  WalkOK(f[k], n, k)
<1>1. ASSUME NEW i \in 0..n
      PROVE  f[i] = IF i = 0 THEN [alive |-> TRUE, idx |-> cmd.idx]
                    ELSE Visit(f[i - 1], i)
  BY Zenon DEF Walked
<1> DEFINE T == {m \in 0..n : ~WalkOK(f[m], n, m)}
<1>2. T = {}
  <2>1. SUFFICES ASSUME T # {}
                 PROVE  FALSE
    OBVIOUS
  <2>2. PICK m \in T : \A i \in T : m <= i
    <3>1. T \in SUBSET Nat
      OBVIOUS
    <3> HIDE DEF T
    <3> QED
      BY <2>1, <3>1, Least
  <2>3. m \in 0..n /\ ~WalkOK(f[m], n, m)
    OBVIOUS
  <2>4. CASE m = 0
    <3>1. f[m] = [alive |-> TRUE, idx |-> cmd.idx]
      BY <1>1, <2>3, <2>4, Zenon
    <3>2. cmd.idx \in SUBSET Entries /\ Cardinality(cmd.idx) <= n
      BY DEF IndexOK, SoundIndex
    <3>3. \A i \in 1..m : IsFile(EntryAt(cmd.idx, i).path) =>
                           EntryAt(cmd.idx, i).stage = 0
      BY <2>4
    <3>4. WalkOK(f[m], n, m)
      BY <3>1, <3>2, <3>3, Zenon DEF WalkOK
    <3> QED
      BY <2>3, <3>4
  <2>5. CASE m # 0
    <3>1. m - 1 \in 0..n /\ m \in 1..n /\ ~(m <= m - 1)
      BY <2>3, <2>5
    <3>2. m - 1 \notin T
      BY <2>2, <3>1, Zenon
    <3>3. WalkOK(f[m - 1], n, m - 1)
      BY <3>1, <3>2
    <3>4. f[m] = Visit(f[m - 1], m)
      BY <1>1, <2>3, <2>5
    <3> QED
      BY <2>3, <3>1, <3>3, <3>4, WalkGoesOn
  <2> QED
    BY <2>4, <2>5
<1> QED
  BY <1>2

(***************************************************************************)
(* The last entry.  Were it a conflict in a file's way, the entry of its   *)
(* other side would have come before it.                                   *)
(***************************************************************************)
LEMMA LastVisit ==
  ASSUME IndexOK(cmd.idx), WorkdirOK,
         NEW n \in Nat, n = Cardinality(cmd.idx), n > 0,
         NEW w, WalkOK(w, n, n - 1), Visit(w, n).alive
  PROVE  PathsOf(Visit(w, n).idx) = PathsOf(cmd.idx)
<1>1. PICK alive \in BOOLEAN, idx \in SUBSET Entries :
        /\ w = [alive |-> alive, idx |-> idx]
        /\ IndexOK(idx) /\ Cardinality(idx) <= n
        /\ Clean(cmd.idx) => alive /\ Cardinality(idx) = n /\ Clean(idx)
        /\ alive /\ Cardinality(idx) = n =>
             /\ Places(idx) = Places(cmd.idx)
             /\ \A i \in 1..(n - 1) : IsFile(EntryAt(cmd.idx, i).path) =>
                                        EntryAt(cmd.idx, i).stage = 0
  BY DEF WalkOK
<1> DEFINE e == EntryAt(idx, n)
<1>2. SoundIndex(idx) /\ SoundIndex(cmd.idx)
  BY <1>1 DEF IndexOK
<1>3. Cardinality(idx) \in Nat
  BY <1>2, PlacesCount, FS_CardinalityType
<1>4. alive /\ ~(n > Cardinality(idx))
  <2>1. SUFFICES ASSUME ~alive \/ n > Cardinality(idx)
                 PROVE  FALSE
    OBVIOUS
  <2>2. Visit(w, n) = [alive |-> FALSE, idx |-> idx]
    BY <1>1, <2>1, VisitIs
  <2> QED
    BY <2>2
<1>5. Visit(w, n).idx = IF IsFile(e.path) THEN AddByPath(idx, e.path) ELSE idx
  <2>1. Visit(w, n) = [alive |-> TRUE,
                       idx |-> IF IsFile(e.path) THEN AddByPath(idx, e.path) ELSE idx]
    BY <1>1, <1>4, VisitIs
  <2> QED
    BY <2>1
<1>6. Cardinality(idx) = n /\ Places(idx) = Places(cmd.idx)
  BY <1>1, <1>3, <1>4
<1>7. PathsOf(idx) = PathsOf(cmd.idx)
  BY <1>2, <1>6, SamePlaces
<1>8. n \in 1..Cardinality(idx)
  BY <1>6
<1>9. e \in idx /\ Rank(Places(idx), Place(e)) = n - 1
  BY <1>2, <1>8, EntryAtIs
<1>10. CASE ~IsFile(e.path)
  BY <1>5, <1>7, <1>10
<1>11. CASE IsFile(e.path)
  <2>1. e.stage = 0
    <3>1. SUFFICES ASSUME e.stage # 0
                   PROVE  FALSE
      OBVIOUS
    <3>2. PICK f \in idx : f.path = e.path /\ f.stage \notin {0, e.stage}
      BY <1>1, <1>9, <3>1 DEF IndexOK, TwoSided
    <3> DEFINE i == Rank(Places(idx), Place(f)) + 1
    <3>3. i \in 1..n /\ EntryAt(idx, i) = f
      BY <1>2, <1>6, EntryAtOf
    <3> HIDE DEF i
    <3>4. i # n
      BY <3>2, <3>3
    <3>5. i \in 1..(n - 1)
      BY <3>3, <3>4
    <3>6. EntryAt(cmd.idx, i).path = f.path /\ EntryAt(cmd.idx, i).stage = f.stage
      BY <1>2, <1>6, <3>3, SamePlaces
    <3>7. f.stage = 0
      BY <1>1, <1>4, <1>6, <1>11, <3>2, <3>5, <3>6
    <3> QED
      BY <3>2, <3>7
  <2>2. \A g : g \in AddByPath(idx, e.path) <=>
          \/ g = Entry(e.path, 0, workdir[e.path])
          \/ g \in idx /\ g.path # e.path /\ (g.stage # 0 \/ ~InTheWay(g.path, e.path))
    BY AddByPathIs
  <2>3. Entry(e.path, 0, workdir[e.path]).path = e.path
    BY EntryFields
  <2>4. \A g \in idx : g.stage = 0 /\ g.path # e.path => ~InTheWay(g.path, e.path)
    BY <1>2, <1>9, <2>1 DEF SoundIndex, InTheWay
  <2> HIDE DEF e
  <2>5. PathsOf(AddByPath(idx, e.path)) = PathsOf(idx)
    <3>1. \A g \in idx : g.path # e.path => g \in AddByPath(idx, e.path)
      BY <2>2, <2>4
    <3>2. e.path \in PathsOf(AddByPath(idx, e.path))
      BY <2>2, <2>3 DEF PathsOf
    <3>3. PathsOf(idx) \subseteq PathsOf(AddByPath(idx, e.path))
      BY <3>1, <3>2 DEF PathsOf
    <3>4. PathsOf(AddByPath(idx, e.path)) \subseteq PathsOf(idx)
      BY <1>9, <2>2, <2>3 DEF PathsOf
    <3> QED
      BY <3>3, <3>4
  <2> QED
    BY <1>5, <1>7, <1>11, <2>5
<1> QED
  BY <1>10, <1>11

LEMMA RefreshKeeps ==
  ASSUME IndexOK(cmd.idx), WorkdirOK
  PROVE  /\ IndexOK(RefreshWalk.idx)
         /\ RefreshWalk.alive => PathsOf(RefreshWalk.idx) = PathsOf(cmd.idx)
         /\ Clean(cmd.idx) => RefreshWalk.alive
<1> DEFINE n == Cardinality(cmd.idx)
           f == CHOOSE f : Walked(f, n)
<1>1. n \in Nat
  BY PlacesCount, FS_CardinalityType DEF IndexOK
<1>2. RefreshWalk = f[n]
  BY Zenon DEF RefreshWalk, Walked
<1> HIDE DEF n
<1>3. Walked(f, n)
  BY <1>1, WalkedExists, Zenon
<1> HIDE DEF f
<1>4. n = Cardinality(cmd.idx)
  BY DEF n
<1>5. WalkOK(f[n], n, n)
  BY <1>1, <1>3, <1>4, WalkSound
<1>6. IndexOK(RefreshWalk.idx) /\ (Clean(cmd.idx) => RefreshWalk.alive)
  BY <1>2, <1>5 DEF WalkOK
<1>7. CASE n = 0
  <2>1. n \in 0..n
    BY <1>1
  <2>2. f[n] = [alive |-> TRUE, idx |-> cmd.idx]
    BY <1>3, <1>7, <2>1, Zenon DEF Walked
  <2>3. RefreshWalk.idx = cmd.idx
    BY <1>2, <2>2
  <2> QED
    BY <1>6, <2>3
<1>8. CASE n # 0
  <2>1. n - 1 \in 0..n /\ n \in 0..n /\ n > 0
    BY <1>1, <1>8
  <2>2. f[n] = Visit(f[n - 1], n)
    BY <1>3, <1>8, <2>1, Zenon DEF Walked
  <2>3. WalkOK(f[n - 1], n, n - 1)
    BY <1>1, <1>3, <1>4, <2>1, WalkSound
  <2> QED
    BY <1>1, <1>2, <1>4, <1>6, <2>1, <2>2, <2>3, LastVisit
<1> QED
  BY <1>7, <1>8

-----------------------------------------------------------------------------
(***************************************************************************)
(* What the steps have in common.                                          *)
(***************************************************************************)
LEMMA EmptyOK == IndexOK({})
  BY DEF IndexOK, SoundIndex, TwoSided, Entries

LEMMA QuietOut ==
  ASSUME out' = Nothing
  PROVE  OutOK'
  BY DEF OutOK, TreesWritten, ParentsKept, Nothing

LEMMA EndedIs ==
  ASSUME NEW how \in {"done", "failed", "crashed"}
  PROVE  /\ Ended(how) \in Commands
         /\ Ended(how).state = how /\ Ended(how).idx = {}
<1>1. <<>> \in Seq(Paths) /\ <<>> \in Seq(Lines)
  BY EmptySeq
<1> QED
  BY <1>1 DEF Ended, Commands

LEMMA AfterEnd ==
  ASSUME PlumbingInv, NEW how \in {"done", "failed", "crashed"},
         cmd' = Ended(how), IndexOK(index'), odb' \in SUBSET Blobs,
         UNCHANGED workdir, out' = Nothing
  PROVE  PlumbingInv'
<1>1. cmd' \in Commands /\ ~Running' /\ IndexOK(cmd'.idx)
  BY EndedIs, EmptyOK DEF Running
<1>2. WorkdirOK'
  BY DEF PlumbingInv, WorkdirOK, IsFile
<1> QED
  BY <1>1, <1>2, QuietOut DEF PlumbingInv

\* A command that only looks, when no update-index is under way.
LEMMA AfterLook ==
  ASSUME PlumbingInv, UNCHANGED updateVars, ~Running, OutOK'
  PROVE  PlumbingInv'
<1>1. WorkdirOK'
  BY DEF PlumbingInv, WorkdirOK, IsFile, updateVars
<1>2. ~Running'
  BY DEF Running, updateVars
<1> QED
  BY <1>1, <1>2 DEF PlumbingInv, updateVars

LEMMA Stutters ==
  ASSUME PlumbingInv, UNCHANGED plumbingVars
  PROVE  PlumbingInv'
<1>1. UNCHANGED <<index, workdir, odb, cmd, out>>
  BY DEF plumbingVars, updateVars
<1>2. WorkdirOK'
  BY <1>1 DEF PlumbingInv, WorkdirOK, IsFile
<1>3. OutOK'
  BY <1>1 DEF PlumbingInv, OutOK, TreesWritten, Alike, ParentsKept
<1>4. Running => Underway
  BY DEF PlumbingInv
<1>5. Running' => Underway'
  BY <1>1, <1>4 DEF Running, Underway, LinesDone, LineDone, FilesDone, OthersKept,
                    Registers, IsFile
<1> QED
  BY <1>1, <1>2, <1>3, <1>5 DEF PlumbingInv

-----------------------------------------------------------------------------
(***************************************************************************)
(* update-index.                                                           *)
(***************************************************************************)
LEMMA BeginIs ==
  ASSUME NEW opts, NEW files, NEW lines, Begin(opts, files, lines)
  PROVE  cmd' = [state |-> IF "refresh" \in opts THEN "refresh" ELSE "files",
                 opts |-> opts, files |-> files, lines |-> lines, idx |-> index,
                 named |-> files, listed |-> lines, start |-> index, stale |-> FALSE]
  BY DEF Begin, Ended

LEMMA StartedOK ==
  ASSUME NEW state \in {"refresh", "files"}, NEW opts \in SUBSET Options,
         NEW files \in Seq(Paths), NEW lines \in Seq(Lines),
         NEW idx \in SUBSET Entries
  PROVE  [state |-> state, opts |-> opts, files |-> files, lines |-> lines, idx |-> idx,
          named |-> files, listed |-> lines, start |-> idx, stale |-> FALSE] \in Commands
<1>1. ASSUME NEW stale \in BOOLEAN
      PROVE  [state |-> state, opts |-> opts, files |-> files, lines |-> lines,
              idx |-> idx, named |-> files, listed |-> lines, start |-> idx,
              stale |-> stale] \in Commands
  BY DEF Commands
<1> QED
  BY <1>1, Zenon

LEMMA BeginKeeps ==
  ASSUME PlumbingInv, NEW opts \in SUBSET Options,
         NEW files \in Seq(Paths), NEW lines \in Seq(Lines),
         IF "info" \in opts THEN files = <<>> /\ "refresh" \notin opts ELSE lines = <<>>,
         Begin(opts, files, lines), out' = Nothing
  PROVE  PlumbingInv'
<1>1. /\ cmd'.state = IF "refresh" \in opts THEN "refresh" ELSE "files"
      /\ cmd'.opts = opts /\ cmd'.files = files /\ cmd'.lines = lines
      /\ cmd'.idx = index /\ cmd'.named = files /\ cmd'.listed = lines
      /\ cmd'.start = index /\ cmd'.stale = FALSE
  BY BeginIs
<1>2. cmd' \in Commands
  <2>1. index \in SUBSET Entries
    BY DEF PlumbingInv, IndexOK, SoundIndex
  <2> DEFINE state == IF "refresh" \in opts THEN "refresh" ELSE "files"
  <2>2. state \in {"refresh", "files"}
    OBVIOUS
  <2>3. cmd' = [state |-> state, opts |-> opts, files |-> files, lines |-> lines,
                idx |-> index, named |-> files, listed |-> lines, start |-> index,
                stale |-> FALSE]
    BY BeginIs, Zenon
  <2> HIDE DEF state
  <2>4. [state |-> state, opts |-> opts, files |-> files, lines |-> lines,
         idx |-> index, named |-> files, listed |-> lines, start |-> index,
         stale |-> FALSE] \in Commands
    BY <2>1, <2>2, StartedOK, Zenon
  <2> QED
    BY <2>3, <2>4, Zenon
<1>3. UNCHANGED <<index, workdir, odb>>
  BY DEF Begin
<1>4. WorkdirOK'
  BY <1>3 DEF PlumbingInv, WorkdirOK, IsFile
<1>5. Len(files) \in Nat /\ Len(lines) \in Nat
  BY LenProperties
<1>6. Passed(files, files) = 0 /\ Passed(lines, lines) = 0
  BY <1>5 DEF Passed
<1>7. Rest(files, files) /\ Rest(lines, lines)
  BY <1>5, <1>6 DEF Rest
<1>8. LinesDone(index, lines, 0)'
  BY <1>1, <1>3 DEF LinesDone
<1>9. FilesDone(index, files, 0)' /\ OthersKept(index, files, 0)'
  BY <1>1, <1>3 DEF FilesDone, OthersKept
<1>10. Underway'
  BY <1>1, <1>3, <1>6, <1>7, <1>8, <1>9 DEF Underway
<1> QED
  BY <1>1, <1>2, <1>3, <1>4, <1>10, QuietOut DEF PlumbingInv

LEMMA CmdFields ==
  ASSUME cmd \in Commands
  PROVE  /\ cmd.state \in {"refresh", "files", "done", "failed", "crashed"}
         /\ cmd.opts \in SUBSET Options
         /\ cmd.files \in Seq(Paths) /\ Len(cmd.files) \in Nat
         /\ cmd.lines \in Seq(Lines) /\ Len(cmd.lines) \in Nat
         /\ cmd.idx \in SUBSET Entries
         /\ cmd.named \in Seq(Paths) /\ Len(cmd.named) \in Nat
         /\ cmd.listed \in Seq(Lines) /\ Len(cmd.listed) \in Nat
         /\ cmd.start \in SUBSET Entries /\ cmd.stale \in BOOLEAN
  BY LenProperties DEF Commands

LEMMA RefreshKeepsInv ==
  ASSUME PlumbingInv, Refresh, out' = Nothing
  PROVE  PlumbingInv'
<1> DEFINE idx == RefreshWalk.idx
<1>1. /\ cmd \in Commands /\ cmd.state = "refresh" /\ IndexOK(cmd.idx) /\ WorkdirOK
      /\ Underway
  BY DEF PlumbingInv, Refresh, Running
<1>2. IndexOK(idx) /\ (RefreshWalk.alive => PathsOf(idx) = PathsOf(cmd.idx))
  BY <1>1, RefreshKeeps
<1>3. odb' \in SUBSET Blobs
  <2>1. \A p \in PathsOf(cmd.idx) : IsFile(p) => workdir[p] \in Blobs
    <3>1. PathsOf(cmd.idx) \subseteq Paths
      BY <1>1 DEF PathsOf, IndexOK, SoundIndex, Entries
    <3> QED
      BY <1>1, <3>1 DEF WorkdirOK, IsFile
  <2> QED
    BY <2>1 DEF Refresh, PlumbingInv
<1>4. CASE ~RefreshWalk.alive
  <2>1. cmd' = Ended("crashed") /\ UNCHANGED <<index, workdir>>
    BY <1>4 DEF Refresh
  <2>2. IndexOK(index')
    BY <2>1 DEF PlumbingInv
  <2> QED
    BY <1>3, <2>1, <2>2, AfterEnd
<1>5. CASE RefreshWalk.alive
  <2>1. index' = idx /\ cmd' = [cmd EXCEPT !.state = "files", !.idx = idx]
        /\ UNCHANGED workdir
    BY <1>5 DEF Refresh
  <2> HIDE DEF idx
  <2>2. idx \in SUBSET Entries
    BY <1>2 DEF IndexOK, SoundIndex
  <2>3. cmd' \in Commands
    BY <1>1, <2>1, <2>2 DEF Commands
  <2>4. /\ cmd'.state = "files" /\ cmd'.idx = idx /\ cmd'.opts = cmd.opts
        /\ cmd'.files = cmd.files /\ cmd'.lines = cmd.lines /\ cmd'.named = cmd.named
        /\ cmd'.listed = cmd.listed /\ cmd'.start = cmd.start /\ cmd'.stale = cmd.stale
    BY <1>1, <2>1 DEF Commands
  <2>5. "info" \notin cmd.opts /\ cmd.listed = <<>> /\ cmd.idx = cmd.start
        /\ cmd.files = cmd.named /\ Rest(cmd.files, cmd.named) /\ Rest(cmd.lines, cmd.listed)
    BY <1>1 DEF Underway
  <2>6. Passed(cmd.files, cmd.named) = 0
    BY <1>1, <2>5, CmdFields DEF Passed
  <2>7. PathsOf(idx) = PathsOf(cmd.start)
    BY <1>2, <1>5, <2>5
  <2>8. FilesDone(cmd.idx, cmd.named, 0)' /\ OthersKept(cmd.idx, cmd.named, 0)'
    BY <2>4, <2>7 DEF FilesDone, OthersKept
  <2>9. Underway'
    BY <2>1, <2>4, <2>5, <2>6, <2>7, <2>8 DEF Underway
  <2>10. WorkdirOK'
    BY <1>1, <2>1 DEF WorkdirOK, IsFile
  <2> QED
    BY <1>2, <1>3, <2>1, <2>3, <2>4, <2>9, <2>10, QuietOut DEF PlumbingInv
<1> QED
  BY <1>4, <1>5

(***************************************************************************)
(* What is left after one more file or line.                               *)
(***************************************************************************)
LEMMA RestGoesOn ==
  ASSUME NEW S, NEW rest \in Seq(S), NEW all \in Seq(S), rest # <<>>, Rest(rest, all)
  PROVE  /\ Passed(rest, all) \in Nat
         /\ Passed(rest, all) + 1 \in 1..Len(all)
         /\ Head(rest) = all[Passed(rest, all) + 1]
         /\ Passed(Tail(rest), all) = Passed(rest, all) + 1
         /\ Rest(Tail(rest), all)
<1>1. Len(rest) \in Nat /\ Len(all) \in Nat /\ Len(rest) <= Len(all)
  BY LenProperties DEF Rest
<1>2. Len(rest) > 0
  BY <1>1, EmptySeq
<1>3. Len(Tail(rest)) = Len(rest) - 1
      /\ \A i \in 1..Len(Tail(rest)) : Tail(rest)[i] = rest[i + 1]
  BY HeadTailProperties
<1>4. Head(rest) = rest[1]
  BY <1>1, <1>2
<1>5. /\ Passed(rest, all) = Len(all) - Len(rest)
      /\ Passed(Tail(rest), all) = Len(all) - Len(Tail(rest))
  BY DEF Passed
<1>6. Passed(rest, all) \in Nat /\ Passed(rest, all) + 1 \in 1..Len(all)
      /\ Passed(Tail(rest), all) = Passed(rest, all) + 1
  BY <1>1, <1>2, <1>3, <1>5
<1>7. rest[1] = all[Passed(rest, all) + 1]
  BY <1>1, <1>2 DEF Rest
<1>8. ASSUME NEW i \in 1..Len(Tail(rest))
      PROVE  Tail(rest)[i] = all[Passed(Tail(rest), all) + i]
  <2>1. i + 1 \in 1..Len(rest)
    BY <1>1, <1>3
  <2>2. rest[i + 1] = all[Passed(rest, all) + (i + 1)]
    BY <2>1 DEF Rest
  <2>3. Passed(rest, all) + (i + 1) = Passed(Tail(rest), all) + i
    BY <1>1, <1>3, <1>6
  <2> QED
    BY <1>3, <2>2, <2>3
<1>9. Rest(Tail(rest), all)
  BY <1>1, <1>3, <1>8 DEF Rest
<1> QED
  BY <1>4, <1>6, <1>7, <1>9

(***************************************************************************)
(* A file.  new is the command's index with p added or removed.            *)
(***************************************************************************)
WithFile(p) == IF IsFile(p) THEN AddByPath(MadeWay(p), p) ELSE Removed(cmd.idx, p)

LEMMA WithFileOK ==
  ASSUME IndexOK(cmd.idx), WorkdirOK, NEW p \in Paths
  PROVE  IndexOK(WithFile(p))
  BY MadeWayOK, AddByPathOK, RemovedOK DEF WithFile

LEMMA WithFileRegisters ==
  ASSUME NEW p
  PROVE  Registers(WithFile(p), p)
<1>1. CASE IsFile(p)
  BY <1>1, AddByPathIs DEF WithFile, Registers
<1>2. CASE ~IsFile(p)
  BY <1>2 DEF WithFile, Registers, Registered, Removed
<1> QED
  BY <1>1, <1>2

LEMMA WithFileKeepsOthers ==
  ASSUME cmd.idx \in SUBSET Entries,
         NEW p, NEW q, ~InTheWay(q, p), Registers(cmd.idx, q)
  PROVE  Registers(WithFile(p), q)
<1> DEFINE e == Entry(q, 0, workdir[q])
           new == Entry(p, 0, workdir[p])
<1>1. e.path = q /\ new.path = p
  BY EntryFields
<1>2. q # p /\ ~Below(q, p) /\ ~Below(p, q)
  BY DEF InTheWay
<1>3. \A f : f \in AddByPath(MadeWay(p), p) <=>
          \/ f = new
          \/ f \in MadeWay(p) /\ f.path # p /\ (f.stage # 0 \/ ~InTheWay(f.path, p))
  BY AddByPathIs
<1> HIDE DEF e, new
<1>4. CASE IsFile(q)
  <2>1. e \in cmd.idx
    BY <1>4 DEF Registers, e
  <2>2. IsFile(p) => e \in AddByPath(MadeWay(p), p)
    BY <1>1, <1>2, <1>3, <2>1, MadeWayIs
  <2>3. e \in Removed(cmd.idx, p)
    BY <1>1, <1>2, <2>1 DEF Removed
  <2>4. e \in WithFile(p)
    BY <2>2, <2>3 DEF WithFile
  <2> QED
    BY <1>4, <2>4 DEF Registers, e
<1>5. CASE ~IsFile(q)
  <2>1. ~Registered(cmd.idx, q)
    BY <1>5 DEF Registers
  <2>2. \A f \in WithFile(p) : f \in cmd.idx \/ f = new
    BY <1>3, MadeWayIs DEF WithFile, Removed
  <2>3. ~Registered(WithFile(p), q)
    BY <1>1, <1>2, <2>1, <2>2 DEF Registered
  <2> QED
    BY <1>5, <2>3 DEF Registers
<1> QED
  BY <1>4, <1>5

\* Without --replace only p itself can go.
LEMMA WithFileKeepsPaths ==
  ASSUME SoundIndex(cmd.idx), NEW p, "replace" \notin cmd.opts, ~Refused(p)
  PROVE  PathsOf(cmd.idx) \ {p} \subseteq PathsOf(WithFile(p))
<1> SUFFICES ASSUME NEW e \in cmd.idx, e.path # p
             PROVE  e \in WithFile(p)
  BY DEF PathsOf
<1>1. CASE ~IsFile(p)
  BY <1>1 DEF WithFile, Removed
<1>2. CASE IsFile(p)
  <2>1. ~OverlapsDirectory(cmd.idx, p) /\ Extended(cmd.idx, p) = {}
    BY <1>2 DEF Refused
  <2>2. MadeWay(p) = cmd.idx
    BY <2>1 DEF MadeWay
  <2>3. ~Below(p, e.path)
    BY <2>1 DEF Extended
  <2>4. e.stage # 0 \/ ~Below(e.path, p)
    BY <2>1 DEF OverlapsDirectory, Registered, SoundIndex
  <2>5. e \in AddByPath(MadeWay(p), p)
    BY <2>2, <2>3, <2>4, AddByPathIs DEF InTheWay
  <2> QED
    BY <1>2, <2>5 DEF WithFile
<1> QED
  BY <1>1, <1>2

LEMMA FileKeepsInv ==
  ASSUME PlumbingInv, File, out' = Nothing
  PROVE  PlumbingInv'
<1> DEFINE p == Head(cmd.files)
           m == Passed(cmd.files, cmd.named)
           new == WithFile(p)
<1>1. /\ cmd \in Commands /\ IndexOK(cmd.idx) /\ WorkdirOK /\ IndexOK(index)
      /\ odb \subseteq Blobs /\ cmd.state = "files" /\ cmd.files # <<>> /\ Underway
  BY DEF PlumbingInv, File, Running
<1>2. UNCHANGED <<index, workdir>>
  BY DEF File
<1>3. /\ Rest(cmd.files, cmd.named) /\ Rest(cmd.lines, cmd.listed)
      /\ cmd.files \in Seq(Paths) /\ cmd.named \in Seq(Paths)
  BY <1>1, CmdFields DEF Underway
<1>4. /\ m \in Nat /\ m + 1 \in 1..Len(cmd.named) /\ p = cmd.named[m + 1]
      /\ Passed(Tail(cmd.files), cmd.named) = m + 1
      /\ Rest(Tail(cmd.files), cmd.named)
  BY <1>1, <1>3, RestGoesOn
<1>5. p \in Paths /\ Tail(cmd.files) \in Seq(Paths)
  BY <1>1, <1>3, HeadTailProperties
<1> HIDE DEF p, m
<1>6. CASE Refused(p) \/ Impossible(p)
  <2>1. cmd' = Ended("failed") /\ UNCHANGED odb
    BY <1>6 DEF File, p
  <2> QED
    BY <1>1, <1>2, <2>1, AfterEnd
<1>7. CASE ~(Refused(p) \/ Impossible(p))
  <2>1. cmd' = [cmd EXCEPT !.files = Tail(cmd.files), !.idx = new]
        /\ odb' = odb \cup ({workdir[p]} \ {Absent})
    BY <1>7 DEF File, p, WithFile
  <2>2. IndexOK(new)
    BY <1>1, <1>5, WithFileOK
  <2>3. new \in SUBSET Entries /\ cmd.idx \in SUBSET Entries
    BY <1>1, <2>2 DEF IndexOK, SoundIndex
  <2> HIDE DEF new
  <2>4. cmd' \in Commands
    BY <1>1, <1>5, <2>1, <2>3 DEF Commands
  <2>5. /\ cmd'.state = "files" /\ cmd'.idx = new /\ cmd'.opts = cmd.opts
        /\ cmd'.files = Tail(cmd.files) /\ cmd'.lines = cmd.lines
        /\ cmd'.named = cmd.named /\ cmd'.listed = cmd.listed
        /\ cmd'.start = cmd.start /\ cmd'.stale = cmd.stale
    BY <1>1, <2>1 DEF Commands
  <2>6. odb' \subseteq Blobs
    BY <1>1, <1>5, <2>1 DEF WorkdirOK
  <2>7. cmd.named # <<>>
    BY <1>4, EmptySeq
  <2>8. /\ "info" \notin cmd.opts /\ cmd.listed = <<>>
        /\ FilesDone(cmd.idx, cmd.named, m) /\ OthersKept(cmd.idx, cmd.named, m)
        /\ ~cmd.stale => PathsOf(index) = PathsOf(cmd.start)
    BY <1>1, <2>7 DEF Underway, m
  <2>9. FilesDone(new, cmd.named, m + 1)
    <3> SUFFICES ASSUME NEW i \in 1..(m + 1),
                        \A j \in (i + 1)..(m + 1) : ~InTheWay(cmd.named[i], cmd.named[j])
                 PROVE  Registers(new, cmd.named[i])
      BY DEF FilesDone
    <3>1. CASE i = m + 1
      BY <1>4, <3>1, WithFileRegisters DEF new
    <3>2. CASE i # m + 1
      <4>1. i \in 1..m /\ m + 1 \in (i + 1)..(m + 1)
        BY <1>4, <3>2
      <4>2. \A j \in (i + 1)..m : j \in (i + 1)..(m + 1)
        BY <1>4
      <4>3. Registers(cmd.idx, cmd.named[i])
        BY <2>8, <4>1, <4>2 DEF FilesDone
      <4>4. ~InTheWay(cmd.named[i], p)
        BY <1>4, <4>1
      <4> QED
        BY <2>3, <4>3, <4>4, WithFileKeepsOthers DEF new
    <3> QED
      BY <3>1, <3>2
  <2>10. ASSUME "replace" \notin cmd.opts
         PROVE  PathsOf(cmd.start) \ {cmd.named[i] : i \in 1..(m + 1)} \subseteq PathsOf(new)
    <3>1. PathsOf(cmd.idx) \ {p} \subseteq PathsOf(new)
      BY <1>1, <1>7, <2>10, WithFileKeepsPaths DEF IndexOK, new
    <3>2. PathsOf(cmd.start) \ {cmd.named[i] : i \in 1..m} \subseteq PathsOf(cmd.idx)
      BY <2>8, <2>10 DEF OthersKept
    <3>3. \A i \in 1..m : i \in 1..(m + 1)
      BY <1>4
    <3>4. p \in {cmd.named[i] : i \in 1..(m + 1)}
      <4>1. m + 1 \in 1..(m + 1)
        BY <1>4
      <4> QED
        BY <1>4, <4>1
    <3> QED
      BY <3>1, <3>2, <3>3, <3>4
  <2>11. FilesDone(cmd.idx, cmd.named, Passed(cmd.files, cmd.named))'
    <3>1. \A q : Registers(new, q) => Registers(cmd.idx, q)'
      BY <1>2, <2>5 DEF Registers, IsFile
    <3> QED
      BY <1>4, <2>5, <2>9, <3>1 DEF FilesDone
  <2>12. OthersKept(cmd.idx, cmd.named, Passed(cmd.files, cmd.named))'
    BY <1>4, <2>5, <2>10 DEF OthersKept
  <2>13. Underway'
    BY <1>2, <1>3, <1>4, <2>5, <2>8, <2>11, <2>12 DEF Underway
  <2>14. WorkdirOK'
    BY <1>1, <1>2 DEF WorkdirOK, IsFile
  <2> QED
    BY <1>1, <1>2, <2>2, <2>4, <2>5, <2>6, <2>13, <2>14, QuietOut DEF PlumbingInv
<1> QED
  BY <1>6, <1>7

(***************************************************************************)
(* A line of --index-info: what was printed for a plain path names it.     *)
(***************************************************************************)
PlainPath(path) == Range(path) \cap DOMAIN Escapes = {} /\ Head(path) # " "

LEMMA PlainRead ==
  ASSUME NEW path, IsText(path), PlainPath(path)
  PROVE  NameIn(Quoted(path)) = path
<1> DEFINE signs == {i \in DOMAIN path : path[i] # " "}
<1>1. Quoted(path) = path
  BY DEF PlainPath, Quoted
<1>2. path \in Seq(Range(path)) /\ Len(path) \in Nat /\ DOMAIN path = 1..Len(path)
  BY LenProperties DEF IsText
<1>3. NameIn(path) = IF signs = {} THEN <<>> ELSE SubSeq(path, Kth(signs, 1), Len(path))
  BY DEF NameIn
<1>4. CASE path = <<>>
  <2>1. signs = {}
    BY <1>4
  <2> QED
    BY <1>1, <1>3, <1>4, <2>1
<1>5. CASE path # <<>>
  <2>1. Len(path) >= 1 /\ Head(path) = path[1]
    BY <1>2, <1>5, EmptySeq
  <2>2. 1 \in signs
    <3>1. path[1] # " "
      BY <2>1 DEF PlainPath
    <3>2. 1 \in DOMAIN path
      BY <1>2, <2>1
    <3> QED
      BY <3>1, <3>2
  <2>3. signs \in SUBSET Nat /\ IsFiniteSet(signs)
    <3>1. signs \in SUBSET DOMAIN path
      OBVIOUS
    <3>2. IsFiniteSet(1..Len(path))
      BY <1>2, FS_Interval
    <3>3. signs \in SUBSET (1..Len(path))
      BY <1>2, <3>1, Zenon
    <3>4. IsFiniteSet(signs)
      BY <3>2, <3>3, FS_Subset, Zenon
    <3> HIDE DEF signs
    <3> QED
      BY <1>2, <3>3, <3>4
  <2>4. \A i \in signs : i >= 1
    <3>1. \A i \in signs : i \in DOMAIN path
      OBVIOUS
    <3> HIDE DEF signs
    <3> QED
      BY <1>2, <3>1
  <2> HIDE DEF signs
  <2>5. {i \in signs : i < 1} = {}
    <3>1. \A i \in signs : ~(i < 1)
      BY <2>3, <2>4
    <3> QED
      BY <3>1, Zenon
  <2>6. Rank(signs, 1) = 0
    BY <2>5, FS_EmptySet DEF Rank
  <2>7. Kth(signs, 1) = 1
    BY <2>2, <2>3, <2>6, KthOf
  <2>8. SubSeq(path, 1, Len(path)) = path
    BY <1>2, SubSeqFull
  <2> QED
    BY <1>1, <1>3, <2>2, <2>7, <2>8
<1> QED
  BY <1>4, <1>5

LEMMA PathIsText ==
  ASSUME NEW p \in Paths
  PROVE  IsText(p) /\ Len(p) \in Nat
<1>1. PICK i \in DOMAIN PathOrder : p = PathOrder[i]
  BY DEF Paths, Range
<1>2. IsText(PathOrder[i])
  BY UpdateAssumption
<1> QED
  BY <1>1, <1>2, LenProperties DEF IsText

LEMMA LineIs ==
  ASSUME NEW line \in Lines
  PROVE  /\ PassedOver(line) \/ (NameIn(line.text) \in Paths /\ line.blob \in Blobs)
         /\ Plain(line) => NameIn(line.text) = line.path
<1>1. line \in Printed /\ Readable(line)
  BY DEF Lines
<1>2. line.blob = NoId => PassedOver(line)
  BY DEF PassedOver
<1>3. ASSUME NEW layout, NEW path, NEW text, NEW blob,
             line = LineOf(layout, path, text, blob)
      PROVE  /\ line.layout = layout /\ line.path = path
             /\ line.text = text /\ line.blob = blob
  BY <1>3 DEF LineOf
<1>4. CASE line \in {LineOf("stage", e.path, Quoted(e.path), e.blob) : e \in Entries}
  <2>1. PICK e \in Entries : line = LineOf("stage", e.path, Quoted(e.path), e.blob)
    BY <1>4
  <2>2. line.path = e.path /\ line.text = Quoted(e.path) /\ line.blob = e.blob
    BY <1>3, <2>1
  <2>3. e.path \in Paths /\ e.blob \in Blobs
    BY DEF Entries
  <2>4. Plain(line) => NameIn(line.text) = line.path
    BY <2>2, <2>3, PathIsText, PlainRead DEF Plain, PlainPath
  <2> QED
    BY <1>1, <2>2, <2>3, <2>4 DEF Readable
<1>5. CASE line \in {LineOf("tree", e.path, Quoted(Cut(e.path)), e.blob) : e \in Entries}
  <2>1. PICK e \in Entries : line = LineOf("tree", e.path, Quoted(Cut(e.path)), e.blob)
    BY <1>5
  <2>2. /\ line.layout = "tree" /\ line.path = e.path
        /\ line.text = Quoted(Cut(e.path)) /\ line.blob = e.blob
    BY <1>3, <2>1
  <2>3. e.path \in Paths /\ e.blob \in Blobs
    BY DEF Entries
  <2>4. ASSUME Plain(line)
        PROVE  NameIn(line.text) = line.path
    <3>1. IsText(e.path) /\ Len(e.path) \in Nat /\ NameRoom \in Nat
          /\ Len(e.path) <= NameRoom
      BY <2>2, <2>3, <2>4, PathIsText, PlumbingAssumption DEF Plain
    <3>2. (IF Len(e.path) < NameRoom THEN Len(e.path) ELSE NameRoom) = Len(e.path)
      BY <3>1
    <3>3. Cut(e.path) = SubSeq(e.path, 1, Len(e.path))
      BY <3>2, Zenon DEF Cut
    <3>4. Cut(e.path) = e.path
      BY <3>1, <3>3, SubSeqFull DEF IsText
    <3>5. PlainPath(e.path)
      BY <2>2, <2>4 DEF Plain, PlainPath
    <3> QED
      BY <2>2, <3>1, <3>4, <3>5, PlainRead
  <2> QED
    BY <1>1, <2>2, <2>3, <2>4 DEF Readable
<1>6. CASE line \in UNION {Range(lines) : lines \in ForeignLines}
  <2>1. PICK lines \in ForeignLines : line \in Range(lines)
    BY <1>6
  <2>2. IsText(line.path) /\ Foreign(line)
    BY <2>1, PlumbingAssumption
  <2>3. /\ line.blob \in Blobs \cup {NoId}
        /\ line = LineOf(line.layout, line.path, Quoted(line.path), line.blob)
    BY <2>2 DEF Foreign
  <2>4. line.text = Quoted(line.path)
    BY <1>3, <2>3
  <2>5. Plain(line) => NameIn(line.text) = line.path
    BY <2>2, <2>4, PlainRead DEF Plain, PlainPath
  <2>6. PassedOver(line) \/ (NameIn(line.text) \in Paths /\ line.blob \in Blobs)
    <3>1. line.blob \in Blobs \/ line.blob = NoId
      BY <2>3
    <3>2. PassedOver(line) \/ NameIn(line.text) \in Paths
      BY <1>1 DEF Readable
    <3> QED
      BY <1>2, <3>1, <3>2
  <2> QED
    BY <2>5, <2>6
<1> QED
  BY <1>1, <1>4, <1>5, <1>6 DEF Printed

LEMMA LineKeepsInv ==
  ASSUME PlumbingInv, Line, out' = Nothing
  PROVE  PlumbingInv'
<1> DEFINE line == Head(cmd.lines)
           m == Passed(cmd.lines, cmd.listed)
           e == Entry(Name(line), 0, line.blob)
           new == IF PassedOver(line) THEN cmd.idx ELSE Insert(cmd.idx, e)
<1>1. /\ cmd \in Commands /\ IndexOK(cmd.idx) /\ WorkdirOK /\ IndexOK(index)
      /\ odb \subseteq Blobs /\ cmd.state = "files" /\ cmd.lines # <<>>
      /\ "info" \in cmd.opts /\ Underway
  BY DEF PlumbingInv, Line, Running
<1>2. UNCHANGED <<index, workdir, odb>>
      /\ cmd' = [cmd EXCEPT !.lines = Tail(cmd.lines), !.idx = new]
  BY DEF Line, Name
<1>3. /\ Rest(cmd.files, cmd.named) /\ Rest(cmd.lines, cmd.listed)
      /\ cmd.lines \in Seq(Lines) /\ cmd.listed \in Seq(Lines)
      /\ cmd.named = <<>> /\ LinesDone(cmd.idx, cmd.listed, m)
      /\ ~cmd.stale => PathsOf(index) = PathsOf(cmd.start)
  BY <1>1, CmdFields DEF Underway
<1>4. /\ m \in Nat /\ m + 1 \in 1..Len(cmd.listed) /\ line = cmd.listed[m + 1]
      /\ Passed(Tail(cmd.lines), cmd.listed) = m + 1
      /\ Rest(Tail(cmd.lines), cmd.listed)
  BY <1>1, <1>3, RestGoesOn
<1>5. line \in Lines /\ Tail(cmd.lines) \in Seq(Lines)
      /\ Len(cmd.listed) \in Nat /\ DOMAIN cmd.listed = 1..Len(cmd.listed)
  BY <1>1, <1>3, HeadTailProperties, LenProperties
<1> HIDE DEF line, m
<1>6. e.path = Name(line) /\ e.stage = 0 /\ (PassedOver(line) \/ e \in Entries)
  BY <1>5, EntryFields, LineIs DEF Name
<1>7. \A f : f \in Insert(cmd.idx, e) <=>
        \/ f = e
        \/ f \in cmd.idx /\ (f.stage # 0 \/ ~InTheWay(f.path, e.path))
  BY <1>6, InsertIs
<1> HIDE DEF e
<1>8. IndexOK(new)
  BY <1>1, <1>6, InsertOK
<1>9. new \in SUBSET Entries
  BY <1>8 DEF IndexOK, SoundIndex
<1>10. \A f \in new : f \in cmd.idx \/ f = e
  BY <1>7
<1>11. ASSUME NEW i \in 1..(m + 1)
       PROVE  LineDone(new, cmd.listed, i)
  <2> DEFINE f == Entry(Name(cmd.listed[i]), 0, cmd.listed[i].blob)
  <2>1. CASE i = m + 1
    BY <1>4, <1>7, <2>1 DEF LineDone, e
  <2>2. CASE i # m + 1
    <3>1. i \in 1..m /\ m + 1 \in DOMAIN cmd.listed \ {i}
      BY <1>4, <1>5, <2>2
    <3>2. LineDone(cmd.idx, cmd.listed, i)
      BY <1>3, <3>1 DEF LinesDone
    <3>3. f.path = Name(cmd.listed[i])
      BY EntryFields
    <3>4. ASSUME f \in cmd.idx
          PROVE  f \in new \/ InTheWay(Name(cmd.listed[i]), Name(cmd.listed[m + 1]))
      BY <1>4, <1>6, <1>7, <3>3, <3>4
    <3> HIDE DEF new
    <3> QED
      BY <3>1, <3>2, <3>4 DEF LineDone
  <2> QED
    BY <2>1, <2>2
<1>12. PathsOf(new) \subseteq PathsOf(cmd.start) \cup {Name(l) : l \in Range(cmd.listed)}
  <2>1. PathsOf(cmd.idx) \subseteq PathsOf(cmd.start) \cup {Name(l) : l \in Range(cmd.listed)}
    BY <1>3 DEF LinesDone
  <2>2. line \in Range(cmd.listed)
    BY <1>4, <1>5 DEF Range
  <2>3. PathsOf(new) \subseteq PathsOf(cmd.idx) \cup {Name(line)}
    BY <1>6, <1>10 DEF PathsOf
  <2> QED
    BY <2>1, <2>2, <2>3
<1> HIDE DEF new
<1>13. cmd' \in Commands
  BY <1>1, <1>2, <1>5, <1>9 DEF Commands
<1>14. /\ cmd'.state = "files" /\ cmd'.idx = new /\ cmd'.opts = cmd.opts
       /\ cmd'.files = cmd.files /\ cmd'.lines = Tail(cmd.lines)
       /\ cmd'.named = cmd.named /\ cmd'.listed = cmd.listed
       /\ cmd'.start = cmd.start /\ cmd'.stale = cmd.stale
  BY <1>1, <1>2 DEF Commands
<1>15. LinesDone(cmd.idx, cmd.listed, Passed(cmd.lines, cmd.listed))'
  <2>1. LinesDone(new, cmd.listed, m + 1)
    BY <1>11, <1>12 DEF LinesDone
  <2> QED
    BY <1>4, <1>14, <2>1 DEF LinesDone, LineDone
<1>16. Underway'
  BY <1>1, <1>2, <1>3, <1>4, <1>14, <1>15 DEF Underway
<1>17. WorkdirOK'
  BY <1>1, <1>2 DEF WorkdirOK, IsFile
<1> QED
  BY <1>1, <1>2, <1>8, <1>13, <1>14, <1>16, <1>17, QuietOut DEF PlumbingInv

LEMMA WriteKeepsInv ==
  ASSUME PlumbingInv, Write, out' = Nothing
  PROVE  PlumbingInv'
<1>1. /\ IndexOK(cmd.idx) /\ odb \subseteq Blobs
      /\ index' = cmd.idx /\ cmd' = Ended("done") /\ UNCHANGED <<workdir, odb>>
  BY DEF PlumbingInv, Write
<1> QED
  BY <1>1, AfterEnd

-----------------------------------------------------------------------------
(***************************************************************************)
(* The other commands.                                                     *)
(***************************************************************************)
LEMMA TreeIndexOK ==
  ASSUME NEW t \in StoredTrees
  PROVE  IndexOK(IndexOf(t))
<1>1. /\ t \subseteq [path : Paths, blob : Blobs]
      /\ \A e, f \in t : (e.path = f.path => e = f) /\ ~Below(e.path, f.path)
  BY PlumbingAssumption
<1>2. ASSUME NEW e \in t
      PROVE  /\ Entry(e.path, 0, e.blob) \in Entries
             /\ Entry(e.path, 0, e.blob).path = e.path
             /\ Entry(e.path, 0, e.blob).stage = 0
  BY <1>1, EntryFields
<1>3. \A f \in IndexOf(t) : \E e \in t : f = Entry(e.path, 0, e.blob)
  BY DEF IndexOf
<1>4. IndexOf(t) \subseteq Entries /\ \A f \in IndexOf(t) : f.stage = 0
  BY <1>2, <1>3
<1>5. ASSUME NEW f \in IndexOf(t), NEW g \in IndexOf(t)
      PROVE  (f.path = g.path => f = g) /\ ~Below(f.path, g.path)
  BY <1>1, <1>2, <1>3
<1> QED
  BY <1>4, <1>5 DEF IndexOK, SoundIndex, TwoSided

LineFor(layout, e) ==
  IF layout = "stage" THEN LineOf("stage", e.path, Quoted(e.path), e.blob)
  ELSE LineOf("tree", e.path, Quoted(Cut(e.path)), e.blob)

LEMMA ListingOK ==
  ASSUME NEW idx, IndexOK(idx), NEW layout \in {"stage", "tree"}
  PROVE  [i \in 1..Cardinality(idx) |-> LineFor(layout, EntryAt(idx, i))] \in Seq(Printed)
<1> DEFINE n == Cardinality(idx)
           lines == [i \in 1..n |-> LineFor(layout, EntryAt(idx, i))]
<1>1. n \in Nat
  BY PlacesCount, FS_CardinalityType DEF IndexOK
<1>2. ASSUME NEW i \in 1..n
      PROVE  LineFor(layout, EntryAt(idx, i)) \in Printed
  <2>1. EntryAt(idx, i) \in Entries
    BY EntryAtIs DEF IndexOK, SoundIndex
  <2>2. ASSUME NEW e \in Entries
        PROVE  LineFor(layout, e) \in Printed
    BY DEF LineFor, Printed
  <2> QED
    BY <2>1, <2>2
<1> HIDE DEF n
<1>3. lines \in [1..n -> Printed]
  BY <1>2
<1> HIDE DEF lines
<1>4. lines \in Seq(Printed)
  BY <1>1, <1>3, SeqDef
<1> QED
  BY <1>4 DEF lines, n

LEMMA ListingKeepsInv ==
  ASSUME PlumbingInv, NEW idx, IndexOK(idx), NEW layout \in {"stage", "tree"},
         ~Running, UNCHANGED updateVars,
         out' = [kind |-> "listing",
                 lines |-> [i \in 1..Cardinality(idx) |->
                              LineFor(layout, EntryAt(idx, i))]]
  PROVE  PlumbingInv'
<1>1. OutOK'
  BY ListingOK DEF OutOK, TreesWritten, ParentsKept
<1> QED
  BY <1>1, AfterLook

LEMMA ReadTreeKeepsInv ==
  ASSUME PlumbingInv, NEW t \in StoredTrees, ReadTree(t)
  PROVE  PlumbingInv'
<1>1. /\ cmd \in Commands /\ IndexOK(cmd.idx) /\ WorkdirOK /\ odb \subseteq Blobs
      /\ OutOK /\ (Running => Underway)
  BY DEF PlumbingInv
<1>2. /\ index' = IndexOf(t) /\ UNCHANGED <<workdir, odb>>
      /\ out' = IF out.kind = "listing" THEN out ELSE Nothing
  BY DEF ReadTree
<1>3. PICK stale \in BOOLEAN : stale = Running /\ cmd' = [cmd EXCEPT !.stale = stale]
  <2>1. cmd' = [cmd EXCEPT !.stale = Running]
    BY DEF ReadTree, Written
  <2>2. Running \in BOOLEAN
    BY DEF Running
  <2> QED
    BY <2>1, <2>2, Zenon
<1>4. IndexOK(index')
  BY <1>2, TreeIndexOK
<1>5. cmd' \in Commands
  BY <1>1, <1>3 DEF Commands
<1>6. /\ cmd'.state = cmd.state /\ cmd'.idx = cmd.idx /\ cmd'.opts = cmd.opts
      /\ cmd'.files = cmd.files /\ cmd'.lines = cmd.lines
      /\ cmd'.named = cmd.named /\ cmd'.listed = cmd.listed
      /\ cmd'.start = cmd.start /\ cmd'.stale = stale
  BY <1>1, <1>3 DEF Commands
<1>7. WorkdirOK'
  BY <1>1, <1>2 DEF WorkdirOK, IsFile
<1>8. OutOK'
  BY <1>1, <1>2 DEF OutOK, TreesWritten, ParentsKept, Nothing
<1>9. ASSUME Running'
      PROVE  Underway'
  <2>1. Running /\ Underway /\ stale
    BY <1>1, <1>3, <1>6, <1>9 DEF Running
  <2>2. LinesDone(cmd.idx, cmd.listed, Passed(cmd.lines, cmd.listed))
          => LinesDone(cmd.idx, cmd.listed, Passed(cmd.lines, cmd.listed))'
    BY <1>6 DEF LinesDone, LineDone
  <2>3. FilesDone(cmd.idx, cmd.named, Passed(cmd.files, cmd.named))
          => FilesDone(cmd.idx, cmd.named, Passed(cmd.files, cmd.named))'
    BY <1>2, <1>6 DEF FilesDone, Registers, IsFile
  <2>4. OthersKept(cmd.idx, cmd.named, Passed(cmd.files, cmd.named))
          => OthersKept(cmd.idx, cmd.named, Passed(cmd.files, cmd.named))'
    BY <1>6 DEF OthersKept
  <2> QED
    BY <1>6, <2>1, <2>2, <2>3, <2>4 DEF Underway
<1> QED
  BY <1>1, <1>2, <1>4, <1>5, <1>6, <1>7, <1>8, <1>9 DEF PlumbingInv

\* A step of the user's, or of a command that is not update-index.
LEMMA AfterQuiet ==
  ASSUME PlumbingInv, ~Running, UNCHANGED <<odb, cmd>>,
         IndexOK(index'), WorkdirOK', out' = Nothing
  PROVE  PlumbingInv'
<1>1. ~Running'
  BY DEF Running
<1> QED
  BY <1>1, QuietOut DEF PlumbingInv

LEMMA CheckoutKeepsInv ==
  ASSUME PlumbingInv, CheckoutIndex
  PROVE  PlumbingInv'
<1>1. /\ ~Running /\ IndexOK(index) /\ UNCHANGED <<index, odb, cmd>> /\ out' = Nothing
      /\ workdir' = [p \in Paths |->
                       IF Registered(index, p)
                         THEN (CHOOSE e \in index : e.path = p).blob ELSE Absent]
  BY DEF PlumbingInv, CheckoutIndex
<1>2. ASSUME NEW p \in Paths, Registered(index, p)
      PROVE  (CHOOSE e \in index : e.path = p).blob \in Blobs
  <2>1. \E e \in index : e.path = p
    BY <1>2 DEF Registered
  <2>2. (CHOOSE e \in index : e.path = p) \in Entries
    BY <1>1, <2>1 DEF IndexOK, SoundIndex
  <2> QED
    BY <2>2 DEF Entries
<1>3. workdir' \in [Paths -> Blobs \cup {Absent}]
  BY <1>1, <1>2
<1>4. \A p \in Paths : workdir'[p] # Absent => Registered(index, p)
  BY <1>1
<1>5. \A p, q \in Paths : Registered(index, p) /\ Registered(index, q) => ~Below(p, q)
  BY <1>1 DEF IndexOK, SoundIndex, Registered
<1>6. WorkdirOK'
  BY <1>3, <1>4, <1>5 DEF WorkdirOK, IsFile
<1> QED
  BY <1>1, <1>6, AfterQuiet

LEMMA SaveKeepsInv ==
  ASSUME PlumbingInv, NEW p \in Paths, NEW b \in Blobs, SaveFile(p, b)
  PROVE  PlumbingInv'
<1>1. /\ ~Running /\ IndexOK(index) /\ WorkdirOK /\ UNCHANGED <<index, odb, cmd>>
      /\ out' = Nothing /\ workdir' = [workdir EXCEPT ![p] = b]
      /\ ~IsDirectory(p) /\ \A q \in Paths : Below(p, q) => ~IsFile(q)
  BY DEF PlumbingInv, SaveFile
<1>2. workdir' \in [Paths -> Blobs \cup {Absent}]
  BY <1>1 DEF WorkdirOK
<1>3. \A q \in Paths : workdir'[q] # Absent => IsFile(q) \/ q = p
  BY <1>1 DEF WorkdirOK, IsFile
<1>4. WorkdirOK'
  <2> SUFFICES ASSUME NEW q \in Paths, NEW r \in Paths,
                      workdir'[q] # Absent, workdir'[r] # Absent
               PROVE  ~Below(q, r)
    BY <1>2 DEF WorkdirOK, IsFile
  <2>1. CASE IsFile(q) /\ IsFile(r)
    BY <1>1, <2>1 DEF WorkdirOK
  <2>2. CASE q = p /\ r = p
    BY <2>2, PathLength
  <2>3. CASE q = p /\ IsFile(r)
    BY <1>1, <2>3
  <2>4. CASE r = p /\ IsFile(q)
    BY <1>1, <2>4 DEF IsDirectory
  <2> QED
    BY <1>3, <2>1, <2>2, <2>3, <2>4
<1> QED
  BY <1>1, <1>4, AfterQuiet

LEMMA RemoveKeepsInv ==
  ASSUME PlumbingInv, NEW p \in Paths, RemoveFile(p)
  PROVE  PlumbingInv'
<1>1. /\ ~Running /\ IndexOK(index) /\ WorkdirOK /\ UNCHANGED <<index, odb, cmd>>
      /\ out' = Nothing /\ workdir' = [workdir EXCEPT ![p] = Absent]
  BY DEF PlumbingInv, RemoveFile
<1>2. workdir' \in [Paths -> Blobs \cup {Absent}]
  BY <1>1 DEF WorkdirOK
<1>3. \A q \in Paths : workdir'[q] # Absent => IsFile(q)
  BY <1>1 DEF WorkdirOK, IsFile
<1>4. WorkdirOK'
  BY <1>1, <1>2, <1>3 DEF WorkdirOK, IsFile
<1> QED
  BY <1>1, <1>4, AfterQuiet

LEMMA ConflictKeepsInv ==
  ASSUME PlumbingInv, NEW p \in Paths, NEW b \in Blobs, NEW sides \in ConflictSides,
         Conflict(p, b, sides)
  PROVE  PlumbingInv'
<1> DEFINE rest == Removed(index, p)
           Side(s) == Entry(p, s, IF s = 2 THEN workdir[p] ELSE b)
           new == rest \cup {Side(s) : s \in sides}
<1>1. /\ ~Running /\ IndexOK(index) /\ WorkdirOK /\ UNCHANGED <<workdir, odb, cmd>>
      /\ out' = Nothing /\ index' = new /\ odb \subseteq Blobs
      /\ \A e \in index : e.stage = 0
      /\ {b, workdir[p]} \subseteq odb
  BY DEF PlumbingInv, Conflict
<1>2. sides \subseteq 1..3 /\ 2 \in sides /\ sides # {2}
  BY PlumbingAssumption
<1>3. ASSUME NEW s \in sides
      PROVE  Side(s) \in Entries /\ Side(s).path = p /\ Side(s).stage = s /\ s \in 1..3
  BY <1>1, <1>2, EntryFields
<1>4. rest \subseteq index /\ \A e \in rest : e.path # p /\ e.stage = 0
  BY <1>1 DEF Removed
<1> HIDE DEF rest, Side
<1>5. SoundIndex(rest)
  BY <1>1, <1>4 DEF IndexOK, SoundIndex
<1>6. SoundIndex(new)
  <2>1. new \subseteq Entries
    BY <1>3, <1>5 DEF SoundIndex
  <2>2. ASSUME NEW e \in new, NEW f \in new
        PROVE  /\ e.path = f.path /\ e.stage = f.stage => e = f
               /\ e.stage = 0 /\ f.stage = 0 => ~Below(e.path, f.path)
    BY <1>3, <1>4, <1>5 DEF SoundIndex
  <2> QED
    BY <2>1, <2>2 DEF SoundIndex
<1>7. TwoSided(new)
  <2> SUFFICES ASSUME NEW e \in new, e.stage # 0
               PROVE  \E f \in new : f.path = e.path /\ f.stage \notin {0, e.stage}
    BY DEF TwoSided
  <2>1. PICK s \in sides : e = Side(s)
    BY <1>4
  <2>2. PICK r \in sides : r # s
    BY <1>2
  <2>3. Side(r) \in new /\ Side(r).path = e.path /\ Side(r).stage \notin {0, e.stage}
    BY <1>3, <2>1, <2>2
  <2> QED
    BY <2>3
<1> HIDE DEF new
<1>8. WorkdirOK'
  <2>1. WorkdirOK /\ UNCHANGED workdir
    BY <1>1
  <2> QED
    BY <2>1 DEF WorkdirOK, IsFile
<1> QED
  BY <1>1, <1>6, <1>7, <1>8, AfterQuiet DEF IndexOK

-----------------------------------------------------------------------------
(***************************************************************************)
(* write-tree.  What is cut off an entry's path, put before it again.      *)
(***************************************************************************)
LEMMA RerootedBack ==
  ASSUME NEW p \in Paths, NEW prefix, IsText(prefix), Below(p, prefix)
  PROVE  prefix \o <<"/">> \o SubSeq(p, Len(prefix) + 2, Len(p)) = p
<1> DEFINE n == Len(prefix)
           S == Range(p)
<1>1. p \in Seq(S)
  <2>1. PICK i \in DOMAIN PathOrder : p = PathOrder[i]
    BY DEF Paths, Range
  <2>2. IsText(PathOrder[i])
    BY UpdateAssumption
  <2> QED
    BY <2>1, <2>2 DEF IsText
<1>2. n \in Nat /\ Len(p) \in Nat
  BY <1>1, LenProperties DEF IsText
<1>3. SubSeq(p, 1, n) = prefix /\ n + 1 \in 1..Len(p) /\ p[n + 1] = "/"
  BY <1>2 DEF Below, StartsWith
<1> HIDE DEF n, S
<1>4. SubSeq(p, 1, n + 1) = SubSeq(p, 1, n) \o <<p[n + 1]>>
  <2>1. 1 \in 1..Len(p) /\ (n + 1) - 1 = n
    BY <1>2, <1>3
  <2> QED
    BY <1>1, <1>3, <2>1, SubSeqRecursiveSecond
<1>5. SubSeq(p, 1, n + 1) \o SubSeq(p, (n + 1) + 1, Len(p)) = SubSeq(p, 1, Len(p))
  <2>1. /\ 1 \in 1..(Len(p) + 1) /\ n + 1 \in (1 - 1)..Len(p)
        /\ Len(p) \in (n + 1)..Len(p)
    BY <1>2, <1>3
  <2> QED
    BY <1>1, <2>1, ConcatAdjacentSubSeq
<1>6. SubSeq(p, 1, Len(p)) = p
  BY <1>1, SubSeqFull
<1>7. (n + 1) + 1 = n + 2
  BY <1>2
<1>8. SubSeq(p, 1, n + 1) \o SubSeq(p, n + 2, Len(p)) = p
  BY <1>5, <1>6, <1>7, Zenon
<1>9. SubSeq(p, 1, n + 1) = prefix \o <<"/">>
  BY <1>3, <1>4, Zenon
<1> QED
  BY <1>8, <1>9, Zenon DEF n

\* The text behind a prefix and its slash, character by character.
LEMMA Behind ==
  ASSUME NEW p \in Paths, NEW prefix, IsText(prefix), Below(p, prefix)
  PROVE  LET n == Len(prefix)
             rest == SubSeq(p, n + 2, Len(p))
         IN  /\ n \in Nat /\ Len(p) \in Nat /\ n + 1 <= Len(p) /\ p[n + 1] = "/"
             /\ \A i \in 1..n : p[i] = prefix[i]
             /\ Len(rest) = Len(p) - (n + 1)
             /\ \A i \in 1..Len(rest) : rest[i] = p[i + (n + 1)]
<1> DEFINE n == Len(prefix)
           S == Range(p)
<1>1. p \in Seq(S) /\ Len(p) \in Nat /\ n \in Nat
  BY PathIsText, LenProperties DEF IsText
<1>2. SubSeq(p, 1, n) = prefix /\ n + 1 <= Len(p) /\ p[n + 1] = "/"
  BY <1>1 DEF Below, StartsWith
<1> HIDE DEF n, S
<1>3. \A i \in 1..n : SubSeq(p, 1, n)[i] = p[i]
  BY <1>1, <1>2
<1>4. Len(SubSeq(p, n + 2, Len(p))) = Len(p) - (n + 1)
      /\ \A i \in 1..(Len(p) - (n + 1)) : SubSeq(p, n + 2, Len(p))[i] = p[i + (n + 1)]
  BY <1>1, <1>2
<1> QED
  BY <1>1, <1>2, <1>3, <1>4 DEF n

LEMMA RerootedApart ==
  ASSUME NEW p \in Paths, NEW q \in Paths, NEW prefix, IsText(prefix),
         Below(p, prefix), Below(q, prefix),
         Below(SubSeq(p, Len(prefix) + 2, Len(p)), SubSeq(q, Len(prefix) + 2, Len(q)))
  PROVE  Below(p, q)
<1> DEFINE n == Len(prefix)
           a == SubSeq(p, n + 2, Len(p))
           b == SubSeq(q, n + 2, Len(q))
<1>1. /\ n \in Nat /\ Len(p) \in Nat /\ n + 1 <= Len(p) /\ p[n + 1] = "/"
      /\ \A i \in 1..n : p[i] = prefix[i]
      /\ Len(a) = Len(p) - (n + 1) /\ \A i \in 1..Len(a) : a[i] = p[i + (n + 1)]
  BY Behind
<1>2. /\ Len(q) \in Nat /\ n + 1 <= Len(q) /\ q[n + 1] = "/"
      /\ \A i \in 1..n : q[i] = prefix[i]
      /\ Len(b) = Len(q) - (n + 1) /\ \A i \in 1..Len(b) : b[i] = q[i + (n + 1)]
  BY Behind
<1>3. p \in Seq(Range(p)) /\ q \in Seq(Range(q)) /\ a \in Seq(Range(p))
  <2>1. p \in Seq(Range(p)) /\ q \in Seq(Range(q))
    BY PathIsText DEF IsText
  <2>2. n + 2 \in 1..(Len(p) + 1)
    BY <1>1
  <2> QED
    BY <1>1, <2>1, <2>2
<1>4. Len(b) < Len(a) /\ SubSeq(a, 1, Len(b)) = b /\ a[Len(b) + 1] = "/"
  BY <1>1, <1>2 DEF Below, StartsWith
<1> HIDE DEF a, b, n
<1>5. Len(q) < Len(p) /\ p[Len(q) + 1] = "/"
  <2>1. Len(b) + 1 \in 1..Len(a)
    BY <1>1, <1>2, <1>4
  <2>2. a[Len(b) + 1] = p[(Len(b) + 1) + (n + 1)]
    BY <1>1, <2>1
  <2>3. (Len(b) + 1) + (n + 1) = Len(q) + 1
    BY <1>1, <1>2
  <2> QED
    BY <1>1, <1>2, <1>4, <2>2, <2>3
<1>6. ASSUME NEW i \in 1..Len(q)
      PROVE  p[i] = q[i]
  <2>1. CASE i <= n
    BY <1>1, <1>2, <2>1
  <2>2. CASE i = n + 1
    BY <1>1, <1>2, <2>2
  <2>3. CASE i > n + 1
    <3> DEFINE k == i - (n + 1)
    <3>1. k \in 1..Len(b) /\ k \in 1..Len(a) /\ k + (n + 1) = i
      BY <1>1, <1>2, <1>4, <2>3
    <3> HIDE DEF k
    <3>2. SubSeq(a, 1, Len(b))[k] = a[k]
      BY <1>1, <1>2, <1>3, <1>4, <3>1
    <3> QED
      BY <1>1, <1>2, <1>4, <3>1, <3>2
  <2> QED
    BY <1>1, <2>1, <2>2, <2>3
<1>7. SubSeq(p, 1, Len(q)) = q
  <2> DEFINE s == SubSeq(p, 1, Len(q))
  <2>1. s \in Seq(Range(p)) /\ Len(s) = Len(q) /\ \A i \in 1..Len(q) : s[i] = p[i]
    BY <1>1, <1>2, <1>3, <1>5
  <2> HIDE DEF s
  <2>2. s = q
    BY <1>2, <1>3, <1>6, <2>1, SeqEqual
  <2> QED
    BY <2>2 DEF s
<1> QED
  BY <1>1, <1>2, <1>5, <1>7 DEF Below, StartsWith

LEMMA RerootedIs ==
  ASSUME NEW prefix, NEW e \in Entries
  PROVE  /\ Rerooted(prefix, e).path = SubSeq(e.path, Len(prefix) + 2, Len(e.path))
         /\ Rerooted(prefix, e).stage = e.stage
         /\ Rerooted(prefix, e).blob = e.blob
  BY DEF Rerooted, Entries

LEMMA TreeBelow ==
  ASSUME IndexOK(index), NEW prefix, IsText(prefix), prefix # <<>>, Alike(prefix) = {},
         \A e \in InTree(prefix) : e.stage = 0
  PROVE  {[path |-> prefix \o <<"/">> \o e.path, blob |-> e.blob] :
            e \in TreeOf(TreeIndex(prefix))}
           = {e \in TreeOf(index) : Below(e.path, prefix)}
<1> DEFINE put(e) == [path |-> prefix \o <<"/">> \o e.path, blob |-> e.blob]
           cut(f) == [path |-> Rerooted(prefix, f).path, blob |-> Rerooted(prefix, f).blob]
           kept(f) == [path |-> f.path, blob |-> f.blob]
           under == {f \in index : Below(f.path, prefix)}
<1>1. index \subseteq Entries
  BY DEF IndexOK, SoundIndex
<1>2. \A f \in index : StartsWith(f.path, prefix) <=> Below(f.path, prefix)
  BY DEF Alike, Below
<1>3. TreeIndex(prefix) = {Rerooted(prefix, f) : f \in under}
  <2>1. InTree(prefix) = under
    BY <1>2 DEF InTree
  <2> HIDE DEF under
  <2>2. ASSUME NEW f \in under
        PROVE  ~Replaced(prefix, f)
    <3>1. SUFFICES ASSUME NEW g \in under, Place(g) > Place(f),
                          InTheWay(Rerooted(prefix, g).path, Rerooted(prefix, f).path)
                   PROVE  FALSE
      BY <2>1 DEF Replaced
    <3>2. /\ f \in index /\ g \in index /\ f \in Entries /\ g \in Entries
          /\ Below(f.path, prefix) /\ Below(g.path, prefix)
          /\ f.stage = 0 /\ g.stage = 0
      BY <1>1, <2>1 DEF under
    <3> DEFINE a == SubSeq(f.path, Len(prefix) + 2, Len(f.path))
               b == SubSeq(g.path, Len(prefix) + 2, Len(g.path))
    <3>3. Rerooted(prefix, f).path = a /\ Rerooted(prefix, g).path = b
      BY <3>2, RerootedIs
    <3>4. f.path \in Paths /\ g.path \in Paths
      BY <3>2 DEF Entries
    <3>5. ~Below(f.path, g.path) /\ ~Below(g.path, f.path)
          /\ (f.path = g.path => f = g)
      BY <3>2 DEF IndexOK, SoundIndex
    <3>6. CASE a = b
      <4>1. prefix \o <<"/">> \o a = f.path /\ prefix \o <<"/">> \o b = g.path
        BY <3>2, <3>4, RerootedBack
      <4>2. f = g
        BY <3>5, <3>6, <4>1
      <4>3. Place(f) \in Nat
        BY <3>2, PlaceOf
      <4> QED
        BY <3>1, <4>2, <4>3
    <3>7. ~Below(a, b) /\ ~Below(b, a)
      BY <3>2, <3>4, <3>5, RerootedApart
    <3> QED
      BY <3>1, <3>3, <3>6, <3>7 DEF InTheWay
  <2>3. {f \in InTree(prefix) : ~Replaced(prefix, f)} = under
    BY <2>1, <2>2
  <2> QED
    BY <2>3 DEF TreeIndex
<1>4. ASSUME NEW f \in under
      PROVE  put(cut(f)) = kept(f)
  <2>1. f \in Entries /\ f.path \in Paths /\ Below(f.path, prefix)
    BY <1>1 DEF Entries
  <2>2. prefix \o <<"/">> \o SubSeq(f.path, Len(prefix) + 2, Len(f.path)) = f.path
    BY <2>1, RerootedBack
  <2>3. cut(f).path = SubSeq(f.path, Len(prefix) + 2, Len(f.path)) /\ cut(f).blob = f.blob
    BY <2>1, RerootedIs
  <2> HIDE DEF cut
  <2> QED
    BY <2>2, <2>3
<1>5. TreeOf(TreeIndex(prefix)) = {cut(f) : f \in under}
  BY <1>3 DEF TreeOf
<1>6. {e \in TreeOf(index) : Below(e.path, prefix)} = {kept(f) : f \in under}
  BY DEF TreeOf
<1>7. {put(e) : e \in {cut(f) : f \in under}} = {put(cut(f)) : f \in under}
  <2> HIDE DEF put, cut, under
  <2> QED
    OBVIOUS
<1>8. {put(cut(f)) : f \in under} = {kept(f) : f \in under}
  <2> HIDE DEF put, cut, kept, under
  <2> QED
    BY <1>4
<1> QED
  BY <1>5, <1>6, <1>7, <1>8

LEMMA WriteTreeKeepsInv ==
  ASSUME PlumbingInv, NEW prefix \in TreePrefixes, NEW missing_ok \in BOOLEAN,
         WriteTree(prefix, missing_ok)
  PROVE  PlumbingInv'
<1> DEFINE idx == TreeIndex(prefix)
           fails == \/ prefix # <<>> /\ \E e \in InTree(prefix) : NotRerooted(prefix, e)
                    \/ ~missing_ok /\ Missing(idx) # {}
                    \/ \E e \in InTree(prefix) : e.stage # 0
<1>1. ~Running /\ UNCHANGED updateVars /\ IndexOK(index)
  BY DEF PlumbingInv, WriteTree
<1>2. UNCHANGED <<index, odb>>
  BY <1>1 DEF updateVars
<1>3. out' = IF fails THEN Nothing
             ELSE [kind |-> "tree", prefix |-> prefix, tree |-> TreeOf(idx),
                   verified |-> ~missing_ok]
  BY Zenon DEF WriteTree
<1>4. CASE fails
  BY <1>1, <1>3, <1>4, QuietOut, AfterLook
<1>5. CASE ~fails
  <2>1. (missing_ok \/ Missing(idx) = {}) /\ \A e \in InTree(prefix) : e.stage = 0
    BY <1>5
  <2> HIDE DEF fails
  <2>2. out' = [kind |-> "tree", prefix |-> prefix, tree |-> TreeOf(idx),
                verified |-> ~missing_ok]
    BY <1>3, <1>5, Zenon
  <2>3. /\ out'.kind = "tree" /\ out'.prefix = prefix /\ out'.tree = TreeOf(idx)
        /\ out'.verified = ~missing_ok
    <3>1. ASSUME NEW v, out' = [kind |-> "tree", prefix |-> prefix,
                                tree |-> TreeOf(idx), verified |-> v]
          PROVE  /\ out'.kind = "tree" /\ out'.prefix = prefix
                 /\ out'.tree = TreeOf(idx) /\ out'.verified = v
      BY <3>1
    <3> QED
      BY <2>2, <3>1, Zenon
  <2>4. ~missing_ok => \A e \in TreeOf(idx) : e.blob \in odb
    BY <2>1 DEF Missing, TreeOf
  <2>5. IsText(prefix)
    BY PlumbingAssumption
  <2>6. Alike(out.prefix)' = Alike(prefix)
    BY <1>2, <2>3 DEF Alike
  <2>7. ASSUME prefix # <<>>, Alike(prefix) = {}
        PROVE  {[path |-> prefix \o <<"/">> \o e.path, blob |-> e.blob] :
                  e \in TreeOf(idx)}
                 = {e \in TreeOf(index) : Below(e.path, prefix)}
    BY <1>1, <2>1, <2>5, <2>7, TreeBelow
  <2> HIDE DEF idx
  <2>8. TreesWritten'
    <3>1. ASSUME out'.verified
          PROVE  \A e \in out'.tree : e.blob \in odb'
      BY <1>2, <2>3, <2>4, <3>1, Zenon
    <3>2. ASSUME out'.prefix # <<>>, Alike(out.prefix)' = {}
          PROVE  {[path |-> out'.prefix \o <<"/">> \o e.path, blob |-> e.blob] :
                    e \in out'.tree}
                   = {e \in TreeOf(index') : Below(e.path, out'.prefix)}
      <4>1. prefix # <<>> /\ Alike(prefix) = {}
        BY <2>3, <2>6, <3>2, Zenon
      <4>2. out'.prefix = prefix /\ out'.tree = TreeOf(idx) /\ index' = index
        BY <1>2, <2>3
      <4> QED
        BY <2>7, <4>1, <4>2
    <3> QED
      BY <3>1, <3>2, Zenon DEF TreesWritten
  <2>9. OutOK'
    BY <2>3, <2>8 DEF OutOK, ParentsKept
  <2> QED
    BY <1>1, <2>9, AfterLook
<1> QED
  BY <1>4, <1>5

-----------------------------------------------------------------------------
(***************************************************************************)
(* commit-tree.  Of the places of a parent the last one is kept.           *)
(***************************************************************************)
LEMMA LastPlace ==
  ASSUME NEW S, NEW ps \in Seq(S), NEW j \in DOMAIN ps
  PROVE  \E i \in DOMAIN ps : ps[i] = ps[j] /\ Again(ps, i) = {}
<1> DEFINE n == Len(ps)
           T == {d \in 0..n : n - d \in DOMAIN ps /\ ps[n - d] = ps[j]}
<1>1. n \in Nat /\ DOMAIN ps = 1..n /\ j \in 1..n
  BY LenProperties
<1> HIDE DEF n
<1>2. PICK d \in T : \A c \in T : d <= c
  <2>1. n - j \in 0..n /\ n - (n - j) = j
    BY <1>1
  <2>2. n - j \in T
    BY <1>1, <2>1
  <2>3. T \in SUBSET Nat
    BY <1>1
  <2> HIDE DEF T
  <2> QED
    BY <2>2, <2>3, Least
<1>3. d \in 0..n /\ n - d \in DOMAIN ps /\ ps[n - d] = ps[j]
  OBVIOUS
<1>4. Again(ps, n - d) = {}
  <2>1. SUFFICES ASSUME NEW i \in ((n - d) + 1)..n, ps[i] = ps[n - d]
                 PROVE  FALSE
    BY DEF Again, n
  <2>2. n - i \in 0..n /\ n - (n - i) = i /\ i \in 1..n /\ n - i < d
    BY <1>1, <1>3
  <2>3. n - i \in T
    BY <1>1, <1>3, <2>1, <2>2
  <2>4. d <= n - i
    BY <1>2, <2>3
  <2> QED
    BY <1>1, <1>3, <2>2, <2>4
<1> QED
  BY <1>3, <1>4

LEMMA SanitizedIs ==
  ASSUME NEW S, NEW ps \in Seq(S)
  PROVE  Range(Sanitized(ps)) = Range(ps) /\ IsInjective(Sanitized(ps))
<1> DEFINE kept == {i \in DOMAIN ps : Again(ps, i) = {}}
           new == [k \in 1..Cardinality(kept) |-> ps[Kth(kept, k)]]
<1>1. Sanitized(ps) = new
  BY DEF Sanitized
<1>2. Len(ps) \in Nat /\ DOMAIN ps = 1..Len(ps)
  BY LenProperties
<1>3. kept \in SUBSET Nat /\ IsFiniteSet(kept)
  <2>1. IsFiniteSet(1..Len(ps))
    <3>1. 1 \in Int /\ Len(ps) \in Int
      BY <1>2
    <3> QED
      BY <3>1, FS_Interval
  <2>2. kept \in SUBSET (1..Len(ps))
    BY <1>2
  <2> HIDE DEF kept
  <2>3. IsFiniteSet(kept)
    BY <2>1, <2>2, FS_Subset
  <2>4. 1..Len(ps) \subseteq Nat
    BY <1>2
  <2> QED
    BY <2>2, <2>3, <2>4
<1>4. \A k \in 1..Cardinality(kept) : Kth(kept, k) \in kept
                                       /\ Rank(kept, Kth(kept, k)) = k - 1
  <2> HIDE DEF kept
  <2> QED
    BY <1>3, KthIs
<1>5. DOMAIN new = 1..Cardinality(kept)
      /\ \A k \in 1..Cardinality(kept) : new[k] = ps[Kth(kept, k)]
  OBVIOUS
<1> HIDE DEF new
<1>6. Range(new) \subseteq Range(ps)
  BY <1>4, <1>5 DEF Range
<1>7. Range(ps) \subseteq Range(new)
  <2> SUFFICES ASSUME NEW j \in DOMAIN ps
               PROVE  ps[j] \in Range(new)
    BY DEF Range
  <2>1. PICK i \in kept : ps[i] = ps[j]
    BY LastPlace
  <2> HIDE DEF kept
  <2>2. Rank(kept, i) + 1 \in 1..Cardinality(kept) /\ Kth(kept, Rank(kept, i) + 1) = i
    BY <1>3, RankBelow, KthOf
  <2> QED
    BY <1>5, <2>1, <2>2 DEF Range
<1>8. ASSUME NEW a \in 1..Cardinality(kept), NEW b \in 1..Cardinality(kept),
             new[a] = new[b]
      PROVE  a = b
  <2> DEFINE i == Kth(kept, a)
             j == Kth(kept, b)
  <2>1. i \in kept /\ j \in kept /\ Rank(kept, i) = a - 1 /\ Rank(kept, j) = b - 1
    BY <1>4
  <2>2. ps[i] = ps[j]
    BY <1>5, <1>8
  <2> HIDE DEF i, j
  <2>3. i \in 1..Len(ps) /\ j \in 1..Len(ps) /\ Again(ps, i) = {} /\ Again(ps, j) = {}
    BY <1>2, <2>1
  <2>4. ~(i < j) /\ ~(j < i)
    BY <1>2, <2>2, <2>3 DEF Again
  <2>5. i = j
    BY <1>2, <2>3, <2>4
  <2>6. Cardinality(kept) \in Nat
    BY <1>3, FS_CardinalityType
  <2> HIDE DEF kept
  <2> QED
    BY <2>1, <2>5, <2>6
<1>9. IsInjective(new)
  BY <1>5, <1>8 DEF IsInjective
<1> QED
  BY <1>1, <1>6, <1>7, <1>9

LEMMA CommitTreeKeepsInv ==
  ASSUME PlumbingInv, NEW ps \in Parents, CommitTree(ps)
  PROVE  PlumbingInv'
<1>1. ~Running /\ UNCHANGED updateVars
  BY DEF CommitTree
<1>2. \/ out' = Nothing
      \/ out' = [kind |-> "crash"]
      \/ out' = [kind |-> "commit", given |-> ps, parents |-> Sanitized(ps)]
  BY DEF CommitTree
<1>3. ps \in Seq(Commits \cup {NoSuchCommit})
  <2>1. PICK n \in 0..MaxParents : ps \in [1..n -> Commits \cup {NoSuchCommit}]
    BY DEF Parents
  <2>2. n \in Nat
    BY PlumbingAssumption
  <2> QED
    BY <2>1, <2>2, SeqDef
<1>4. Range(Sanitized(ps)) = Range(ps) /\ IsInjective(Sanitized(ps))
  BY <1>3, SanitizedIs
<1>5. CASE out' = [kind |-> "crash"]
  BY <1>1, <1>5, AfterLook DEF OutOK, TreesWritten, ParentsKept
<1>6. CASE out' = [kind |-> "commit", given |-> ps, parents |-> Sanitized(ps)]
  <2>1. out'.kind = "commit" /\ out'.given = ps /\ out'.parents = Sanitized(ps)
    BY <1>6
  <2>2. OutOK'
    BY <1>4, <2>1 DEF OutOK, TreesWritten, ParentsKept
  <2> QED
    BY <1>1, <2>2, AfterLook
<1> QED
  BY <1>1, <1>2, <1>5, <1>6, QuietOut, AfterLook

-----------------------------------------------------------------------------
(***************************************************************************)
(* Every step keeps the invariant.                                         *)
(***************************************************************************)
LEMMA InitHolds ==
  ASSUME PlumbingInit
  PROVE  PlumbingInv
<1>1. cmd \in Commands /\ cmd.idx = {} /\ ~Running
  BY EndedIs DEF PlumbingInit, Running
<1>2. IndexOK(index) /\ IndexOK(cmd.idx)
  BY <1>1, EmptyOK DEF PlumbingInit
<1>3. WorkdirOK
  BY DEF PlumbingInit, WorkdirOK, IsFile
<1>4. odb \subseteq Blobs
  <2>1. \A t \in StoredTrees : t \subseteq [path : Paths, blob : Blobs]
    BY PlumbingAssumption
  <2> QED
    BY <2>1 DEF PlumbingInit
<1>5. OutOK
  BY DEF PlumbingInit, OutOK, TreesWritten, ParentsKept, Nothing
<1> QED
  BY <1>1, <1>2, <1>3, <1>4, <1>5 DEF PlumbingInv

LEMMA AllReadable ==
  ASSUME NEW lines \in Seq(Printed), \A line \in Range(lines) : Readable(line)
  PROVE  lines \in Seq(Lines)
<1>1. Len(lines) \in Nat /\ lines \in [1..Len(lines) -> Printed]
  BY LenProperties
<1>2. \A i \in 1..Len(lines) : lines[i] \in Lines
  BY <1>1 DEF Range, Lines
<1>3. lines \in [1..Len(lines) -> Lines]
  BY <1>1, <1>2
<1> QED
  BY <1>1, <1>3, SeqDef

LEMMA UpdateKeepsInv ==
  ASSUME PlumbingInv, out' = Nothing,
         \/ \E opts \in OptionSets, files \in FileLists : Begin(opts, files, <<>>)
         \/ /\ out.kind = "listing" /\ \A line \in Range(out.lines) : Readable(line)
            /\ Begin({"info"}, <<>>, out.lines)
         \/ \E lines \in ForeignLines : Begin({"info"}, <<>>, lines)
         \/ UpdateStep
  PROVE  PlumbingInv'
<1>1. <<>> \in Seq(Paths) /\ <<>> \in Seq(Lines)
  BY EmptySeq
<1>2. ASSUME NEW opts \in OptionSets, NEW files \in FileLists, Begin(opts, files, <<>>)
      PROVE  PlumbingInv'
  <2>1. opts \in SUBSET Options /\ "info" \notin opts
    BY PlumbingAssumption DEF Options
  <2>2. files \in Seq(Paths)
    <3>1. PICK n \in 0..MaxFiles : files \in [1..n -> Paths]
      <4>1. PICK n \in 0..MaxFiles : files \in [1..n -> UserPaths]
        BY DEF FileLists
      <4> QED
        BY <4>1, PlumbingAssumption
    <3>2. n \in Nat
      BY UpdateAssumption
    <3> QED
      BY <3>1, <3>2, SeqDef
  <2> QED
    BY <1>1, <1>2, <2>1, <2>2, BeginKeeps
<1>3. ASSUME NEW lines \in Seq(Lines), Begin({"info"}, <<>>, lines)
      PROVE  PlumbingInv'
  BY <1>1, <1>3, BeginKeeps DEF Options
<1>4. ASSUME out.kind = "listing", \A line \in Range(out.lines) : Readable(line)
      PROVE  out.lines \in Seq(Lines)
  <2>1. out.lines \in Seq(Printed)
    BY <1>4 DEF PlumbingInv, OutOK
  <2> QED
    BY <1>4, <2>1, AllReadable
<1>5. ASSUME NEW lines \in ForeignLines
      PROVE  lines \in Seq(Lines)
  <2>1. IsText(lines) /\ \A line \in Range(lines) : Readable(line)
    BY PlumbingAssumption DEF Foreign
  <2>2. Range(lines) \subseteq Printed
    BY DEF Printed
  <2>3. lines \in Seq(Printed)
    <3>1. Len(lines) \in Nat /\ lines \in [1..Len(lines) -> Range(lines)]
      BY <2>1, LenProperties DEF IsText
    <3>2. lines \in [1..Len(lines) -> Printed]
      BY <2>2, <3>1
    <3> QED
      BY <3>1, <3>2, SeqDef
  <2> QED
    BY <2>1, <2>3, AllReadable
<1>6. UpdateStep => PlumbingInv'
  BY RefreshKeepsInv, FileKeepsInv, LineKeepsInv, WriteKeepsInv DEF UpdateStep
<1> QED
  BY <1>2, <1>3, <1>4, <1>5, <1>6

LEMMA NextKeepsInv ==
  ASSUME PlumbingInv, [PlumbingNext]_plumbingVars
  PROVE  PlumbingInv'
<1>1. CASE UNCHANGED plumbingVars
  BY <1>1, Stutters
<1>2. CASE ListFiles
  <2>1. IndexOK(index) /\ ~Running /\ UNCHANGED updateVars
    BY <1>2 DEF PlumbingInv, ListFiles
  <2>2. out' = [kind |-> "listing",
                lines |-> [i \in 1..Cardinality(index) |->
                             LineFor("stage", EntryAt(index, i))]]
    BY <1>2 DEF ListFiles, LineFor
  <2>3. "stage" \in {"stage", "tree"}
    OBVIOUS
  <2> QED
    BY <2>1, <2>2, <2>3, ListingKeepsInv
<1>3. ASSUME NEW t \in StoredTrees, ListTree(t)
      PROVE  PlumbingInv'
  <2> DEFINE idx == IndexOf(t)
  <2>1. IndexOK(idx) /\ ~Running /\ UNCHANGED updateVars
    BY <1>3, TreeIndexOK DEF ListTree
  <2>2. out' = [kind |-> "listing",
                lines |-> [i \in 1..Cardinality(idx) |->
                             LineFor("tree", EntryAt(idx, i))]]
    BY <1>3 DEF ListTree, LineFor
  <2>3. "tree" \in {"stage", "tree"}
    OBVIOUS
  <2> QED
    BY <2>1, <2>2, <2>3, ListingKeepsInv
<1>4. ASSUME NEW t \in StoredTrees, ReadTree(t)
      PROVE  PlumbingInv'
  BY <1>4, ReadTreeKeepsInv
<1>5. CASE CheckoutIndex
  BY <1>5, CheckoutKeepsInv
<1>6. ASSUME NEW prefix \in TreePrefixes, NEW missing_ok \in BOOLEAN,
             WriteTree(prefix, missing_ok)
      PROVE  PlumbingInv'
  BY <1>6, WriteTreeKeepsInv
<1>7. UserPaths \subseteq Paths
  BY PlumbingAssumption
<1>8. ASSUME NEW p \in Paths, NEW b \in Blobs,
             SaveFile(p, b) \/ \E sides \in ConflictSides : Conflict(p, b, sides)
      PROVE  PlumbingInv'
  BY <1>8, SaveKeepsInv, ConflictKeepsInv
<1>9. ASSUME NEW p \in Paths, RemoveFile(p)
      PROVE  PlumbingInv'
  BY <1>9, RemoveKeepsInv
<1>10. CASE CommitStep
  BY <1>10, CommitTreeKeepsInv DEF CommitStep
<1>11. CASE IndexStep
  BY <1>2, <1>3, <1>4, <1>5, <1>6, <1>7, <1>8, <1>9, <1>11, UpdateKeepsInv DEF IndexStep
<1> QED
  BY <1>1, <1>10, <1>11 DEF PlumbingNext

LEMMA InvHolds == PlumbingSpec => []PlumbingInv
<1>1. PlumbingInit => PlumbingInv
  BY InitHolds
<1>2. PlumbingInv /\ [PlumbingNext]_plumbingVars => PlumbingInv'
  BY NextKeepsInv
<1> QED
  BY <1>1, <1>2, PTL DEF PlumbingSpec

(***************************************************************************)
(* Only Write ends an update-index well, and a step that ends it otherwise *)
(* leaves the index alone.  A crash is that of --refresh.                  *)
(***************************************************************************)
LEMMA Ending ==
  ASSUME PlumbingInv, [PlumbingNext]_plumbingVars, Running, ~Running'
  PROVE  /\ UNCHANGED workdir
         /\ \/ cmd'.state = "done" /\ Write
            \/ cmd'.state = "failed" /\ UNCHANGED index
            \/ /\ cmd'.state = "crashed" /\ UNCHANGED index
               /\ cmd.state = "refresh" /\ ~RefreshWalk.alive
<1>1. ~UNCHANGED cmd /\ cmd \in Commands
  BY DEF Running, PlumbingInv
<1>2. ~UNCHANGED updateVars /\ ~UNCHANGED plumbingVars
  BY <1>1 DEF updateVars, plumbingVars
<1>3. ASSUME NEW t, ReadTree(t)
      PROVE  FALSE
  <2>1. cmd' = [cmd EXCEPT !.stale = Running]
    BY <1>3 DEF ReadTree, Written
  <2>2. cmd'.state = cmd.state
    BY <1>1, <2>1 DEF Commands
  <2> QED
    BY <2>2 DEF Running
<1>4. UpdateStep
  <2>1. \A opts, files, lines : ~Begin(opts, files, lines)
    BY DEF Begin
  <2>2. ~ListFiles /\ (\A t : ~ListTree(t)) /\ ~CheckoutIndex
    BY DEF ListFiles, ListTree, CheckoutIndex
  <2>3. (\A prefix, missing_ok : ~WriteTree(prefix, missing_ok))
        /\ (\A ps : ~CommitTree(ps))
    BY DEF WriteTree, CommitTree
  <2>4. (\A p, b : ~SaveFile(p, b) /\ \A sides : ~Conflict(p, b, sides)) /\ (\A p : ~RemoveFile(p))
    BY DEF SaveFile, Conflict, RemoveFile
  <2>5. PlumbingNext
    BY <1>2
  <2>6. ~CommitStep
    BY <2>3 DEF CommitStep
  <2>7. IndexStep
    BY <2>5, <2>6 DEF PlumbingNext
  <2> QED
    BY <1>3, <2>1, <2>2, <2>3, <2>4, <2>7 DEF IndexStep
<1>5. ASSUME NEW how \in {"done", "failed", "crashed"}, cmd' = Ended(how)
      PROVE  cmd'.state = how
  BY <1>5, EndedIs
<1>6. CASE Refresh
  <2>1. CASE RefreshWalk.alive
    <3>1. cmd' = [cmd EXCEPT !.state = "files", !.idx = RefreshWalk.idx]
      BY <1>6, <2>1 DEF Refresh
    <3>2. cmd'.state = "files"
      BY <1>1, <3>1 DEF Commands
    <3> QED
      BY <3>2 DEF Running
  <2>2. CASE ~RefreshWalk.alive
    BY <1>5, <1>6, <2>2 DEF Refresh
  <2> QED
    BY <2>1, <2>2
<1>7. CASE File
  <2> DEFINE p == Head(cmd.files)
             idx == IF IsFile(p) THEN AddByPath(MadeWay(p), p) ELSE Removed(cmd.idx, p)
  <2>1. CASE Refused(p) \/ Impossible(p)
    BY <1>5, <1>7, <2>1 DEF File
  <2>2. CASE ~(Refused(p) \/ Impossible(p))
    <3>1. cmd' = [cmd EXCEPT !.files = Tail(cmd.files), !.idx = idx]
      BY <1>7, <2>2 DEF File
    <3> HIDE DEF idx
    <3>2. cmd'.state = cmd.state
      BY <1>1, <3>1 DEF Commands
    <3> QED
      BY <3>2 DEF Running
  <2> QED
    BY <2>1, <2>2
<1>8. CASE Line
  <2> DEFINE line == Head(cmd.lines)
             idx == IF PassedOver(line) THEN cmd.idx
                    ELSE Insert(cmd.idx, Entry(NameIn(line.text), 0, line.blob))
  <2>1. cmd' = [cmd EXCEPT !.lines = Tail(cmd.lines), !.idx = idx]
    BY <1>8 DEF Line
  <2> HIDE DEF idx
  <2>2. cmd'.state = cmd.state
    BY <1>1, <2>1 DEF Commands
  <2> QED
    BY <2>2 DEF Running
<1>9. CASE Write
  BY <1>5, <1>9 DEF Write
<1> QED
  BY <1>4, <1>6, <1>7, <1>8, <1>9 DEF UpdateStep

\* Then all files or lines have been passed.
LEMMA AllPassed ==
  ASSUME PlumbingInv, Write
  PROVE  /\ Underway /\ cmd \in Commands /\ cmd.files = <<>>
         /\ Passed(cmd.files, cmd.named) = Len(cmd.named)
         /\ "info" \in cmd.opts => Passed(cmd.lines, cmd.listed) = Len(cmd.listed)
<1>1. cmd \in Commands /\ Underway /\ cmd.files = <<>>
      /\ ("info" \in cmd.opts => cmd.lines = <<>>)
  BY DEF PlumbingInv, Write, Running
<1>2. Len(cmd.named) \in Nat /\ Len(cmd.listed) \in Nat
  BY <1>1, CmdFields
<1>3. Len(<<>>) = 0
  OBVIOUS
<1>4. Len(cmd.named) - 0 = Len(cmd.named) /\ Len(cmd.listed) - 0 = Len(cmd.listed)
  BY <1>2
<1> QED
  BY <1>1, <1>3, <1>4 DEF Passed

-----------------------------------------------------------------------------
(***************************************************************************)
(* No plumbing command makes an index with two entries of one name and     *)
(* stage, or with a file inside a file: what update-index takes out of the *)
(* way of a file, --refresh and a merge's conflicts included, is enough.   *)
(***************************************************************************)
THEOREM IndexStaysSound == PlumbingSpec => []IndexSound
<1>1. PlumbingInv => IndexSound
  BY DEF PlumbingInv, IndexOK, WorkdirOK, IndexSound
<1> QED
  BY <1>1, InvHolds, PTL

(***************************************************************************)
(* The tree write-tree writes for a directory holds what the index has     *)
(* below it, whatever the names, and names stored blobs if it was told to  *)
(* look.                                                                   *)
(***************************************************************************)
THEOREM TreesAreWritten == PlumbingSpec => []TreesWritten
<1>1. PlumbingInv => TreesWritten
  BY DEF PlumbingInv, OutOK
<1> QED
  BY <1>1, InvHolds, PTL

(***************************************************************************)
(* commit-tree's removal of duplicates loses no parent and keeps none      *)
(* twice, however many it is given.                                        *)
(***************************************************************************)
THEOREM ParentsAreKept == PlumbingSpec => []ParentsKept
<1>1. PlumbingInv => ParentsKept
  BY DEF PlumbingInv, OutOK
<1> QED
  BY <1>1, InvHolds, PTL

(***************************************************************************)
(* An update-index that fails leaves the paths of the index it read, even  *)
(* if its --refresh has written the index already: no conflict is dropped  *)
(* and passed over.                                                        *)
(***************************************************************************)
THEOREM FailuresKeepPaths == PlumbingSpec => FailureKeepsPaths
<1>1. ASSUME PlumbingInv, [PlumbingNext]_plumbingVars,
             EndsAs("failed") \/ EndsAs("crashed"), ~cmd.stale
      PROVE  PathsOf(index') = PathsOf(cmd.start)
  <2>1. Running /\ ~Running' /\ cmd'.state # "done"
    BY <1>1 DEF EndsAs
  <2>2. index' = index
    BY <1>1, <2>1, Ending
  <2>3. Underway
    BY <1>1, <2>1 DEF PlumbingInv
  <2> QED
    BY <1>1, <2>2, <2>3 DEF Underway
<1>2. PlumbingInv /\ [PlumbingNext]_plumbingVars =>
        [(EndsAs("failed") \/ EndsAs("crashed")) /\ ~cmd.stale =>
           PathsOf(index') = PathsOf(cmd.start)]_plumbingVars
  BY <1>1
<1> QED
  BY <1>2, InvHolds, PTL DEF PlumbingSpec, FailureKeepsPaths

(***************************************************************************)
(* --refresh does not crash on an index without conflicts, however many    *)
(* entries it has and whatever files are there.                            *)
(***************************************************************************)
THEOREM CrashesNeedConflicts == PlumbingSpec => CrashNeedsConflict
<1>1. ASSUME PlumbingInv, [PlumbingNext]_plumbingVars, EndsAs("crashed")
      PROVE  \E e \in cmd.start : e.stage # 0
  <2>1. cmd.state = "refresh" /\ ~RefreshWalk.alive
    BY <1>1, Ending, Zenon DEF EndsAs, Write
  <2>2. IndexOK(cmd.idx) /\ WorkdirOK /\ cmd.idx = cmd.start
    BY <1>1, <2>1 DEF PlumbingInv, Underway, Running
  <2>3. ~Clean(cmd.idx)
    BY <2>1, <2>2, RefreshKeeps
  <2> QED
    BY <2>2, <2>3 DEF Clean
<1>2. PlumbingInv /\ [PlumbingNext]_plumbingVars =>
        [EndsAs("crashed") => \E e \in cmd.start : e.stage # 0]_plumbingVars
  BY <1>1
<1> QED
  BY <1>2, InvHolds, PTL DEF PlumbingSpec, CrashNeedsConflict

LEMMA EndsWell ==
  ASSUME PlumbingInv, [PlumbingNext]_plumbingVars, EndsAs("done")
  PROVE  Write /\ UNCHANGED workdir /\ index' = cmd.idx
<1>1. Running /\ ~Running' /\ cmd'.state = "done"
  BY DEF EndsAs
<1>2. Write /\ UNCHANGED workdir
  BY <1>1, Ending
<1> QED
  BY <1>2 DEF Write

(***************************************************************************)
(* A command that succeeds has registered every file it was given, or      *)
(* dropped it, for command lines of any length.                            *)
(***************************************************************************)
THEOREM SuccessIsRegistered == PlumbingSpec => SuccessRegisters
<1>1. ASSUME PlumbingInv, [PlumbingNext]_plumbingVars, EndsAs("done"),
             NEW i \in DOMAIN cmd.named,
             \A j \in (i + 1)..Len(cmd.named) : ~InTheWay(cmd.named[i], cmd.named[j])
      PROVE  IF IsFile(cmd.named[i])
               THEN Entry(cmd.named[i], 0, workdir[cmd.named[i]]) \in index'
               ELSE ~Registered(index', cmd.named[i])
  <2>1. Write /\ index' = cmd.idx
    BY <1>1, EndsWell
  <2>2. /\ Underway /\ cmd \in Commands
        /\ Passed(cmd.files, cmd.named) = Len(cmd.named)
    BY <1>1, <2>1, AllPassed
  <2>3. i \in 1..Len(cmd.named)
    BY <2>2, CmdFields, LenProperties
  <2>4. cmd.named # <<>>
    BY <2>3
  <2>5. FilesDone(cmd.idx, cmd.named, Len(cmd.named))
    BY <2>2, <2>4 DEF Underway
  <2>6. Registers(cmd.idx, cmd.named[i])
    BY <1>1, <2>3, <2>5 DEF FilesDone
  <2> QED
    BY <2>1, <2>6 DEF Registers
<1>2. PlumbingInv /\ [PlumbingNext]_plumbingVars =>
        [EndsAs("done") /\ cmd.lines = <<>> =>
           \A i \in DOMAIN cmd.named :
             LET p == cmd.named[i]
             IN  (\A j \in (i + 1)..Len(cmd.named) : ~InTheWay(p, cmd.named[j])) =>
                   IF IsFile(p) THEN Entry(p, 0, workdir[p]) \in index'
                   ELSE ~Registered(index', p)]_plumbingVars
  BY <1>1
<1> QED
  BY <1>2, InvHolds, PTL DEF PlumbingSpec, SuccessRegisters

(***************************************************************************)
(* Without --replace nothing goes that was not named: the checks before a  *)
(* file is touched see every entry that would be in its way.               *)
(***************************************************************************)
THEOREM UnnamedAreKept == PlumbingSpec => UnnamedKept
<1>1. ASSUME PlumbingInv, [PlumbingNext]_plumbingVars, EndsAs("done"),
             "replace" \notin cmd.opts, "info" \notin cmd.opts
      PROVE  PathsOf(cmd.start) \ Range(cmd.named) \subseteq PathsOf(index')
  <2>1. Write /\ index' = cmd.idx
    BY <1>1, EndsWell
  <2>2. /\ Underway /\ cmd \in Commands
        /\ Passed(cmd.files, cmd.named) = Len(cmd.named)
    BY <1>1, <2>1, AllPassed
  <2>3. PathsOf(cmd.start) \ {cmd.named[i] : i \in 1..Len(cmd.named)} \subseteq PathsOf(cmd.idx)
    BY <1>1, <2>2 DEF Underway, OthersKept
  <2>4. DOMAIN cmd.named = 1..Len(cmd.named)
    BY <2>2, CmdFields, LenProperties
  <2> QED
    BY <2>1, <2>3, <2>4 DEF Range
<1>2. PlumbingInv /\ [PlumbingNext]_plumbingVars =>
        [EndsAs("done") /\ "replace" \notin cmd.opts /\ "info" \notin cmd.opts =>
           PathsOf(cmd.start) \ Range(cmd.named) \subseteq PathsOf(index')]_plumbingVars
  BY <1>1
<1> QED
  BY <1>2, InvHolds, PTL DEF PlumbingSpec, UnnamedKept

Listed(idx) ==
  /\ \A i \in DOMAIN cmd.listed :
       LET line == cmd.listed[i]
       IN  \/ Short(line) \/ line.blob = NoId \/ Registering(line) = <<>>
           \/ \E j \in DOMAIN cmd.listed \ {i} :
                InTheWay(Registering(line), Registering(cmd.listed[j]))
           \/ Entry(Registering(line), 0, line.blob) \in idx
  /\ PathsOf(idx) \subseteq
       PathsOf(cmd.start) \cup {Registering(l) : l \in Range(cmd.listed)}

(***************************************************************************)
(* A listing of any length, fed back to --index-info, registers what it    *)
(* lists, but for what is in the way of another line and the lines that    *)
(* the code passes over.                                                   *)
(***************************************************************************)
THEOREM ListingsReadBack == PlumbingSpec => ListingReadsBack
<1>1. ASSUME PlumbingInv, [PlumbingNext]_plumbingVars, EndsAs("done"), "info" \in cmd.opts
      PROVE  Listed(index')
  <2>1. Write /\ index' = cmd.idx
    BY <1>1, EndsWell
  <2>2. /\ Underway /\ cmd \in Commands
        /\ Passed(cmd.lines, cmd.listed) = Len(cmd.listed)
    BY <1>1, <2>1, AllPassed
  <2>3. LinesDone(cmd.idx, cmd.listed, Len(cmd.listed))
    BY <1>1, <2>2 DEF Underway
  <2>4. cmd.listed \in Seq(Lines) /\ DOMAIN cmd.listed = 1..Len(cmd.listed)
    BY <2>2, CmdFields, LenProperties
  <2>5. \A i \in DOMAIN cmd.listed : LineDone(cmd.idx, cmd.listed, i)
    BY <2>3, <2>4 DEF LinesDone
  <2>6. \A i \in DOMAIN cmd.listed :
          cmd.listed[i] \in Lines /\ Registering(cmd.listed[i]) = Name(cmd.listed[i])
    BY <2>4, LineIs DEF Registering, Name
  <2>7. ASSUME NEW i \in DOMAIN cmd.listed
        PROVE  LET line == cmd.listed[i]
               IN  \/ Short(line) \/ line.blob = NoId \/ Registering(line) = <<>>
                   \/ \E j \in DOMAIN cmd.listed \ {i} :
                        InTheWay(Registering(line), Registering(cmd.listed[j]))
                   \/ Entry(Registering(line), 0, line.blob) \in index'
    <3>1. PassedOver(cmd.listed[i]) =>
            \/ Short(cmd.listed[i]) \/ cmd.listed[i].blob = NoId
            \/ Name(cmd.listed[i]) = <<>>
      BY DEF PassedOver, TooShort, Short, Name
    <3> QED
      BY <2>1, <2>5, <2>6, <3>1, Zenon DEF LineDone
  <2>8. {Registering(l) : l \in Range(cmd.listed)} = {Name(l) : l \in Range(cmd.listed)}
    BY <2>6 DEF Range
  <2>9. PathsOf(index') \subseteq PathsOf(cmd.start) \cup {Registering(l) : l \in Range(cmd.listed)}
    BY <2>1, <2>3, <2>8 DEF LinesDone
  <2> QED
    BY <2>7, <2>9 DEF Listed
<1>2. PlumbingInv /\ [PlumbingNext]_plumbingVars =>
        [EndsAs("done") /\ "info" \in cmd.opts => Listed(index')]_plumbingVars
  BY <1>1
<1> QED
  BY <1>2, InvHolds, PTL DEF PlumbingSpec, ListingReadsBack, Listed
=============================================================================
