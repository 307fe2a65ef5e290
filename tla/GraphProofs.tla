---------------------------- MODULE GraphProofs ----------------------------
(***************************************************************************)
(* Theorems about the graph renderer, for any number of commits and of     *)
(* columns.                                                                *)
(***************************************************************************)
EXTENDS GraphRender, RankingProofs, SequenceTheorems

Nodes == 1..NumNodes

-----------------------------------------------------------------------------
LEMMA SeqFrom ==
  ASSUME NEW S, NEW n \in Nat, NEW f \in [1..n -> S]
  PROVE  f \in Seq(S) /\ Len(f) = n
<1>1. f \in Seq(S)
  <2>1. [i \in 1..n |-> f[i]] \in Seq(S)
    <3>1. \A i \in 1..n : f[i] \in S
      OBVIOUS
    <3> QED
      BY <3>1, IsASeq
  <2> QED
    BY <2>1
<1>2. Len(f) \in Nat /\ DOMAIN f = 1..Len(f)
  BY <1>1, LenProperties
<1> QED
  BY <1>1, <1>2

-----------------------------------------------------------------------------
(***************************************************************************)
(* The lanes of a row before any are joined.                               *)
(***************************************************************************)
LEMMA ParentsAre ==
  ASSUME NEW n \in Nodes, NEW ps \in ParentLists(n)
  PROVE  /\ ps \in Seq(Nodes) /\ Len(ps) \in 0..MaxParents
         /\ IsInjective(ps)
         /\ \A i \in 1..Len(ps) : ps[i] > n
<1>1. PICK k \in 0..MaxParents : ps \in [1..k -> (n + 1)..NumNodes]
  BY DEF ParentLists
<1>2. ps \in Seq((n + 1)..NumNodes) /\ Len(ps) = k
  <2>1. k \in Nat
    BY SizeAssumption
  <2> QED
    BY <1>1, <2>1, SeqFrom
<1>3. \A m \in (n + 1)..NumNodes : m \in Nodes /\ m > n
  BY SizeAssumption DEF Nodes
<1>4. ps \in Seq(Nodes)
  BY <1>2, <1>3, SeqMonotonic
<1>5. \A i \in 1..Len(ps) : ps[i] \in (n + 1)..NumNodes
  BY <1>1, <1>2
<1> QED
  BY <1>1, <1>2, <1>3, <1>4, <1>5 DEF ParentLists

LEMMA WithNodeIs ==
  ASSUME NEW cols \in Seq(Nodes), NEW n \in Nodes
  PROVE  /\ WithNode(cols, n) \in Seq(Nodes)
         /\ n \in Range(WithNode(cols, n))
         /\ Range(cols) \subseteq Range(WithNode(cols, n))
         /\ IsInjective(cols) => IsInjective(WithNode(cols, n))
<1>1. CASE n \in Range(cols)
  BY <1>1 DEF WithNode
<1>2. CASE n \notin Range(cols)
  <2> DEFINE new == Append(cols, n)
  <2>1. /\ new \in Seq(Nodes) /\ Len(cols) \in Nat
        /\ DOMAIN cols = 1..Len(cols) /\ DOMAIN new = 1..(Len(cols) + 1)
        /\ \A i \in 1..Len(cols) : new[i] = cols[i]
        /\ new[Len(cols) + 1] = n
    BY AppendProperties, LenProperties
  <2>2. WithNode(cols, n) = new
    BY <1>2 DEF WithNode
  <2>3. \A i \in 1..Len(cols) : cols[i] # n
    BY <1>2, <2>1 DEF Range
  <2> HIDE DEF new
  <2>4. n \in Range(new) /\ Range(cols) \subseteq Range(new)
    BY <2>1 DEF Range
  <2>5. ASSUME IsInjective(cols)
        PROVE  IsInjective(new)
    BY <2>1, <2>3, <2>5 DEF IsInjective
  <2> QED
    BY <2>1, <2>2, <2>4, <2>5
<1> QED
  BY <1>1, <1>2

LEMMA LaneIs ==
  ASSUME NEW cols \in Seq(Nodes), NEW n \in Range(cols)
  PROVE  Lane(cols, n) \in 1..Len(cols) /\ cols[Lane(cols, n)] = n
<1> DEFINE found == {k \in DOMAIN cols : cols[k] = n}
<1>1. Len(cols) \in Nat /\ DOMAIN cols = 1..Len(cols)
  BY LenProperties
<1>2. found # {} /\ found \in SUBSET Nat
  BY <1>1 DEF Range
<1>3. Lane(cols, n) = Min(found)
  BY DEF Lane
<1>4. \E k \in found : \A i \in found : k =< i
  <2> HIDE DEF found
  <2> QED
    BY <1>2, Least
<1>5. Min(found) \in found
  <2> HIDE DEF found
  <2> QED
    BY <1>4 DEF Min
<1> QED
  BY <1>1, <1>3, <1>5

LEMMA WithParentsIs ==
  ASSUME NEW cols \in Seq(Nodes), NEW n \in Range(cols), NEW ps \in Seq(Nodes), ps # <<>>
  PROVE  LET lanes == WithParents(cols, n, ps)
         IN  /\ lanes \in Seq(Nodes)
             /\ Len(lanes) = Len(cols) + Len(ps) - 1
             /\ \A k \in 1..Len(cols) :
                  lanes[k] = IF k = Lane(cols, n) THEN ps[1] ELSE cols[k]
             /\ \A k \in (Len(cols) + 1)..Len(lanes) :
                  lanes[k] = ps[k - Len(cols) + 1]
<1> DEFINE own == Lane(cols, n)
           taken == [cols EXCEPT ![own] = Head(ps)]
           rest == Tail(ps)
           lanes == WithParents(cols, n, ps)
<1>1. own \in 1..Len(cols) /\ Len(cols) \in Nat
  BY LaneIs, LenProperties
<1>2. Len(ps) \in Nat \ {0} /\ Head(ps) = ps[1] /\ Head(ps) \in Nodes
  BY EmptySeq, HeadTailProperties, LenProperties, ElementOfSeq
<1>3. /\ rest \in Seq(Nodes) /\ Len(rest) = Len(ps) - 1
      /\ \A i \in 1..(Len(ps) - 1) : rest[i] = ps[i + 1]
  BY HeadTailProperties
<1>4. lanes = taken \o rest
  BY DEF WithParents
<1> HIDE DEF own
<1>5. /\ taken \in Seq(Nodes) /\ Len(taken) = Len(cols)
      /\ \A k \in 1..Len(cols) : taken[k] = IF k = own THEN ps[1] ELSE cols[k]
  BY <1>1, <1>2, ExceptSeq
<1> HIDE DEF taken, rest, lanes
<1>6. /\ lanes \in Seq(Nodes) /\ Len(lanes) = Len(cols) + (Len(ps) - 1)
      /\ \A k \in 1..(Len(cols) + (Len(ps) - 1)) :
           lanes[k] = IF k <= Len(cols) THEN taken[k] ELSE rest[k - Len(cols)]
  <2>1. /\ lanes \in Seq(Nodes) /\ Len(lanes) = Len(taken) + Len(rest)
        /\ \A k \in 1..(Len(taken) + Len(rest)) :
             lanes[k] = IF k <= Len(taken) THEN taken[k] ELSE rest[k - Len(taken)]
    <3>1. taken \in Seq(Nodes) /\ rest \in Seq(Nodes)
      BY <1>3, <1>5
    <3> QED
      BY <1>4, <3>1, ConcatProperties, Zenon
  <2> QED
    BY <1>3, <1>5, <2>1, Zenon
<1>7. \A k \in 1..Len(cols) : lanes[k] = taken[k]
  BY <1>1, <1>2, <1>6
<1>8. ASSUME NEW k \in (Len(cols) + 1)..Len(lanes)
      PROVE  lanes[k] = ps[k - Len(cols) + 1]
  <2>1. k - Len(cols) \in 1..(Len(ps) - 1) /\ ~(k <= Len(cols))
        /\ k \in 1..(Len(cols) + (Len(ps) - 1))
    BY <1>1, <1>2, <1>6
  <2> QED
    BY <1>3, <1>6, <2>1
<1>9. Len(cols) + (Len(ps) - 1) = Len(cols) + Len(ps) - 1
  BY <1>1, <1>2
<1> QED
  BY <1>5, <1>6, <1>7, <1>8, <1>9, Zenon DEF lanes, own


-----------------------------------------------------------------------------
(***************************************************************************)
(* The removal of joined lanes, step by step: moved[i] is the array after  *)
(* the i-th.                                                               *)
(***************************************************************************)
LEMMA DuplicatesFinite ==
  ASSUME NEW lanes \in Seq(Nodes)
  PROVE  IsFiniteSet(Duplicates(lanes)) /\ Cardinality(Duplicates(lanes)) \in Nat
<1>1. Len(lanes) \in Nat /\ DOMAIN lanes = 1..Len(lanes)
  BY LenProperties
<1>2. IsFiniteSet(DOMAIN lanes)
  BY <1>1, FS_Interval
<1>3. IsFiniteSet((DOMAIN lanes) \X (DOMAIN lanes))
  BY <1>2, FS_Product
<1>4. Duplicates(lanes) \in SUBSET ((DOMAIN lanes) \X (DOMAIN lanes))
  BY DEF Duplicates
<1> QED
  BY <1>3, <1>4, FS_Subset, FS_CardinalityType

LEMMA RemovedIs ==
  ASSUME NEW lanes \in Seq(Nodes)
  PROVE  LET n == Cardinality(Duplicates(lanes))
         IN  /\ Len(ToBeRemoved(lanes)) = n
             /\ \A i \in 1..n : ToBeRemoved(lanes)[i] =
                  (CHOOSE d \in Duplicates(lanes) :
                     Cardinality(Earlier(lanes, d)) = i - 1)[2]
<1> DEFINE n == Cardinality(Duplicates(lanes))
           at(i) == (CHOOSE d \in Duplicates(lanes) :
                       Cardinality(Earlier(lanes, d)) = i - 1)[2]
           gone == [i \in 1..n |-> at(i)]
<1>1. n \in Nat
  BY DuplicatesFinite
<1>2. ToBeRemoved(lanes) = gone
  BY DEF ToBeRemoved
<1> HIDE DEF n, at
<1>3. gone \in [1..n -> {at(i) : i \in 1..n}]
  OBVIOUS
<1>4. Len(gone) = n
  BY <1>1, <1>3, SeqFrom
<1>5. \A i \in 1..n : gone[i] = at(i)
  OBVIOUS
<1> QED
  BY <1>2, <1>4, <1>5, Zenon DEF n, at

\* The element found as the i-th is the one with i - 1 before it.
LEMMA RemovedAt ==
  ASSUME NEW lanes \in Seq(Nodes), NEW i \in 1..Cardinality(Duplicates(lanes)),
         NEW d \in Duplicates(lanes), Cardinality(Earlier(lanes, d)) = i - 1,
         \A e \in Duplicates(lanes) : Cardinality(Earlier(lanes, e)) = i - 1 => e = d
  PROVE  ToBeRemoved(lanes)[i] = d[2]
<1> DEFINE found == CHOOSE e \in Duplicates(lanes) : Cardinality(Earlier(lanes, e)) = i - 1
<1>1. found = d
  OBVIOUS
<1>2. ToBeRemoved(lanes)[i] = found[2]
  BY RemovedIs
<1> HIDE DEF found
<1> QED
  BY <1>1, <1>2

Moved(f, lanes, gone, n) ==
  f = [i \in 0..n |-> IF i = 0 THEN lanes ELSE MoveLeft(f[i - 1], gone[i])]

LEMMA MovedExists ==
  ASSUME NEW lanes, NEW gone, NEW n \in Nat
  PROVE  \E f : Moved(f, lanes, gone, n)
<1> DEFINE T == {m \in Nat : ~ \E f : Moved(f, lanes, gone, m)}
<1>1. T = {}
  <2>1. SUFFICES ASSUME T # {}
                 PROVE  FALSE
    OBVIOUS
  <2>2. PICK m \in T : \A k \in T : m <= k
    <3>1. T \in SUBSET Nat
      OBVIOUS
    <3> HIDE DEF T
    <3> QED
      BY <2>1, <3>1, Least
  <2>3. m \in Nat /\ ~ \E f : Moved(f, lanes, gone, m)
    OBVIOUS
  <2>4. CASE m = 0
    <3>1. Moved([i \in 0..0 |-> lanes], lanes, gone, 0)
      BY DEF Moved
    <3> QED
      BY <2>3, <2>4, <3>1
  <2>5. CASE m # 0
    <3>1. m - 1 \in Nat /\ ~(m <= m - 1)
      BY <2>3, <2>5
    <3>2. m - 1 \notin T
      BY <2>2, <3>1, Zenon
    <3>3. PICK f : Moved(f, lanes, gone, m - 1)
      BY <3>1, <3>2
    <3> DEFINE h == [i \in 0..m |-> IF i < m THEN f[i] ELSE MoveLeft(f[m - 1], gone[m])]
    <3>4. ASSUME NEW i \in 0..m
          PROVE  h[i] = IF i = 0 THEN lanes ELSE MoveLeft(h[i - 1], gone[i])
      <4>1. CASE i < m
        <5>1. i \in 0..(m - 1) /\ h[i] = f[i]
          BY <2>3, <4>1
        <5>2. f[i] = IF i = 0 THEN lanes ELSE MoveLeft(f[i - 1], gone[i])
          BY <3>3, <5>1, Zenon DEF Moved
        <5>3. i # 0 => h[i - 1] = f[i - 1]
          BY <2>3, <4>1
        <5> QED
          BY <5>1, <5>2, <5>3
      <4>2. CASE i = m
        <5>1. h[m] = MoveLeft(f[m - 1], gone[m]) /\ h[m - 1] = f[m - 1]
          BY <2>3, <2>5
        <5> QED
          BY <2>5, <4>2, <5>1
      <4>3. i < m \/ i = m
        BY <2>3
      <4> QED
        BY <4>1, <4>2, <4>3
    <3>5. DOMAIN h = 0..m /\ h = [i \in DOMAIN h |-> h[i]]
      OBVIOUS
    <3> HIDE DEF h
    <3>6. Moved(h, lanes, gone, m)
      BY <3>4, <3>5 DEF Moved
    <3> QED
      BY <2>3, <3>6
  <2> QED
    BY <2>4, <2>5
<1> QED
  BY <1>1

LEMMA MoveLeftIs ==
  ASSUME NEW L \in Nat, NEW lanes \in [1..L -> Nodes], NEW dest
  PROVE  /\ MoveLeft(lanes, dest) \in [1..L -> Nodes]
         /\ \A k \in 1..L : MoveLeft(lanes, dest)[k] =
              IF k >= dest /\ k < L THEN lanes[k + 1] ELSE lanes[k]
<1>1. Len(lanes) = L /\ DOMAIN lanes = 1..L
  BY SeqFrom
<1>2. \A k \in 1..L : k < L => k + 1 \in 1..L
  OBVIOUS
<1>3. MoveLeft(lanes, dest) =
        [k \in 1..L |-> IF k >= dest /\ k < L THEN lanes[k + 1] ELSE lanes[k]]
  BY <1>1 DEF MoveLeft
<1> QED
  BY <1>2, <1>3


LEMMA MovedType ==
  ASSUME NEW lanes \in Seq(Nodes), NEW gone, NEW n \in Nat, NEW f,
         Moved(f, lanes, gone, n), NEW k \in 0..n
  PROVE  f[k] \in [1..Len(lanes) -> Nodes]
<1>1. ASSUME NEW i \in 0..n
      PROVE  f[i] = IF i = 0 THEN lanes ELSE MoveLeft(f[i - 1], gone[i])
  BY Zenon DEF Moved
<1> DEFINE T == {m \in 0..n : f[m] \notin [1..Len(lanes) -> Nodes]}
<1>2. T = {}
  <2>1. SUFFICES ASSUME T # {}
                 PROVE  FALSE
    OBVIOUS
  <2>2. PICK m \in T : \A i \in T : m <= i
    <3>1. T \in SUBSET Nat
      OBVIOUS
    <3> HIDE DEF T
    <3> QED
      BY <2>1, <3>1, Least
  <2>3. m \in 0..n /\ f[m] \notin [1..Len(lanes) -> Nodes]
    OBVIOUS
  <2>4. m # 0
    BY <1>1, <2>3, LenProperties
  <2>5. m - 1 \in 0..n /\ ~(m <= m - 1)
    BY <2>3, <2>4
  <2>6. f[m - 1] \in [1..Len(lanes) -> Nodes]
    BY <2>2, <2>5
  <2>7. f[m] = MoveLeft(f[m - 1], gone[m]) /\ Len(lanes) \in Nat
    BY <1>1, <2>3, <2>4, LenProperties
  <2> QED
    BY <2>3, <2>6, <2>7, MoveLeftIs
<1> QED
  BY <1>2

LEMMA JoinedIs ==
  ASSUME NEW lanes \in Seq(Nodes), NEW n, n = Cardinality(Duplicates(lanes))
  PROVE  \E f : /\ Moved(f, lanes, ToBeRemoved(lanes), n)
                /\ Joined(lanes) = [k \in 1..(Len(lanes) - n) |-> f[n][k]]
<1> DEFINE gone == ToBeRemoved(lanes)
           f == CHOOSE f : Moved(f, lanes, gone, Len(gone))
<1>1. n \in Nat /\ Len(gone) = n
  BY DuplicatesFinite, RemovedIs
<1>2. Moved(f, lanes, gone, n)
  BY <1>1, MovedExists, Zenon
<1>3. Joined(lanes) = [k \in 1..(Len(lanes) - Len(gone)) |-> f[Len(gone)][k]]
  BY Zenon DEF Joined, Moved
<1> HIDE DEF gone, f
<1>4. Joined(lanes) = [k \in 1..(Len(lanes) - n) |-> f[n][k]]
  BY <1>1, <1>3
<1> QED
  BY <1>2, <1>4 DEF gone

LEMMA JoinedType ==
  ASSUME NEW lanes \in Seq(Nodes)
  PROVE  Joined(lanes) \in Seq(Nodes)
<1> DEFINE n == Cardinality(Duplicates(lanes))
<1>1. n \in Nat /\ Len(lanes) \in Nat
  BY DuplicatesFinite, LenProperties
<1>2. PICK f : /\ Moved(f, lanes, ToBeRemoved(lanes), n)
               /\ Joined(lanes) = [k \in 1..(Len(lanes) - n) |-> f[n][k]]
  BY JoinedIs
<1> HIDE DEF n
<1>3. f[n] \in [1..Len(lanes) -> Nodes]
  <2>1. n \in 0..n
    BY <1>1
  <2> QED
    BY <1>1, <1>2, <2>1, MovedType, Zenon
<1>4. PICK m \in Nat : 1..(Len(lanes) - n) = 1..m /\ m <= Len(lanes)
  <2>1. CASE n <= Len(lanes)
    <3>1. Len(lanes) - n \in Nat /\ Len(lanes) - n <= Len(lanes)
      BY <1>1, <2>1
    <3> QED
      BY <3>1
  <2>2. CASE ~(n <= Len(lanes))
    <3>1. 1..(Len(lanes) - n) = 1..0
      BY <1>1, <2>2
    <3> QED
      BY <1>1, <3>1
  <2> QED
    BY <2>1, <2>2
<1>5. [k \in 1..m |-> f[n][k]] \in [1..m -> Nodes]
  BY <1>1, <1>3, <1>4
<1> QED
  BY <1>2, <1>4, <1>5, SeqFrom

-----------------------------------------------------------------------------
(***************************************************************************)
(* The duplicates come one after the other, so that each is found once,    *)
(* and what is removed is the right lane of each of them.                  *)
(***************************************************************************)
LEMMA DuplicateIs ==
  ASSUME NEW lanes \in Seq(Nodes)
  PROVE  /\ \A d \in Duplicates(lanes) :
              /\ d[1] \in 1..Len(lanes) /\ d[2] \in 1..Len(lanes) /\ d[1] < d[2]
              /\ lanes[d[1]] = lanes[d[2]] /\ d = <<d[1], d[2]>>
         /\ \A i, j \in 1..Len(lanes) : i < j /\ lanes[i] = lanes[j] =>
              \E d \in Duplicates(lanes) : d[1] = i /\ d[2] = j
<1>1. DOMAIN lanes = 1..Len(lanes)
  BY LenProperties
<1>2. ASSUME NEW i \in 1..Len(lanes), NEW j \in 1..Len(lanes), i < j, lanes[i] = lanes[j]
      PROVE  \E d \in Duplicates(lanes) : d[1] = i /\ d[2] = j
  <2>1. <<i, j>> \in Duplicates(lanes) /\ <<i, j>>[1] = i /\ <<i, j>>[2] = j
    BY <1>1, <1>2 DEF Duplicates
  <2> QED
    BY <2>1, Zenon
<1>3. \A d \in Duplicates(lanes) :
        /\ d[1] \in 1..Len(lanes) /\ d[2] \in 1..Len(lanes) /\ d[1] < d[2]
        /\ lanes[d[1]] = lanes[d[2]] /\ d = <<d[1], d[2]>>
  BY <1>1 DEF Duplicates
<1> QED
  BY <1>2, <1>3

LEMMA FoundOrder ==
  ASSUME NEW lanes \in Seq(Nodes)
  PROVE  /\ \A d \in Duplicates(lanes) : ~Found(d, d)
         /\ \A d, e \in Duplicates(lanes) : d = e \/ Found(d, e) \/ Found(e, d)
         /\ \A c, d, e \in Duplicates(lanes) : Found(c, d) /\ Found(d, e) => Found(c, e)
<1>1. Len(lanes) \in Nat
  BY LenProperties
<1>2. \A d \in Duplicates(lanes) :
        d[1] \in 1..Len(lanes) /\ d[2] \in 1..Len(lanes) /\ d = <<d[1], d[2]>>
  BY DuplicateIs
<1>3. ASSUME NEW d \in Duplicates(lanes), NEW e \in Duplicates(lanes)
      PROVE  /\ ~Found(d, d)
             /\ d = e \/ Found(d, e) \/ Found(e, d)
  <2>1. PICK a \in 1..Len(lanes), b \in 1..Len(lanes) : d = <<a, b>>
    BY <1>2
  <2>2. PICK x \in 1..Len(lanes), y \in 1..Len(lanes) : e = <<x, y>>
    BY <1>2
  <2> QED
    BY <1>1, <2>1, <2>2 DEF Found
<1>4. ASSUME NEW c \in Duplicates(lanes), NEW d \in Duplicates(lanes),
             NEW e \in Duplicates(lanes), Found(c, d), Found(d, e)
      PROVE  Found(c, e)
  <2>1. /\ c[1] \in Nat /\ c[2] \in Nat /\ d[1] \in Nat /\ d[2] \in Nat
        /\ e[1] \in Nat /\ e[2] \in Nat
    BY <1>1, <1>2
  <2> QED
    BY <1>4, <2>1 DEF Found
<1> QED
  BY <1>3, <1>4

LEMMA RemovedAll ==
  ASSUME NEW lanes \in Seq(Nodes), NEW n, n = Cardinality(Duplicates(lanes))
  PROVE  /\ n \in Nat
         /\ \A d \in Duplicates(lanes) : \E i \in 1..n : ToBeRemoved(lanes)[i] = d[2]
         /\ \A i \in 1..n : \E d \in Duplicates(lanes) : ToBeRemoved(lanes)[i] = d[2]
<1> DEFINE D == Duplicates(lanes)
           g == [d \in D |-> Cardinality(Earlier(lanes, d)) + 1]
<1>1. IsFiniteSet(D) /\ n \in Nat
  BY DuplicatesFinite
<1>2. ASSUME NEW d \in D
      PROVE  /\ IsFiniteSet(Earlier(lanes, d)) /\ Cardinality(Earlier(lanes, d)) \in Nat
             /\ d \notin Earlier(lanes, d) /\ Earlier(lanes, d) \subseteq D
  <2>1. d \notin Earlier(lanes, d) /\ Earlier(lanes, d) \in SUBSET D
    BY FoundOrder DEF Earlier
  <2> HIDE DEF D
  <2> QED
    BY <1>1, <2>1, FS_Subset, FS_CardinalityType
<1>3. ASSUME NEW d \in D
      PROVE  Cardinality(Earlier(lanes, d) \cup {d}) = Cardinality(Earlier(lanes, d)) + 1
  BY <1>2, FS_AddElement
<1>4. ASSUME NEW d \in D, NEW e \in D, Found(d, e)
      PROVE  Cardinality(Earlier(lanes, d)) < Cardinality(Earlier(lanes, e))
  <2>1. Earlier(lanes, d) \cup {d} \in SUBSET Earlier(lanes, e)
    BY <1>4, FoundOrder DEF Earlier
  <2>2. Cardinality(Earlier(lanes, d) \cup {d}) <= Cardinality(Earlier(lanes, e))
    BY <1>2, <2>1, FS_Subset
  <2> QED
    BY <1>2, <1>3, <2>2
<1>5. ASSUME NEW d \in D
      PROVE  g[d] \in 1..n
  <2>1. Earlier(lanes, d) \cup {d} \in SUBSET D
    BY <1>2
  <2>2. Cardinality(Earlier(lanes, d) \cup {d}) <= n
    BY <1>1, <2>1, FS_Subset
  <2> HIDE DEF D
  <2>3. g[d] = Cardinality(Earlier(lanes, d)) + 1
    OBVIOUS
  <2> HIDE DEF g
  <2> QED
    BY <1>1, <1>2, <1>3, <2>2, <2>3
<1>6. ASSUME NEW d \in D, NEW e \in D,
             Cardinality(Earlier(lanes, d)) = Cardinality(Earlier(lanes, e))
      PROVE  d = e
  <2>1. d = e \/ Found(d, e) \/ Found(e, d)
    BY FoundOrder, Zenon
  <2>2. ~Found(d, e) /\ ~Found(e, d)
    BY <1>2, <1>4, <1>6
  <2> QED
    BY <2>1, <2>2
<1>7. ASSUME NEW d \in D
      PROVE  ToBeRemoved(lanes)[g[d]] = d[2]
  <2>1. PICK i \in 1..n : i = g[d]
    BY <1>5
  <2>2. Cardinality(Earlier(lanes, d)) = i - 1
    BY <1>2, <2>1
  <2>3. \A e \in D : Cardinality(Earlier(lanes, e)) = i - 1 => e = d
    BY <1>6, <2>2
  <2> HIDE DEF g
  <2> QED
    BY <2>1, <2>2, <2>3, RemovedAt
<1>8. g \in Injection(D, 1..n)
  <2>1. g \in [D -> 1..n]
    BY <1>5
  <2>2. ASSUME NEW d \in D, NEW e \in D, g[d] = g[e]
        PROVE  d = e
    <3>1. Cardinality(Earlier(lanes, d)) + 1 = Cardinality(Earlier(lanes, e)) + 1
      BY <2>2
    <3> HIDE DEF D, g
    <3> QED
      BY <1>2, <1>6, <3>1
  <2> HIDE DEF D, g
  <2> QED
    BY <2>1, <2>2 DEF Injection, IsInjective
<1>9. IsFiniteSet(1..n) /\ Cardinality(1..n) = n
  <2>1. Cardinality(1..n) = IF 1 > n THEN 0 ELSE n - 1 + 1
    <3>1. 1 \in Int /\ n \in Int
      BY <1>1
    <3> QED
      BY <3>1, FS_Interval, Zenon
  <2> QED
    BY <1>1, <2>1, FS_Interval
<1> HIDE DEF g
<1>10. g \in Surjection(D, 1..n)
  BY <1>8, <1>9, FS_Injection, Zenon
<1>11. \A i \in 1..n : \E d \in D : g[d] = i
  BY <1>10 DEF Surjection
<1>12. ASSUME NEW i \in 1..n
       PROVE  \E d \in D : ToBeRemoved(lanes)[i] = d[2]
  BY <1>7, <1>11
<1> QED
  BY <1>1, <1>5, <1>7, <1>12

-----------------------------------------------------------------------------
(***************************************************************************)
(* Removed in order, the lanes that stay are left.  Left says what has     *)
(* become of the lanes after i removals, of which stay is the last one     *)
(* that is not to be removed: up to it, they are those not yet removed, in *)
(* their order, and those left of all that were removed have not moved.    *)
(***************************************************************************)
Left(cols, lanes, gone, i, stay, m, e) ==
  /\ e \in [1..m -> 1..stay]
  /\ \A k \in 1..m : cols[k] = lanes[e[k]]
  /\ \A k \in 1..m : \A j \in 1..i : gone[j] # e[k]
  /\ \A k, l \in 1..m : k < l => e[k] < e[l]
  /\ \A x \in 1..stay : (\A j \in 1..i : gone[j] # x) => \E k \in 1..m : e[k] = x
  /\ \A k \in 1..m : (\A j \in 1..i : k < gone[j]) => e[k] = k

\* A removal behind what stays changes nothing.
LEMMA LeftBehind ==
  ASSUME NEW L \in Nat, NEW lanes, NEW cols \in [1..L -> Nodes], NEW gone,
         NEW i \in Nat, NEW stay \in 1..L, NEW m \in 0..stay, NEW e,
         Left(cols, lanes, gone, i, stay, m, e),
         gone[i + 1] \in 1..L, stay < gone[i + 1]
  PROVE  Left(MoveLeft(cols, gone[i + 1]), lanes, gone, i + 1, stay, m, e)
<1> DEFINE dest == gone[i + 1]
           moved == MoveLeft(cols, dest)
<1>1. ASSUME NEW k \in 1..m
      PROVE  moved[k] = cols[k] /\ k < dest
  <2>1. k \in 1..L /\ ~(k >= dest) /\ k < dest
    OBVIOUS
  <2> HIDE DEF dest
  <2> QED
    BY <2>1, MoveLeftIs
<1>2. \A j \in 1..(i + 1) : j \in 1..i \/ j = i + 1
  OBVIOUS
<1>3. 1..i \subseteq 1..(i + 1) /\ i + 1 \in 1..(i + 1)
  OBVIOUS
<1>4. e \in [1..m -> 1..stay]
  BY DEF Left
<1>5. \A k \in 1..m : e[k] \in 1..stay /\ e[k] # dest
  BY <1>4
<1>6. \A k \in 1..m : moved[k] = lanes[e[k]]
  BY <1>1 DEF Left
<1> HIDE DEF dest, moved
<1>7. \A k \in 1..m : \A j \in 1..(i + 1) : gone[j] # e[k]
  BY <1>2, <1>5 DEF Left, dest
<1>8. \A k, l \in 1..m : k < l => e[k] < e[l]
  BY Zenon DEF Left
<1>9. \A x \in 1..stay : (\A j \in 1..(i + 1) : gone[j] # x) => \E k \in 1..m : e[k] = x
  BY <1>3, Zenon DEF Left
<1>10. \A k \in 1..m : (\A j \in 1..(i + 1) : k < gone[j]) => e[k] = k
  BY <1>3, Zenon DEF Left
<1> QED
  BY <1>4, <1>6, <1>7, <1>8, <1>9, <1>10, Zenon DEF Left, moved, dest

\* A removal left of all before takes its own lane.
LEMMA LeftRemoved ==
  ASSUME NEW L \in Nat, NEW lanes, NEW cols \in [1..L -> Nodes], NEW gone,
         NEW i \in Nat, NEW stay \in 1..L, NEW m \in 0..stay, NEW e,
         Left(cols, lanes, gone, i, stay, m, e),
         gone[i + 1] \in 1..stay,
         \A j \in 1..i : gone[j] \in 1..L /\ gone[i + 1] < gone[j]
  PROVE  /\ m - 1 \in 0..stay
         /\ Left(MoveLeft(cols, gone[i + 1]), lanes, gone, i + 1, stay, m - 1,
                 [k \in 1..(m - 1) |-> IF k < gone[i + 1] THEN e[k] ELSE e[k + 1]])
<1> DEFINE dest == gone[i + 1]
           moved == MoveLeft(cols, dest)
           h == [k \in 1..(m - 1) |-> IF k < dest THEN e[k] ELSE e[k + 1]]
<1>1. /\ e \in [1..m -> 1..stay] /\ \A k \in 1..m : e[k] \in 1..stay
      /\ \A k, l \in 1..m : k < l => e[k] < e[l]
      /\ \A k \in 1..m : \A j \in 1..i : gone[j] # e[k]
  BY DEF Left
<1>2. ASSUME NEW k \in 1..m, k < dest \/ k = dest
      PROVE  e[k] = k
  <2>1. \A j \in 1..i : k < gone[j]
    BY <1>2
  <2> QED
    BY <2>1 DEF Left
<1>3. dest \in 1..m
  <2>1. \A j \in 1..i : gone[j] # dest
    OBVIOUS
  <2>2. PICK k \in 1..m : e[k] = dest
    BY <2>1 DEF Left
  <2>3. CASE k < dest
    BY <1>2, <2>2, <2>3
  <2>4. CASE k = dest
    BY <2>4
  <2>5. CASE dest < k
    BY <2>5
  <2>6. k < dest \/ k = dest \/ dest < k
    OBVIOUS
  <2> QED
    BY <2>3, <2>4, <2>5, <2>6
<1>4. e[dest] = dest
  BY <1>2, <1>3
<1>5. PICK p \in Nat : p = m - 1
  BY <1>3
<1>6. ASSUME NEW k \in 1..p
      PROVE  /\ k \in 1..m /\ k + 1 \in 1..m /\ k \in 1..L /\ k < L
             /\ h[k] = IF k < dest THEN e[k] ELSE e[k + 1]
             /\ moved[k] = IF k < dest THEN cols[k] ELSE cols[k + 1]
  <2>1. k \in 1..m /\ k + 1 \in 1..m /\ k \in 1..L /\ k < L
    BY <1>5
  <2>2. moved[k] = IF k >= dest /\ k < L THEN cols[k + 1] ELSE cols[k]
    BY <2>1, MoveLeftIs
  <2>3. h[k] = IF k < dest THEN e[k] ELSE e[k + 1]
    BY <1>5
  <2>4. k >= dest <=> ~(k < dest)
    OBVIOUS
  <2> QED
    BY <2>1, <2>2, <2>3, <2>4
<1>7. DOMAIN h = 1..p /\ h = [k \in 1..p |-> h[k]]
  BY <1>5
<1> HIDE DEF h, moved
<1>8. ASSUME NEW k \in 1..p
      PROVE  h[k] \in 1..stay /\ moved[k] = lanes[h[k]]
  <2>1. \A l \in 1..m : cols[l] = lanes[e[l]]
    BY DEF Left
  <2>2. CASE k < dest
    BY <1>1, <1>6, <2>1, <2>2
  <2>3. CASE ~(k < dest)
    BY <1>1, <1>6, <2>1, <2>3
  <2> QED
    BY <2>2, <2>3
<1>9. h \in [1..p -> 1..stay]
  BY <1>7, <1>8
<1>10. ASSUME NEW k \in 1..p, NEW j \in 1..(i + 1)
       PROVE  gone[j] # h[k]
  <2>1. CASE j = i + 1
    <3>1. CASE k < dest
      <4>1. h[k] = e[k] /\ e[k] < e[dest]
        BY <1>1, <1>3, <1>6, <3>1
      <4> QED
        BY <1>1, <1>4, <1>6, <2>1, <4>1
    <3>2. CASE ~(k < dest)
      <4>1. h[k] = e[k + 1] /\ dest < k + 1
        BY <1>6, <3>2
      <4>2. e[dest] < e[k + 1]
        BY <1>1, <1>3, <1>6, <4>1
      <4> QED
        BY <1>1, <1>4, <1>6, <2>1, <4>1, <4>2
    <3> QED
      BY <3>1, <3>2
  <2>2. CASE j # i + 1
    <3>1. j \in 1..i
      BY <2>2
    <3> QED
      BY <1>1, <1>6, <3>1
  <2> QED
    BY <2>1, <2>2
<1>11. ASSUME NEW k \in 1..p, NEW l \in 1..p, k < l
       PROVE  h[k] < h[l]
  <2>1. CASE l < dest
    <3>1. k < dest /\ e[k] < e[l]
      BY <1>1, <1>6, <1>11, <2>1
    <3> QED
      BY <1>6, <2>1, <3>1
  <2>2. CASE ~(l < dest) /\ k < dest
    <3>1. k < l + 1
      BY <1>11
    <3>2. e[k] < e[l + 1]
      BY <1>1, <1>6, <3>1
    <3> QED
      BY <1>6, <2>2, <3>2
  <2>3. CASE ~(l < dest) /\ ~(k < dest)
    <3>1. k + 1 < l + 1
      BY <1>11
    <3>2. e[k + 1] < e[l + 1]
      BY <1>1, <1>6, <3>1
    <3> QED
      BY <1>6, <2>3, <3>2
  <2> QED
    BY <2>1, <2>2, <2>3
<1>12. ASSUME NEW x \in 1..stay, \A j \in 1..(i + 1) : gone[j] # x
       PROVE  \E k \in 1..p : h[k] = x
  <2>1. x # dest /\ \A j \in 1..i : gone[j] # x
    BY <1>12
  <2>2. PICK k \in 1..m : e[k] = x
    BY <2>1 DEF Left
  <2>3. k # dest
    BY <1>4, <2>1, <2>2
  <2>4. CASE k < dest
    <3>1. k \in 1..p
      BY <1>3, <1>5, <2>4
    <3> QED
      BY <1>6, <2>2, <2>4, <3>1
  <2>5. CASE dest < k
    <3>1. k - 1 \in 1..p /\ ~(k - 1 < dest) /\ (k - 1) + 1 = k
      BY <1>3, <1>5, <2>5
    <3> QED
      BY <1>6, <2>2, <3>1
  <2>6. k < dest \/ dest < k
    BY <2>3
  <2> QED
    BY <2>4, <2>5, <2>6
<1>13. ASSUME NEW k \in 1..p, \A j \in 1..(i + 1) : k < gone[j]
       PROVE  h[k] = k
  <2>1. k < dest
    BY <1>13
  <2> QED
    BY <1>2, <1>6, <2>1
<1>14. Left(moved, lanes, gone, i + 1, stay, p, h)
  BY <1>8, <1>9, <1>10, <1>11, <1>12, <1>13 DEF Left
<1>15. p \in 0..stay
  BY <1>5
<1> QED
  BY <1>5, <1>14, <1>15 DEF h, moved

LEMMA IntervalSize ==
  ASSUME NEW n \in Nat
  PROVE  IsFiniteSet(1..n) /\ Cardinality(1..n) = n
<1>1. 1 \in Int /\ n \in Int
  OBVIOUS
<1>2. IsFiniteSet(1..n) /\ Cardinality(1..n) = IF 1 > n THEN 0 ELSE n - 1 + 1
  BY <1>1, FS_Interval, Zenon
<1> QED
  BY <1>2

\* What is to be removed: right lanes of duplicates, so never the first.
LEMMA GoneIs ==
  ASSUME NEW lanes \in Seq(Nodes), NEW n, n = Cardinality(Duplicates(lanes))
  PROVE  /\ n \in Nat /\ DOMAIN ToBeRemoved(lanes) = 1..n
         /\ ToBeRemoved(lanes) = [i \in 1..n |-> ToBeRemoved(lanes)[i]]
         /\ \A i \in 1..n : ToBeRemoved(lanes)[i] \in 2..Len(lanes)
<1>1. n \in Nat /\ Len(lanes) \in Nat
  BY DuplicatesFinite, LenProperties
<1>2. DOMAIN ToBeRemoved(lanes) = 1..n
  BY Zenon DEF ToBeRemoved
<1>3. ASSUME NEW i \in 1..n
      PROVE  ToBeRemoved(lanes)[i] \in 2..Len(lanes)
  <2>1. PICK d \in Duplicates(lanes) : ToBeRemoved(lanes)[i] = d[2]
    BY RemovedAll
  <2>2. d[1] \in 1..Len(lanes) /\ d[2] \in 1..Len(lanes) /\ d[1] < d[2]
    BY DuplicateIs
  <2> QED
    BY <1>1, <2>1, <2>2
<1>4. ToBeRemoved(lanes) = [i \in 1..n |-> ToBeRemoved(lanes)[i]]
  <2> DEFINE at(i) == (CHOOSE d \in Duplicates(lanes) :
                         Cardinality(Earlier(lanes, d)) = i - 1)[2]
  <2>1. ToBeRemoved(lanes) = [i \in 1..n |-> at(i)]
    BY DEF ToBeRemoved
  <2> HIDE DEF at
  <2> QED
    BY <2>1
<1> QED
  BY <1>1, <1>2, <1>3, <1>4

\* The last lane that stays, with nothing that stays behind it.
LEMMA LastStays ==
  ASSUME NEW L \in Nat \ {0}, NEW gone, 1 \notin gone
  PROVE  \E x \in 1..L : x \notin gone /\ (x + 1)..L \subseteq gone
<1> DEFINE T == {y \in Nat : (y + 1)..L \subseteq gone}
<1>1. L \in T
  <2>1. (L + 1)..L = {}
    OBVIOUS
  <2> QED
    BY <2>1
<1>2. PICK x \in T : \A y \in T : x <= y
  <2>1. T \in SUBSET Nat /\ T # {}
    BY <1>1
  <2> HIDE DEF T
  <2> QED
    BY <2>1, Least
<1>3. x \in Nat /\ (x + 1)..L \subseteq gone /\ x <= L
  BY <1>1, <1>2
<1>4. x # 0
  <2>1. SUFFICES ASSUME x = 0
                 PROVE  FALSE
    OBVIOUS
  <2>2. 1 \in (x + 1)..L
    BY <2>1
  <2> QED
    BY <1>3, <2>2
<1>5. x \notin gone
  <2>1. SUFFICES ASSUME x \in gone
                 PROVE  FALSE
    OBVIOUS
  <2>2. PICK y \in Nat : x = y + 1
    <3>1. x - 1 \in Nat /\ x = (x - 1) + 1
      BY <1>3, <1>4
    <3> QED
      BY <3>1
  <2>3. \A k \in (y + 1)..L : k = x \/ k \in (x + 1)..L
    BY <1>3, <2>2
  <2>4. y \in T /\ ~(x <= y)
    BY <1>3, <2>1, <2>2, <2>3
  <2> QED
    BY <1>2, <2>4, Zenon
<1> QED
  BY <1>3, <1>4, <1>5

\* After all removals, in order.
LEMMA LeftInTheEnd ==
  ASSUME NEW lanes \in Seq(Nodes), NEW L \in Nat, L = Len(lanes),
         NEW gone, NEW n \in Nat, DOMAIN gone = 1..n,
         \A i \in 1..n : gone[i] \in 1..L,
         InOrder(gone, L), NEW f, Moved(f, lanes, gone, n),
         NEW stay \in 1..L, stay \notin Range(gone)
  PROVE  \E m \in 0..stay : \E e : Left(f[n], lanes, gone, n, stay, m, e)
<1>1. ASSUME NEW i \in 0..n
      PROVE  /\ f[i] = IF i = 0 THEN lanes ELSE MoveLeft(f[i - 1], gone[i])
             /\ f[i] \in [1..L -> Nodes]
  BY MovedType, Zenon DEF Moved
<1> DEFINE T == {i \in 0..n : ~ \E m \in 0..stay : \E e :
                   Left(f[i], lanes, gone, i, stay, m, e)}
<1>2. SUFFICES ASSUME T # {}
               PROVE  FALSE
  <2>1. n \in 0..n
    OBVIOUS
  <2> QED
    BY <2>1
<1>3. PICK i \in T : \A j \in T : i <= j
  <2>1. T \in SUBSET Nat
    OBVIOUS
  <2> HIDE DEF T
  <2> QED
    BY <1>2, <2>1, Least
<1>4. i \in 0..n /\ ~ \E m \in 0..stay : \E e : Left(f[i], lanes, gone, i, stay, m, e)
  BY <1>3
<1>5. i # 0
  <2>1. SUFFICES ASSUME i = 0
                 PROVE  FALSE
    OBVIOUS
  <2> DEFINE e == [k \in 1..stay |-> k]
  <2>2. f[i] = lanes /\ e \in [1..stay -> 1..stay] /\ \A k \in 1..stay : e[k] = k
    BY <1>1, <1>4, <2>1
  <2>3. \A j \in 1..i : FALSE
    BY <2>1
  <2> HIDE DEF e
  <2>4. Left(f[i], lanes, gone, i, stay, stay, e)
    BY <2>2, <2>3 DEF Left
  <2>5. stay \in 0..stay
    OBVIOUS
  <2> QED
    BY <1>4, <2>4, <2>5
<1>6. PICK p \in Nat : i = p + 1 /\ p \in 0..n /\ i \in 1..n /\ ~(i <= p)
  <2>1. i - 1 \in Nat /\ i = (i - 1) + 1 /\ i - 1 \in 0..n /\ i \in 1..n /\ ~(i <= i - 1)
    BY <1>4, <1>5
  <2> QED
    BY <2>1
<1>7. p \notin T
  BY <1>3, <1>6, Zenon
<1>8. PICK m \in 0..stay : \E e : Left(f[p], lanes, gone, p, stay, m, e)
  BY <1>6, <1>7
<1>8a. PICK e : Left(f[p], lanes, gone, p, stay, m, e)
  BY <1>8
<1>9. f[i] = MoveLeft(f[p], gone[i]) /\ f[p] \in [1..L -> Nodes]
  <2>1. i - 1 = p
    BY <1>6
  <2> QED
    BY <1>1, <1>4, <1>5, <1>6, <2>1
<1> HIDE DEF T
<1>10. CASE stay < gone[i]
  <2>1. Left(f[i], lanes, gone, i, stay, m, e)
    BY <1>6, <1>8a, <1>9, <1>10, LeftBehind
  <2> QED
    BY <1>4, <2>1
<1>11. CASE ~(stay < gone[i])
  <2>1. gone[i] # stay /\ gone[i] \in 1..stay
    <3>1. gone[i] # stay
      BY <1>6 DEF Range
    <3>2. gone[i] \in 1..L
      BY <1>6
    <3> QED
      BY <1>11, <3>1, <3>2
  <2>2. stay \in (gone[i] + 1)..L
    BY <2>1
  <2>3. ASSUME NEW j \in 1..p
        PROVE  gone[j] \in 1..L /\ gone[i] < gone[j]
    <3>1. j \in 1..n /\ j < i
      BY <1>6
    <3> QED
      BY <1>6, <2>2, <3>1 DEF InOrder
  <2>4. \E q \in 0..stay : \E h : Left(f[i], lanes, gone, i, stay, q, h)
    <3>1. gone[p + 1] \in 1..stay
          /\ \A j \in 1..p : gone[j] \in 1..L /\ gone[p + 1] < gone[j]
      BY <1>6, <2>1, <2>3
    <3>2. /\ m - 1 \in 0..stay
          /\ \E h : Left(MoveLeft(f[p], gone[p + 1]), lanes, gone, p + 1, stay, m - 1, h)
      BY <1>8a, <1>9, <3>1, LeftRemoved, Zenon
    <3> QED
      BY <1>6, <1>9, <3>2
  <2> QED
    BY <1>4, <2>4
<1> QED
  BY <1>10, <1>11

(***************************************************************************)
(* Joined lanes lead to the same commits as before, each to one.           *)
(***************************************************************************)
JoinedSound(lanes) ==
  IsInjective(Joined(lanes)) /\ Range(Joined(lanes)) = Range(lanes)

LEMMA InOrderSound ==
  ASSUME NEW lanes \in Seq(Nodes), InOrder(ToBeRemoved(lanes), Len(lanes))
  PROVE  JoinedSound(lanes)
<1>1. PICK L \in Nat : L = Len(lanes) /\ DOMAIN lanes = 1..L
  BY LenProperties
<1>2. PICK n \in Nat : n = Cardinality(Duplicates(lanes))
  BY DuplicatesFinite
<1>3. PICK gone : gone = ToBeRemoved(lanes)
  OBVIOUS
<1>4. /\ DOMAIN gone = 1..n
      /\ \A i \in 1..n : gone[i] \in 2..L
  BY <1>1, <1>2, <1>3, GoneIs
<1>5. /\ \A d \in Duplicates(lanes) : \E i \in 1..n : gone[i] = d[2]
      /\ \A i \in 1..n : \E d \in Duplicates(lanes) : gone[i] = d[2]
  BY <1>2, <1>3, RemovedAll, SMTT(30)
<1>6. InOrder(gone, L)
  BY <1>1, <1>3
<1>7. PICK f : /\ Moved(f, lanes, gone, n)
               /\ Joined(lanes) = [k \in 1..(L - n) |-> f[n][k]]
  BY <1>1, <1>2, <1>3, JoinedIs
<1>8. Range(gone) = {gone[i] : i \in 1..n}
  BY <1>4 DEF Range
<1>9. CASE L = 0
  <2>1. n = 0
    <3>1. \A i \in 1..n : FALSE
      BY <1>4, <1>9
    <3>2. 1 \in 1..n \/ n = 0
      OBVIOUS
    <3> QED
      BY <3>1, <3>2
  <2>2. DOMAIN Joined(lanes) = {} /\ DOMAIN lanes = {}
    BY <1>1, <1>7, <1>9, <2>1
  <2> QED
    BY <2>2 DEF JoinedSound, IsInjective, Range
<1>10. CASE L # 0
  <2>1. 1 \notin Range(gone)
    BY <1>4, <1>8
  <2>2. PICK stay \in 1..L : stay \notin Range(gone) /\ (stay + 1)..L \subseteq Range(gone)
    BY <1>10, <2>1, LastStays
  <2>3. \A i \in 1..n : gone[i] \in 1..L
    BY <1>4
  <2>4. PICK m \in 0..stay : \E e : Left(f[n], lanes, gone, n, stay, m, e)
    BY <1>1, <1>4, <1>6, <1>7, <2>2, <2>3, LeftInTheEnd
  <2>4a. PICK e : Left(f[n], lanes, gone, n, stay, m, e)
    BY <2>4
  <2>5. /\ e \in [1..m -> 1..stay]
        /\ \A k \in 1..m : f[n][k] = lanes[e[k]]
        /\ \A k \in 1..m : \A j \in 1..n : gone[j] # e[k]
        /\ \A k, l \in 1..m : k < l => e[k] < e[l]
        /\ \A x \in 1..stay : (\A j \in 1..n : gone[j] # x) => \E k \in 1..m : e[k] = x
    BY <2>4a DEF Left
  <2>6. ASSUME NEW k \in 1..m, NEW l \in 1..m, e[k] = e[l]
        PROVE  k = l
    <3>1. e[k] \in Nat /\ e[l] \in Nat /\ ~(e[k] < e[l]) /\ ~(e[l] < e[k])
      BY <2>5, <2>6
    <3>2. ~(k < l) /\ ~(l < k)
      BY <2>5, <3>1
    <3> QED
      BY <3>2
  <2> DEFINE keep == (1..L) \ Range(gone)
  <2>7. \A x \in keep : \E k \in 1..m : e[k] = x
    <3>1. ASSUME NEW x \in keep
          PROVE  x \in 1..stay /\ \A j \in 1..n : gone[j] # x
      <4>1. x \in (stay + 1)..L \/ x \in 1..stay
        OBVIOUS
      <4>2. x \notin Range(gone)
        OBVIOUS
      <4> QED
        BY <1>8, <2>2, <4>1, <4>2
    <3> QED
      BY <2>5, <3>1
  <2>8. \A k \in 1..m : e[k] \in keep
    BY <1>8, <2>5
  <2>9. m = L - n
    <3>1. IsFiniteSet(1..L) /\ Cardinality(1..L) = L
          /\ IsFiniteSet(1..m) /\ Cardinality(1..m) = m
          /\ IsFiniteSet(1..n) /\ Cardinality(1..n) = n
      BY IntervalSize
    <3>2. Cardinality(Range(gone)) = n
      <4>1. gone \in [1..n -> Range(gone)]
        <5>1. gone = [i \in 1..n |-> gone[i]]
          BY <1>1, <1>2, <1>3, GoneIs
        <5> QED
          BY <1>8, <5>1
      <4>2. gone \in Bijection(1..n, Range(gone))
        BY <1>4, <1>6, <1>8, <4>1 DEF InOrder, Bijection, Injection, Surjection
      <4>3. ExistsBijection(1..n, Range(gone))
        BY <4>2 DEF ExistsBijection
      <4> QED
        BY <3>1, <4>3, FS_Bijection, Zenon
    <3>3. Cardinality(keep) = m
      <4>1. e \in [1..m -> keep]
        BY <2>5, <2>8
      <4>2. e \in Bijection(1..m, keep)
        <5> HIDE DEF keep
        <5> QED
          BY <2>6, <2>7, <4>1 DEF Bijection, Injection, Surjection, IsInjective
      <4>3. ExistsBijection(1..m, keep)
        BY <4>2 DEF ExistsBijection
      <4> HIDE DEF keep
      <4> QED
        BY <3>1, <4>3, FS_Bijection, Zenon
    <3>4. Cardinality(keep) = Cardinality(1..L) - Cardinality((1..L) \cap Range(gone))
      BY <3>1, FS_Difference, Zenon
    <3>5. (1..L) \cap Range(gone) = Range(gone)
      BY <1>8, <2>3
    <3> HIDE DEF keep
    <3> QED
      BY <3>1, <3>2, <3>3, <3>4, <3>5
  <2> DEFINE joined == [k \in 1..m |-> f[n][k]]
  <2>10. /\ Joined(lanes) = joined /\ DOMAIN joined = 1..m
         /\ \A k \in 1..m : joined[k] = lanes[e[k]] /\ e[k] \in 1..L
    BY <1>7, <2>5, <2>9
  <2>11. ASSUME NEW x \in 1..L, NEW y \in 1..L, x < y, lanes[x] = lanes[y]
         PROVE  y \in Range(gone)
    BY <1>1, <1>5, <1>8, <2>11, DuplicateIs
  <2> HIDE DEF joined, keep
  <2>12. IsInjective(joined)
    <3>1. ASSUME NEW k \in 1..m, NEW l \in 1..m, joined[k] = joined[l]
          PROVE  k = l
      <4>1. lanes[e[k]] = lanes[e[l]]
        BY <2>10, <3>1
      <4>2. e[k] \notin Range(gone) /\ e[l] \notin Range(gone)
        BY <2>8 DEF keep
      <4>3. ~(e[k] < e[l]) /\ ~(e[l] < e[k])
        BY <2>10, <2>11, <4>1, <4>2
      <4>4. e[k] = e[l]
        BY <2>10, <4>3
      <4> QED
        BY <2>6, <4>4
    <3> QED
      BY <2>10, <3>1 DEF IsInjective
  <2>13. ASSUME NEW x \in 1..L
         PROVE  \E k \in 1..m : joined[k] = lanes[x]
    <3> DEFINE T == {y \in 1..L : lanes[y] = lanes[x]}
    <3>1. PICK y \in T : \A z \in T : y <= z
      <4>1. T \in SUBSET Nat /\ T # {}
        OBVIOUS
      <4> HIDE DEF T
      <4> QED
        BY <4>1, Least
    <3>2. y \in 1..L /\ lanes[y] = lanes[x]
      OBVIOUS
    <3>3. y \notin Range(gone)
      <4>1. SUFFICES ASSUME y \in Range(gone)
                     PROVE  FALSE
        OBVIOUS
      <4>2. PICK i \in 1..n : gone[i] = y
        BY <1>8, <4>1
      <4>3. PICK d \in Duplicates(lanes) : y = d[2]
        BY <1>5, <4>2
      <4>4. PICK z \in 1..L : z < y /\ lanes[z] = lanes[y]
        BY <1>1, <4>3, DuplicateIs
      <4>5. z \in T /\ ~(y <= z)
        BY <3>2, <4>4
      <4> QED
        BY <3>1, <4>5, Zenon
    <3>4. y \in keep
      BY <3>2, <3>3 DEF keep
    <3>5. PICK k \in 1..m : e[k] = y
      BY <2>7, <3>4
    <3> QED
      BY <2>10, <3>2, <3>5
  <2>14. Range(joined) = Range(lanes)
    <3>1. Range(joined) \subseteq Range(lanes)
      BY <1>1, <2>10 DEF Range
    <3>2. Range(lanes) \subseteq Range(joined)
      BY <1>1, <2>10, <2>13 DEF Range
    <3> QED
      BY <3>1, <3>2
  <2> QED
    BY <2>10, <2>12, <2>14 DEF JoinedSound
<1> QED
  BY <1>9, <1>10

-----------------------------------------------------------------------------
(***************************************************************************)
(* What is removed when there are one or two duplicates: of two, one is    *)
(* the last lane, so that they are in order whichever comes first.         *)
(***************************************************************************)
LEMMA OneFound ==
  ASSUME NEW lanes \in Seq(Nodes), NEW d, Duplicates(lanes) = {d}, ~Found(d, d)
  PROVE  Cardinality(Duplicates(lanes)) = 1 /\ ToBeRemoved(lanes)[1] = d[2]
<1>1. Cardinality(Duplicates(lanes)) = 1
  BY FS_Singleton
<1>2. Earlier(lanes, d) = {}
  BY DEF Earlier
<1>3. PICK i : i = 1
  OBVIOUS
<1>4. Cardinality(Earlier(lanes, d)) = i - 1
  BY <1>2, <1>3, FS_EmptySet
<1>5. i \in 1..Cardinality(Duplicates(lanes)) /\ d \in Duplicates(lanes)
  BY <1>1, <1>3
<1>6. \A e \in Duplicates(lanes) : Cardinality(Earlier(lanes, e)) = i - 1 => e = d
  OBVIOUS
<1>7. ToBeRemoved(lanes)[i] = d[2]
  BY <1>4, <1>5, <1>6, RemovedAt
<1> QED
  BY <1>1, <1>3, <1>7

LEMMA TwoFound ==
  ASSUME NEW lanes \in Seq(Nodes), NEW d, NEW e, Duplicates(lanes) = {d, e}, d # e,
         Found(d, e), ~Found(e, d), ~Found(d, d), ~Found(e, e)
  PROVE  /\ Cardinality(Duplicates(lanes)) = 2
         /\ ToBeRemoved(lanes)[1] = d[2] /\ ToBeRemoved(lanes)[2] = e[2]
<1>1. Cardinality({d}) = 1 /\ IsFiniteSet({d})
  BY FS_Singleton
<1>2. Cardinality(Duplicates(lanes)) = 2
  <2>1. {d, e} = {d} \cup {e} /\ e \notin {d}
    OBVIOUS
  <2>2. Cardinality({d} \cup {e}) = Cardinality({d}) + 1
    BY <1>1, <2>1, FS_AddElement
  <2>3. Duplicates(lanes) = {d} \cup {e}
    BY <2>1
  <2>4. Cardinality(Duplicates(lanes)) = Cardinality({d} \cup {e})
    BY <2>3, Zenon
  <2>5. Cardinality({d}) + 1 = 2
    BY <1>1
  <2> QED
    BY <2>2, <2>4, <2>5, Zenon
<1>3. Earlier(lanes, d) = {} /\ Earlier(lanes, e) = {d}
  BY DEF Earlier
<1>4. Cardinality(Earlier(lanes, d)) = 0 /\ Cardinality(Earlier(lanes, e)) = 1
  BY <1>1, <1>3, FS_EmptySet
<1>5. PICK i, j : i = 1 /\ j = 2
  OBVIOUS
<1>6. /\ i \in 1..Cardinality(Duplicates(lanes)) /\ Cardinality(Earlier(lanes, d)) = i - 1
      /\ j \in 1..Cardinality(Duplicates(lanes)) /\ Cardinality(Earlier(lanes, e)) = j - 1
  BY <1>2, <1>4, <1>5
<1>7. /\ \A x \in Duplicates(lanes) : Cardinality(Earlier(lanes, x)) = i - 1 => x = d
      /\ \A x \in Duplicates(lanes) : Cardinality(Earlier(lanes, x)) = j - 1 => x = e
  BY <1>4, <1>5
<1>8. d \in Duplicates(lanes) /\ e \in Duplicates(lanes)
  OBVIOUS
<1>9. ToBeRemoved(lanes)[i] = d[2] /\ ToBeRemoved(lanes)[j] = e[2]
  BY <1>6, <1>7, <1>8, RemovedAt
<1> QED
  BY <1>2, <1>5, <1>9

\* One of the two removes the last lane.
AtMostTwo(lanes) ==
  /\ \A d, e \in Duplicates(lanes) :
       d[2] = Len(lanes) /\ e[2] = Len(lanes) => d = e
  /\ \A d, e \in Duplicates(lanes) :
       d[2] # Len(lanes) /\ e[2] # Len(lanes) => d = e

LEMMA TwoInOrder ==
  ASSUME NEW lanes \in Seq(Nodes), AtMostTwo(lanes)
  PROVE  InOrder(ToBeRemoved(lanes), Len(lanes))
<1>1. PICK L \in Nat : L = Len(lanes)
  BY LenProperties
<1>2. PICK n \in Nat : n = Cardinality(Duplicates(lanes))
  BY DuplicatesFinite
<1>3. PICK gone : gone = ToBeRemoved(lanes)
  OBVIOUS
<1>4. DOMAIN gone = 1..n
  BY <1>2, <1>3, GoneIs
<1>5. CASE \A d, e \in Duplicates(lanes) : d = e
  <2>1. n = 0 \/ n = 1
    <3>1. CASE Duplicates(lanes) = {}
      BY <1>2, <3>1, FS_EmptySet
    <3>2. CASE Duplicates(lanes) # {}
      <4>1. PICK d : Duplicates(lanes) = {d}
        BY <1>5, <3>2
      <4> QED
        BY <1>2, <4>1, FS_Singleton
    <3> QED
      BY <3>1, <3>2
  <2>2. \A i, j \in 1..n : i = j
    BY <2>1
  <2>3. \A i, j \in 1..n : ~(i < j)
    BY <2>1
  <2> QED
    BY <1>3, <1>4, <2>2, <2>3 DEF InOrder, IsInjective
<1>6. CASE \E d, e \in Duplicates(lanes) : d # e
  <2>1. PICK d \in Duplicates(lanes), e \in Duplicates(lanes) : d[2] # L /\ e[2] = L
    BY <1>1, <1>6 DEF AtMostTwo
  <2>2. Duplicates(lanes) = {d, e} /\ Duplicates(lanes) = {e, d}
    <3>1. ASSUME NEW c \in Duplicates(lanes)
          PROVE  c = d \/ c = e
      BY <1>1, <2>1 DEF AtMostTwo
    <3> QED
      BY <3>1
  <2>3. d[2] \in 1..L /\ e[2] \in 1..L /\ d # e
    BY <1>1, <2>1, DuplicateIs
  <2>4. ~Found(d, d) /\ ~Found(e, e) /\ (Found(d, e) \/ Found(e, d))
    BY <2>3, FoundOrder, Zenon
  <2>5. ~(Found(d, e) /\ Found(e, d))
    BY <2>4, FoundOrder, Zenon
  <2>6. /\ n = 2
        /\ \/ gone[1] = d[2] /\ gone[2] = L
           \/ gone[1] = L /\ gone[2] = d[2]
    <3>1. CASE Found(d, e)
      BY <1>2, <1>3, <2>1, <2>2, <2>3, <2>4, <2>5, <3>1, TwoFound
    <3>2. CASE Found(e, d)
      BY <1>2, <1>3, <2>1, <2>2, <2>3, <2>4, <2>5, <3>2, TwoFound
    <3> QED
      BY <2>4, <3>1, <3>2
  <2>7. gone[1] # gone[2] /\ (gone[2] < gone[1] \/ gone[2] = L)
    BY <2>1, <2>3, <2>6
  <2>8. (L + 1)..L = {}
    OBVIOUS
  <2>9. \A i, j \in 1..n : i < j => i = 1 /\ j = 2
    BY <2>6
  <2>10. \A i, j \in 1..n : i = j \/ i < j \/ j < i
    OBVIOUS
  <2>11. IsInjective(gone)
    BY <1>4, <2>7, <2>9, <2>10 DEF IsInjective
  <2>12. \A i, j \in 1..n : i < j =>
           gone[j] < gone[i] \/ (gone[j] + 1)..L \subseteq Range(gone)
    BY <2>7, <2>8, <2>9
  <2> QED
    BY <1>1, <1>3, <1>4, <2>11, <2>12, Zenon DEF InOrder
<1> QED
  BY <1>5, <1>6


(***************************************************************************)
(* With at most two parents: one duplicate may come with the first, which  *)
(* takes the lane of its child; one with the second, which is the last.    *)
(***************************************************************************)
LEMMA ParentsJoin ==
  ASSUME NEW cols \in Seq(Nodes), IsInjective(cols), NEW n \in Range(cols),
         NEW ps \in Seq(Nodes), IsInjective(ps), Len(ps) <= 2
  PROVE  AtMostTwo(WithParents(cols, n, ps))
<1> DEFINE lanes == WithParents(cols, n, ps)
           own == Lane(cols, n)
<1>1. PICK m \in Nat : m = Len(cols)
  BY LenProperties
<1>2. /\ DOMAIN cols = 1..m /\ DOMAIN ps = 1..Len(ps) /\ Len(ps) \in Nat
      /\ \A i, j \in 1..m : cols[i] = cols[j] => i = j
  BY <1>1, LenProperties DEF IsInjective
<1>3. CASE ps = <<>>
  <2>1. lanes = cols
    BY <1>3 DEF WithParents
  <2>2. \A d \in Duplicates(cols) : FALSE
    BY <1>1, <1>2, DuplicateIs
  <2> QED
    BY <2>1, <2>2 DEF AtMostTwo
<1>4. CASE ps # <<>>
  <2>1. Len(ps) \in {1, 2}
    BY <1>2, <1>4, EmptySeq
  <2>2. own \in 1..m
    BY <1>1, LaneIs
  <2>3. /\ lanes \in Seq(Nodes) /\ Len(lanes) = m + Len(ps) - 1
        /\ \A k \in 1..m : lanes[k] = IF k = own THEN ps[1] ELSE cols[k]
        /\ \A k \in (m + 1)..Len(lanes) : lanes[k] = ps[k - m + 1]
    BY <1>1, <1>4, WithParentsIs
  <2> HIDE DEF lanes, own
  <2>4. ASSUME NEW d \in Duplicates(lanes), NEW e \in Duplicates(lanes),
               d[2] \in 1..m, e[2] \in 1..m
        PROVE  d = e
    <3>1. PICK a \in 1..m, b \in 1..m :
            d = <<a, b>> /\ a < b /\ lanes[a] = lanes[b]
      BY <1>1, <2>3, <2>4, DuplicateIs
    <3>2. PICK x \in 1..m, y \in 1..m :
            e = <<x, y>> /\ x < y /\ lanes[x] = lanes[y]
      BY <1>1, <2>3, <2>4, DuplicateIs
    <3>3. (a = own /\ cols[b] = ps[1]) \/ (b = own /\ cols[a] = ps[1])
      BY <1>2, <2>3, <3>1
    <3>4. (x = own /\ cols[y] = ps[1]) \/ (y = own /\ cols[x] = ps[1])
      BY <1>2, <2>3, <3>2
    <3>5. a = x /\ b = y
      BY <1>2, <3>1, <3>2, <3>3, <3>4
    <3> QED
      BY <3>1, <3>2, <3>5
  <2>5. CASE Len(ps) = 1
    <3>1. Len(lanes) = m
      BY <1>1, <2>3, <2>5
    <3>2. \A d, e \in Duplicates(lanes) : d = e
      BY <2>3, <2>4, <3>1, DuplicateIs
    <3> QED
      BY <3>2 DEF AtMostTwo, lanes
  <2>6. CASE Len(ps) = 2
    <3>1. Len(lanes) = m + 1 /\ ps[1] # ps[2]
      BY <1>1, <1>2, <2>3, <2>6 DEF IsInjective
    <3>2. lanes[m + 1] = ps[2]
      BY <1>1, <2>3, <3>1
    <3>3. ASSUME NEW d \in Duplicates(lanes), NEW e \in Duplicates(lanes),
                 d[2] # m + 1, e[2] # m + 1
          PROVE  d = e
      <4>1. d[2] \in 1..m /\ e[2] \in 1..m
        BY <1>1, <2>3, <3>1, <3>3, DuplicateIs
      <4> QED
        BY <2>4, <4>1
    <3>4. ASSUME NEW d \in Duplicates(lanes), d[2] = m + 1
          PROVE  \E a \in 1..m : d = <<a, m + 1>> /\ cols[a] = ps[2]
      <4>1. /\ d[1] \in 1..Len(lanes) /\ d[1] < d[2]
            /\ lanes[d[1]] = lanes[d[2]] /\ d = <<d[1], d[2]>>
        BY <2>3, DuplicateIs
      <4>2. PICK a \in 1..m : a = d[1]
        BY <3>1, <3>4, <4>1
      <4>3. lanes[a] = ps[2] /\ d = <<a, m + 1>>
        BY <3>2, <3>4, <4>1, <4>2
      <4>4. cols[a] = ps[2]
        BY <2>3, <3>1, <4>3
      <4> QED
        BY <4>3, <4>4
    <3>5. ASSUME NEW d \in Duplicates(lanes), NEW e \in Duplicates(lanes),
                 d[2] = m + 1, e[2] = m + 1
          PROVE  d = e
      <4>1. PICK a \in 1..m : d = <<a, m + 1>> /\ cols[a] = ps[2]
        BY <3>4, <3>5
      <4>2. PICK x \in 1..m : e = <<x, m + 1>> /\ cols[x] = ps[2]
        BY <3>4, <3>5
      <4>3. a = x
        BY <1>2, <4>1, <4>2
      <4> QED
        BY <4>1, <4>2, <4>3
    <3> QED
      BY <3>1, <3>3, <3>5 DEF AtMostTwo, lanes
  <2> QED
    BY <2>1, <2>5, <2>6
<1> QED
  BY <1>3, <1>4

-----------------------------------------------------------------------------
(***************************************************************************)
(* The cells: one for each lane, and a node only in the lanes of the       *)
(* commit drawn.                                                           *)
(***************************************************************************)
Shown(marks, open, lanes, n) ==
  /\ Len(marks) = Len(lanes)
  /\ DOMAIN marks = 1..Len(lanes)
  /\ \A k \in 1..Len(lanes) : "node" \in marks[k] => k \in 1..Len(open) /\ open[k] = n

LEMMA MarksAre ==
  ASSUME NEW cols \in Seq(Nodes), NEW n \in Nodes, NEW ps \in Seq(Nodes)
  PROVE  Shown(Marks(cols, n, ps), WithNode(cols, n),
               WithParents(WithNode(cols, n), n, ps), n)
<1> DEFINE open == WithNode(cols, n)
           lanes == WithParents(open, n, ps)
           marks == Marks(cols, n, ps)
<1>1. open \in Seq(Nodes) /\ n \in Range(open)
  BY WithNodeIs
<1>2. lanes \in Seq(Nodes)
  BY <1>1, WithParentsIs DEF WithParents
<1>3. Len(lanes) \in Nat /\ Len(open) \in Nat
  BY <1>1, <1>2, LenProperties
<1>4. DOMAIN marks = 1..Len(lanes)
  BY Zenon DEF Marks
<1>5. ASSUME NEW k \in 1..Len(lanes), "node" \in marks[k]
      PROVE  k \in 1..Len(open) /\ open[k] = n
  BY <1>3, <1>5 DEF Marks
<1>6. Len(marks) = Len(lanes)
  <2>1. marks \in [1..Len(lanes) -> {marks[k] : k \in 1..Len(lanes)}]
    BY <1>4, Zenon DEF Marks
  <2> QED
    BY <1>3, <2>1, SeqFrom
<1> QED
  BY <1>4, <1>5, <1>6 DEF Shown


-----------------------------------------------------------------------------
LEMMA DrawnNode ==
  ASSUME GraphTypeOK, Node <= NumNodes, NEW ps \in ParentLists(Node)
  PROVE  LET lanes == WithParents(WithNode(columns, Node), Node, ps)
         IN  /\ Node \in Nodes /\ Len(graph) \in Nat
             /\ ps \in Seq(Nodes) /\ columns \in Seq(Nodes)
             /\ WithNode(columns, Node) \in Seq(Nodes)
             /\ Node \in Range(WithNode(columns, Node))
             /\ lanes \in Seq(Nodes)
<1>1. Len(graph) \in Nat /\ columns \in Seq(Nodes)
  BY LenProperties DEF GraphTypeOK, Nodes
<1>2. Node \in Nodes
  BY <1>1, SizeAssumption DEF Node, Nodes
<1>3. ps \in Seq(Nodes)
  BY <1>2, ParentsAre
<1>4. WithNode(columns, Node) \in Seq(Nodes) /\ Node \in Range(WithNode(columns, Node))
  BY <1>1, <1>2, WithNodeIs
<1>5. WithParents(WithNode(columns, Node), Node, ps) \in Seq(Nodes)
  BY <1>3, <1>4, WithParentsIs DEF WithParents
<1> QED
  BY <1>1, <1>2, <1>3, <1>4, <1>5

LEMMA GraphTypeStep == GraphTypeOK /\ [GraphNext]_graphVars => GraphTypeOK'
<1> SUFFICES ASSUME GraphTypeOK, [GraphNext]_graphVars
             PROVE  GraphTypeOK'
  OBVIOUS
<1>1. ASSUME ~stopped, Node <= NumNodes, NEW ps \in ParentLists(Node), DrawRow(ps)
      PROVE  GraphTypeOK'
  <2> DEFINE lanes == WithParents(WithNode(columns, Node), Node, ps)
  <2>1. Node \in Nodes /\ ps \in Seq(Nodes) /\ columns \in Seq(Nodes) /\ lanes \in Seq(Nodes)
    BY <1>1, DrawnNode
  <2>2. graph' \in Seq(Seq(1..NumNodes))
    BY <1>1, <2>1, AppendProperties DEF DrawRow, GraphTypeOK, Nodes
  <2>3. columns' \in Seq(1..NumNodes)
    BY <1>1, <2>1, JoinedType DEF DrawRow, Nodes
  <2>4. Len(row') <= MaxColumns
    <3>1. Len(Marks(columns, Node, ps)) = Len(lanes)
      BY <2>1, MarksAre DEF Shown
    <3> HIDE DEF lanes
    <3> QED
      BY <1>1, <3>1 DEF DrawRow, Fits, lanes
  <2> QED
    BY <1>1, <2>2, <2>3, <2>4 DEF DrawRow, GraphTypeOK
<1>2. ASSUME NEW ps \in ParentLists(Node), Bailout(ps)
      PROVE  GraphTypeOK'
  BY <1>2 DEF Bailout, GraphTypeOK
<1>3. CASE UNCHANGED graphVars
  BY <1>3 DEF graphVars, GraphTypeOK
<1> QED
  BY <1>1, <1>2, <1>3 DEF GraphNext

LEMMA GraphTypeInit == GraphInit => GraphTypeOK
<1>1. <<>> \in Seq(Seq(1..NumNodes)) /\ <<>> \in Seq(1..NumNodes) /\ Len(<<>>) = 0
  BY EmptySeq
<1>2. 0 <= MaxColumns
  BY SizeAssumption
<1> QED
  BY <1>1, <1>2 DEF GraphInit, GraphTypeOK

(***************************************************************************)
(* The lanes of graph_render stay within its arrays of MAX_COLUMNS, for    *)
(* merges of any number of parents.                                        *)
(***************************************************************************)
THEOREM LanesFit == GraphSpec => []GraphTypeOK
BY GraphTypeInit, GraphTypeStep, PTL DEF GraphSpec

-----------------------------------------------------------------------------
(***************************************************************************)
(* The inductive invariant: while all merges are small, all removals were  *)
(* in order; and while they were, every lane leads to a commit of its own, *)
(* with a node in one cell of the row at most.                             *)
(***************************************************************************)
OneNode ==
  \A j, k \in DOMAIN row : "node" \in row[j] /\ "node" \in row[k] => j = k
SmallMerges == \A n \in Drawn : Len(graph[n]) <= 2
LanesSound == LanesContinue /\ IsInjective(columns) /\ OneNode
GraphInv ==
  /\ GraphTypeOK
  /\ SmallMerges => ordered
  /\ ordered => LanesSound

LEMMA PendingAfter ==
  ASSUME GraphTypeOK, NEW ps, ps \in Seq(Nodes), graph' = Append(graph, ps)
  PROVE  Pending' \subseteq (Pending \cup Range(ps)) \ {Node}
<1>1. /\ Len(graph) \in Nat /\ Len(graph') = Len(graph) + 1
      /\ \A i \in 1..Len(graph) : graph'[i] = graph[i]
      /\ graph'[Len(graph) + 1] = ps
  BY AppendProperties, LenProperties DEF GraphTypeOK, Nodes
<1>2. Drawn' = Drawn \cup {Node}
  BY <1>1 DEF Drawn, Node
<1>3. ASSUME NEW i \in Drawn'
      PROVE  Range(graph'[i]) \subseteq Announced \cup Range(ps)
  <2>1. CASE i \in Drawn
    BY <1>1, <2>1 DEF Drawn, Announced
  <2>2. CASE i = Node
    BY <1>1, <2>2 DEF Node
  <2> QED
    BY <1>2, <2>1, <2>2
<1>4. Announced' \subseteq Announced \cup Range(ps)
  BY <1>3 DEF Announced
<1> QED
  BY <1>2, <1>4 DEF Pending


LEMMA RowAfter ==
  ASSUME GraphInv, ~stopped, Node <= NumNodes,
         NEW ps \in ParentLists(Node), DrawRow(ps)
  PROVE  GraphInv'
<1> DEFINE open == WithNode(columns, Node)
           lanes == WithParents(open, Node, ps)
<1>1. /\ Node \in Nodes /\ ps \in Seq(Nodes) /\ columns \in Seq(Nodes)
      /\ open \in Seq(Nodes) /\ Node \in Range(open) /\ lanes \in Seq(Nodes)
  BY DrawnNode DEF GraphInv
<1>2. IsInjective(ps) /\ (\A i \in 1..Len(ps) : ps[i] > Node)
  BY <1>1, ParentsAre
<1>3. Range(columns) \subseteq Range(open) /\ (ordered => IsInjective(open))
  BY <1>1, WithNodeIs DEF GraphInv, LanesSound
<1>5. columns' = Joined(lanes) /\ graph' = Append(graph, ps)
      /\ row' = Marks(columns, Node, ps)
      /\ ordered' = (ordered /\ InOrder(ToBeRemoved(lanes), Len(lanes)))
  BY Zenon DEF DrawRow
<1>6. GraphTypeOK'
  <2>1. GraphNext
    BY DEF GraphNext
  <2> QED
    BY <2>1, GraphTypeStep DEF GraphInv
<1>7. (Range(open) \cup Range(ps)) \ {Node} \subseteq Range(lanes)
  <2>1. CASE ps = <<>>
    <3>1. lanes = open
      BY <2>1 DEF WithParents
    <3>2. Range(ps) = {}
      BY <2>1 DEF Range
    <3> QED
      BY <3>1, <3>2
  <2>2. CASE ps # <<>>
    <3>1. /\ Len(open) \in Nat /\ Len(ps) \in Nat \ {0} /\ Len(lanes) = Len(open) + Len(ps) - 1
          /\ DOMAIN open = 1..Len(open) /\ DOMAIN ps = 1..Len(ps)
          /\ DOMAIN lanes = 1..Len(lanes)
      BY <1>1, <2>2, EmptySeq, LenProperties, WithParentsIs
    <3>2. /\ \A k \in 1..Len(open) :
               lanes[k] = IF k = Lane(open, Node) THEN ps[1] ELSE open[k]
          /\ \A k \in (Len(open) + 1)..Len(lanes) : lanes[k] = ps[k - Len(open) + 1]
          /\ Lane(open, Node) \in 1..Len(open) /\ open[Lane(open, Node)] = Node
      <4>1. Lane(open, Node) \in 1..Len(open) /\ open[Lane(open, Node)] = Node
        BY <1>1, LaneIs, Zenon
      <4> QED
        BY <1>1, <2>2, <4>1, WithParentsIs
    <3> HIDE DEF open, lanes
    <3>3. ASSUME NEW k \in 1..Len(open), open[k] # Node
          PROVE  open[k] \in Range(lanes)
      <4>1. k \in DOMAIN lanes /\ lanes[k] = open[k]
        BY <3>1, <3>2, <3>3
      <4> QED
        BY <4>1 DEF Range
    <3>4. ASSUME NEW i \in 1..Len(ps)
          PROVE  ps[i] \in Range(lanes)
      <4>1. CASE i = 1
        <5>1. Lane(open, Node) \in DOMAIN lanes /\ lanes[Lane(open, Node)] = ps[1]
          BY <3>1, <3>2
        <5> QED
          BY <4>1, <5>1 DEF Range
      <4>2. CASE i # 1
        <5>1. PICK k \in (Len(open) + 1)..Len(lanes) : k - Len(open) + 1 = i
          <6>1. /\ Len(open) + i - 1 \in (Len(open) + 1)..Len(lanes)
                /\ (Len(open) + i - 1) - Len(open) + 1 = i
            BY <3>1, <4>2
          <6> QED
            BY <6>1
        <5>2. k \in DOMAIN lanes
          BY <3>1, <5>1
        <5>3. lanes[k] = ps[k - Len(open) + 1]
          BY <3>2, Zenon
        <5>4. lanes[k] = ps[i]
          BY <5>1, <5>3, Zenon
        <5> QED
          BY <5>2, <5>4 DEF Range
      <4> QED
        BY <4>1, <4>2
    <3> QED
      BY <3>1, <3>3, <3>4 DEF Range
  <2> QED
    BY <2>1, <2>2
<1>8. SmallMerges' => ordered'
  <2>1. SUFFICES ASSUME SmallMerges'
                 PROVE  ordered'
    OBVIOUS
  <2>2. /\ Len(graph) \in Nat /\ Len(graph') = Len(graph) + 1
        /\ \A i \in 1..Len(graph) : graph'[i] = graph[i]
        /\ graph'[Len(graph) + 1] = ps
    BY <1>1, <1>5, AppendProperties, LenProperties DEF GraphInv, GraphTypeOK, Nodes
  <2>3. SmallMerges /\ Len(ps) <= 2
    BY <2>1, <2>2 DEF SmallMerges, Drawn
  <2>4. ordered
    BY <2>3 DEF GraphInv
  <2>5. AtMostTwo(lanes)
    BY <1>1, <1>2, <1>3, <2>3, <2>4, ParentsJoin
  <2> HIDE DEF lanes
  <2> QED
    BY <1>1, <1>5, <2>4, <2>5, TwoInOrder, Zenon
<1>9. ASSUME ordered'
      PROVE  LanesSound'
  <2>1. ordered /\ InOrder(ToBeRemoved(lanes), Len(lanes))
    BY <1>5, <1>9, Zenon
  <2>2. LanesSound /\ IsInjective(open)
    BY <1>3, <2>1 DEF GraphInv
  <2>3. IsInjective(Joined(lanes)) /\ Range(Joined(lanes)) = Range(lanes)
    BY <1>1, <2>1, InOrderSound, Zenon DEF JoinedSound
  <2>4. LanesContinue'
    <3>1. Pending' \subseteq (Pending \cup Range(ps)) \ {Node}
      BY <1>1, <1>5, PendingAfter DEF GraphInv
    <3>2. Pending \subseteq Range(open)
      BY <1>3, <2>2 DEF LanesSound, LanesContinue
    <3> HIDE DEF open, lanes
    <3> QED
      BY <1>5, <1>7, <2>3, <3>1, <3>2 DEF LanesContinue
  <2>5. OneNode'
    <3>1. Shown(row', open, lanes, Node)
      BY <1>1, <1>5, MarksAre, Zenon
    <3>2. DOMAIN row' = 1..Len(lanes)
          /\ \A k \in 1..Len(lanes) : "node" \in row'[k] =>
               k \in 1..Len(open) /\ open[k] = Node
      BY <3>1, Zenon DEF Shown
    <3>3. \A j, k \in 1..Len(open) : open[j] = open[k] => j = k
      BY <1>1, <2>2, LenProperties DEF IsInjective
    <3> HIDE DEF open, lanes
    <3> QED
      BY <3>2, <3>3 DEF OneNode
  <2>6. IsInjective(columns')
    BY <1>5, <2>3
  <2> QED
    BY <2>4, <2>5, <2>6 DEF LanesSound
<1> QED
  BY <1>6, <1>8, <1>9 DEF GraphInv

LEMMA GraphInvHolds == GraphSpec => []GraphInv
<1>1. GraphInit => GraphInv
  <2> SUFFICES ASSUME GraphInit
               PROVE  GraphInv
    OBVIOUS
  <2>1. graph = <<>> /\ columns = <<>> /\ row = <<>> /\ ordered
    BY DEF GraphInit
  <2>2. Pending = {}
    BY <2>1 DEF Pending, Announced, Drawn
  <2>3. IsInjective(columns) /\ OneNode
    BY <2>1 DEF IsInjective, OneNode
  <2> QED
    BY <2>1, <2>2, <2>3, GraphTypeInit DEF GraphInv, LanesSound, LanesContinue
<1>2. GraphInv /\ [GraphNext]_graphVars => GraphInv'
  <2> SUFFICES ASSUME GraphInv, [GraphNext]_graphVars
               PROVE  GraphInv'
    OBVIOUS
  <2>1. ASSUME ~stopped, Node <= NumNodes, NEW ps \in ParentLists(Node), DrawRow(ps)
        PROVE  GraphInv'
    BY <2>1, RowAfter
  <2>2. CASE UNCHANGED <<graph, columns, row, ordered>>
    <3>1. Drawn' = Drawn /\ Announced' = Announced
      BY <2>2 DEF Drawn, Announced
    <3>2. GraphTypeOK'
      BY GraphTypeStep DEF GraphInv
    <3>3. SmallMerges' = SmallMerges /\ LanesSound' = LanesSound
      BY <2>2, <3>1 DEF SmallMerges, LanesSound, LanesContinue, Pending, OneNode
    <3> QED
      BY <2>2, <3>2, <3>3 DEF GraphInv
  <2>3. ASSUME NEW ps \in ParentLists(Node), Bailout(ps)
        PROVE  UNCHANGED <<graph, columns, row, ordered>>
    BY <2>3 DEF Bailout
  <2> QED
    BY <2>1, <2>2, <2>3 DEF GraphNext, graphVars
<1> QED
  BY <1>1, <1>2, PTL DEF GraphSpec

LEMMA OrderedIsSound == GraphInv /\ RemovedInOrder => LanesSound
BY DEF GraphInv, RemovedInOrder, SmallMerges

(***************************************************************************)
(* For merges of any number of parents: as long as graph_render has not    *)
(* removed a column that had moved, it keeps a lane for every commit that  *)
(* was announced as a parent and is not drawn; and it has not while no     *)
(* merge has more than two parents.                                        *)
(***************************************************************************)
THEOREM LanesAreKept == GraphSpec => []NoLaneLost
<1>1. GraphInv => NoLaneLost
  BY OrderedIsSound DEF NoLaneLost, LanesSound
<1> QED
  BY <1>1, GraphInvHolds, PTL

(***************************************************************************)
(* Under the same condition no two lanes lead to the same commit, and a    *)
(* row shows its commit once.                                              *)
(***************************************************************************)
THEOREM NodesAreSingle == GraphSpec => []OneNodePerRow
<1>1. GraphInv => OneNodePerRow
  <2> SUFFICES ASSUME GraphInv, RemovedInOrder
               PROVE  IsInjective(columns)
                      /\ Cardinality({k \in DOMAIN row : "node" \in row[k]}) <= 1
    BY DEF OneNodePerRow
  <2> DEFINE cells == {k \in DOMAIN row : "node" \in row[k]}
  <2>1. IsInjective(columns) /\ \A j, k \in cells : j = k
    BY OrderedIsSound DEF LanesSound, OneNode
  <2> HIDE DEF cells
  <2>2. Cardinality(cells) <= 1
    <3>1. CASE cells = {}
      <4>1. Cardinality(cells) = 0
        BY <3>1, FS_EmptySet
      <4> QED
        BY <4>1
    <3>2. CASE cells # {}
      <4>1. PICK k : cells = {k}
        BY <2>1, <3>2
      <4>2. Cardinality(cells) = 1
        BY <4>1, FS_Singleton
      <4> QED
        BY <4>2
    <3> QED
      BY <3>1, <3>2
  <2> QED
    BY <2>1, <2>2 DEF cells
<1> QED
  BY <1>1, GraphInvHolds, PTL
=============================================================================
