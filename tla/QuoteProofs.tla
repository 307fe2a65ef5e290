---------------------------- MODULE QuoteProofs ----------------------------
(***************************************************************************)
(* Theorems about quoting, for every name, list of arguments and path.     *)
(***************************************************************************)
EXTENDS QuoteProps, StrbufProofs


-----------------------------------------------------------------------------
(***************************************************************************)
(* What the quoting functions emit, byte by byte, is added to the buffer.  *)
(***************************************************************************)
\* f is the buffer b after each of the first n bytes of t.
Emitted(f, b, t, n) ==
  f = [k \in 0..n |-> IF k = 0 THEN b ELSE AddTo(f[k - 1], <<t[k]>>)]

LEMMA EmittedExists ==
  ASSUME NEW b, NEW t, NEW n \in Nat
  PROVE  \E f : Emitted(f, b, t, n)
<1> DEFINE Is(f, m) == f = [k \in 0..m |-> IF k = 0 THEN b ELSE AddTo(f[k - 1], <<t[k]>>)]
           T == {m \in Nat : ~ \E f : Is(f, m)}
<1>1. T = {}
  <2>1. SUFFICES ASSUME T # {}
                 PROVE  FALSE
    OBVIOUS
  <2>2. PICK m \in T : \A k \in T : m <= k
    <3>1. T \in SUBSET Nat
      OBVIOUS
    <3> HIDE DEF T
    <3> QED
      BY <2>1, <3>1, Least
  <2>3. m \in Nat /\ ~ \E f : Is(f, m)
    OBVIOUS
  <2>4. CASE m = 0
    <3>1. Is([k \in 0..0 |-> b], 0)
      OBVIOUS
    <3> QED
      BY <2>3, <2>4, <3>1
  <2>5. CASE m # 0
    <3>1. m - 1 \in Nat /\ ~(m <= m - 1)
      BY <2>3, <2>5
    <3>2. m - 1 \notin T
      BY <2>2, <3>1, Zenon
    <3>3. PICK f : Is(f, m - 1)
      BY <3>1, <3>2
    <3> DEFINE h == [k \in 0..m |-> IF k < m THEN f[k] ELSE AddTo(f[m - 1], <<t[m]>>)]
    <3>4. ASSUME NEW k \in 0..m
          PROVE  h[k] = IF k = 0 THEN b ELSE AddTo(h[k - 1], <<t[k]>>)
      <4>1. CASE k < m
        <5>1. k \in 0..(m - 1) /\ h[k] = f[k]
          BY <2>3, <4>1
        <5>2. f[k] = IF k = 0 THEN b ELSE AddTo(f[k - 1], <<t[k]>>)
          BY <3>3, <5>1, Zenon
        <5>3. k # 0 => h[k - 1] = f[k - 1]
          BY <2>3, <4>1
        <5> QED
          BY <5>1, <5>2, <5>3
      <4>2. CASE k = m
        <5>1. h[m] = AddTo(f[m - 1], <<t[m]>>) /\ h[m - 1] = f[m - 1]
          BY <2>3, <2>5
        <5> QED
          BY <2>5, <4>2, <5>1
      <4>3. k < m \/ k = m
        BY <2>3
      <4> QED
        BY <4>1, <4>2, <4>3
    <3>5. DOMAIN h = 0..m /\ h = [k \in DOMAIN h |-> h[k]]
      OBVIOUS
    <3> HIDE DEF h
    <3>6. Is(h, m)
      BY <3>4, <3>5
    <3> HIDE DEF Is
    <3> QED
      BY <2>3, <3>6
  <2> QED
    BY <2>4, <2>5
<1>2. \E f : Is(f, n)
  BY <1>1
<1> QED
  BY <1>2 DEF Emitted

LEMMA EmitAdds ==
  ASSUME NEW s, Buffer(s), NEW t \in Seq(Cells)
  PROVE  /\ Buffer(Emit(s, t)) /\ Text(Emit(s, t)) = Text(s) \o t
         /\ t # <<>> => Closed(Emit(s, t), Text(s) \o t)
         /\ t = <<>> => Emit(s, t) = s
<1>1. PICK n \in Nat : n = Len(t)
  BY LenProperties
<1> DEFINE After == CHOOSE f : Emitted(f, s, t, n)
<1>2. Emit(s, t) = After[n]
  BY <1>1, Zenon DEF Emit, Emitted
<1>3. Emitted(After, s, t, n)
  <2>1. \E f : Emitted(f, s, t, n)
    BY EmittedExists, Zenon
  <2> QED
    BY <2>1, Zenon
<1> HIDE DEF After
<1>4. ASSUME NEW k \in 0..n
      PROVE  After[k] = IF k = 0 THEN s ELSE AddTo(After[k - 1], <<t[k]>>)
  BY <1>3, Zenon DEF Emitted
<1>5. After[0] = s
  <2>1. 0 \in 0..n
    OBVIOUS
  <2> QED
    BY <1>4, <2>1
<1> DEFINE Done(k) == Closed(After[k], Text(s) \o SubSeq(t, 1, k))
           T == {k \in 1..n : ~Done(k)}
<1>6. Text(s) \in Seq(Cells) /\ Text(s) \o SubSeq(t, 1, 0) = Text(s)
  BY TextIs, SubSeqEmpty, ConcatEmptySeq
<1>7. T = {}
  <2>1. SUFFICES ASSUME T # {}
                 PROVE  FALSE
    OBVIOUS
  <2>2. PICK m \in T : \A k \in T : m <= k
    <3>1. T \in SUBSET Nat
      OBVIOUS
    <3> HIDE DEF T
    <3> QED
      BY <2>1, <3>1, Least
  <2>3. m \in 1..n /\ ~Done(m)
    OBVIOUS
  <2>4. PICK p \in 0..n : p = m - 1
    BY <2>3
  <2>5. Buffer(After[p]) /\ Text(After[p]) = Text(s) \o SubSeq(t, 1, p)
    <3>1. CASE p = 0
      BY <1>5, <1>6, <3>1
    <3>2. CASE p # 0
      <4>1. p \in 1..n /\ ~(m <= p)
        BY <2>4, <3>2
      <4>2. p \notin T
        BY <2>2, <4>1, Zenon
      <4> QED
        BY <4>1, <4>2 DEF Closed
    <3> QED
      BY <3>1, <3>2
  <2>6. After[m] = AddTo(After[p], <<t[m]>>)
    BY <1>4, <2>3, <2>4
  <2>7. t[m] \in Cells /\ <<t[m]>> \in Seq(Cells)
    BY <1>1, <2>3, ElementOfSeq
  <2>8. Closed(After[m], (Text(s) \o SubSeq(t, 1, p)) \o <<t[m]>>)
    BY <2>5, <2>6, <2>7, AddToAdds
  <2>9. SubSeq(t, 1, m) = SubSeq(t, 1, p) \o <<t[m]>>
    <3>1. 1 \in 1..Len(t) /\ m \in 1..Len(t)
      BY <1>1, <2>3
    <3> QED
      BY <2>4, <3>1, SubSeqRecursiveSecond
  <2>10. SubSeq(t, 1, p) \in Seq(Cells)
    <3>1. 1 \in 1..(Len(t) + 1) /\ p \in (1 - 1)..Len(t)
      BY <1>1
    <3> QED
      BY <3>1, Parts
  <2>11. (Text(s) \o SubSeq(t, 1, p)) \o <<t[m]>> = Text(s) \o (SubSeq(t, 1, p) \o <<t[m]>>)
    <3>1. PICK x \in Seq(Cells), y \in Seq(Cells), z \in Seq(Cells) :
            x = Text(s) /\ y = SubSeq(t, 1, p) /\ z = <<t[m]>>
      BY <1>6, <2>7, <2>10
    <3>2. (x \o y) \o z = x \o (y \o z)
      BY ConcatAssociative
    <3> QED
      BY <3>1, <3>2, Zenon
  <2> QED
    BY <2>3, <2>8, <2>9, <2>11
<1>8. SubSeq(t, 1, n) = t
  BY <1>1, SubSeqFull
<1>9. CASE n = 0
  <2>1. t = <<>>
    BY <1>1, <1>9, EmptySeq
  <2> QED
    BY <1>2, <1>5, <1>6, <1>9, <2>1, ConcatEmptySeq
<1>10. CASE n # 0
  <2>1. n \in 1..n
    BY <1>10
  <2>2. Done(n)
    BY <1>7, <2>1
  <2>3. t # <<>>
    BY <1>1, <1>10
  <2> QED
    BY <1>2, <1>8, <2>2, <2>3 DEF Closed
<1> QED
  BY <1>9, <1>10

-----------------------------------------------------------------------------
(***************************************************************************)
(* Sequences joined to one: where each of them stands in it.               *)
(***************************************************************************)
LEMMA ConcatAt ==
  ASSUME NEW S, NEW x \in Seq(S), NEW y \in Seq(S)
  PROVE  /\ x \o y \in Seq(S) /\ Len(x \o y) = Len(x) + Len(y)
         /\ Len(x) \in Nat /\ Len(y) \in Nat
         /\ \A i \in 1..Len(x) : (x \o y)[i] = x[i]
         /\ \A j \in 1..Len(y) : (x \o y)[Len(x) + j] = y[j]
<1>1. PICK m \in Nat, n \in Nat : m = Len(x) /\ n = Len(y)
  BY LenProperties
<1>2. /\ x \o y \in Seq(S) /\ Len(x \o y) = m + n
      /\ \A i \in 1..(m + n) : (x \o y)[i] = IF i <= m THEN x[i] ELSE y[i - m]
  BY <1>1, ConcatProperties
<1>3. \A i \in 1..m : i \in 1..(m + n) /\ i <= m
  OBVIOUS
<1>4. \A j \in 1..n : m + j \in 1..(m + n) /\ ~(m + j <= m) /\ (m + j) - m = j
  OBVIOUS
<1>5. \A i \in 1..m : (x \o y)[i] = x[i]
  BY <1>2, <1>3
<1>6. \A j \in 1..n : (x \o y)[m + j] = y[j]
  BY <1>2, <1>4
<1> QED
  BY <1>1, <1>2, <1>5, <1>6

\* Where the k-th of the sequences f is made of starts.
Start(f, k) == IF k = 1 THEN 1 ELSE Len(f[k - 1]) + 1

LEMMA FlattenHolds ==
  ASSUME NEW S, NEW ps \in Seq(Seq(S))
  PROVE  /\ FlattenSeq(ps) \in Seq(S)
         /\ \E p \in [1..(Len(ps) + 1) -> Nat \ {0}] :
              /\ p[1] = 1
              /\ \A k \in 1..Len(ps) :
                   /\ p[k + 1] = p[k] + Len(ps[k])
                   /\ \A j \in 1..Len(ps[k]) : FlattenSeq(ps)[p[k] + (j - 1)] = ps[k][j]
              /\ p[Len(ps) + 1] = Len(FlattenSeq(ps)) + 1
<1>1. PICK n \in Nat : n = Len(ps)
  BY LenProperties
<1>2. CASE n = 0
  <2>1. ps = <<>>
    BY <1>1, <1>2, EmptySeq
  <2>2. FlattenSeq(ps) = <<>>
    BY <2>1 DEF FlattenSeq
  <2>3. <<>> \in Seq(S) /\ Len(<<>>) = 0
    BY EmptySeq
  <2> DEFINE p == [k \in 1..1 |-> 1]
  <2>4. p \in [1..(n + 1) -> Nat \ {0}] /\ p[1] = 1 /\ 1..n = {} /\ p[n + 1] = 0 + 1
    BY <1>2
  <2> QED
    BY <1>1, <2>2, <2>3, <2>4
<1>3. CASE n # 0
  <2>1. PICK f : Joined(f, ps) /\ Api!FlattenSeq(ps) = f[n]
    BY <1>1, <1>3, FlattenIsJoined
  <2>2. FlattenSeq(ps) = f[n]
    BY <2>1 DEF FlattenSeq, Api!FlattenSeq
  <2>3. \A i \in 1..n : f[i] = IF i = 1 THEN ps[i] ELSE f[i - 1] \o ps[i]
    BY <1>1, <2>1 DEF Joined
  <2>4. \A i \in 1..n : ps[i] \in Seq(S) /\ Len(ps[i]) \in Nat
    BY <1>1, ElementOfSeq, LenProperties
  <2> DEFINE p == [k \in 1..(n + 1) |-> Start(f, k)]
             Done(i) == /\ f[i] \in Seq(S) /\ Len(f[i]) \in Nat
                        /\ p[i + 1] = p[i] + Len(ps[i])
                        /\ p[i] \in Nat \ {0}
                        /\ \A k \in 1..i : \A j \in 1..Len(ps[k]) :
                             /\ p[k] + (j - 1) \in 1..Len(f[i])
                             /\ f[i][p[k] + (j - 1)] = ps[k][j]
             T == {i \in 1..n : ~Done(i)}
  <2>5. p[1] = 1 /\ \A i \in 1..n : p[i + 1] = Len(f[i]) + 1
    BY DEF Start
  <2> HIDE DEF p
  <2>6. T = {}
    <3>1. SUFFICES ASSUME T # {}
                   PROVE  FALSE
      OBVIOUS
    <3>2. PICK i \in T : \A k \in T : i <= k
      <4>1. T \in SUBSET Nat
        OBVIOUS
      <4> HIDE DEF T
      <4> QED
        BY <3>1, <4>1, Least
    <3>3. i \in 1..n /\ ~Done(i)
      OBVIOUS
    <3>4. CASE i = 1
      <4>1. f[1] = ps[1] /\ f[1] \in Seq(S) /\ Len(f[1]) \in Nat
        BY <2>3, <2>4, <3>3, <3>4
      <4>2. p[2] = Len(f[1]) + 1
        BY <2>5, <3>3, <3>4
      <4>3. ASSUME NEW j \in 1..Len(ps[1])
            PROVE  p[1] + (j - 1) \in 1..Len(f[1]) /\ f[1][p[1] + (j - 1)] = ps[1][j]
        <5>1. p[1] + (j - 1) = j
          BY <2>5
        <5> QED
          BY <4>1, <5>1
      <4> HIDE DEF T
      <4> QED
        BY <2>5, <3>3, <3>4, <4>1, <4>2, <4>3
    <3>5. CASE i # 1
      <4>1. PICK h \in 1..n : h = i - 1 /\ ~(i <= h) /\ h + 1 = i
        BY <3>3, <3>5
      <4>2. h \notin T
        BY <3>2, <4>1, Zenon
      <4>3. Done(h)
        BY <4>2
      <4>4. PICK a \in Nat, b \in Nat : a = Len(f[h]) /\ b = Len(ps[i])
        BY <2>4, <3>3, <4>3
      <4>5. f[i] = f[h] \o ps[i]
        BY <2>3, <3>3, <3>5, <4>1
      <4>6. /\ f[i] \in Seq(S) /\ Len(f[i]) = a + b
            /\ \A j \in 1..(a + b) : f[i][j] = IF j <= a THEN f[h][j] ELSE ps[i][j - a]
        <5>1. f[h] \in Seq(S) /\ ps[i] \in Seq(S)
          BY <2>4, <3>3, <4>3
        <5>2. /\ f[h] \o ps[i] \in Seq(S) /\ Len(f[h] \o ps[i]) = Len(f[h]) + Len(ps[i])
              /\ \A j \in 1..Len(f[h]) + Len(ps[i]) :
                   (f[h] \o ps[i])[j] = IF j <= Len(f[h]) THEN f[h][j]
                                        ELSE ps[i][j - Len(f[h])]
          <6>1. PICK x \in Seq(S), y \in Seq(S) : x = f[h] /\ y = ps[i]
            BY <5>1
          <6>2. /\ x \o y \in Seq(S) /\ Len(x \o y) = Len(x) + Len(y)
                /\ \A j \in 1..Len(x) + Len(y) :
                     (x \o y)[j] = IF j <= Len(x) THEN x[j] ELSE y[j - Len(x)]
            BY <6>1, ConcatProperties, Zenon
          <6> QED
            BY <6>1, <6>2, Zenon
        <5> QED
          BY <4>4, <4>5, <5>2, Zenon
      <4>7. p[i] = a + 1 /\ p[i + 1] = a + b + 1
        BY <2>5, <3>3, <4>1, <4>4, <4>6
      <4>8. ASSUME NEW k \in 1..i, NEW j \in 1..Len(ps[k])
            PROVE  p[k] + (j - 1) \in 1..Len(f[i]) /\ f[i][p[k] + (j - 1)] = ps[k][j]
        <5>1. CASE k = i
          <6>1. j \in 1..b
            BY <4>4, <5>1
          <6>2. p[k] + (j - 1) = a + j /\ a + j \in 1..(a + b) /\ ~(a + j <= a)
                /\ (a + j) - a = j
            BY <4>7, <5>1, <6>1
          <6> QED
            BY <4>6, <5>1, <6>2
        <5>2. CASE k # i
          <6>1. k \in 1..h
            BY <3>3, <4>1, <5>2
          <6>2. p[k] + (j - 1) \in 1..a /\ f[h][p[k] + (j - 1)] = ps[k][j]
            BY <4>3, <4>4, <6>1
          <6>3. p[k] + (j - 1) \in 1..(a + b) /\ p[k] + (j - 1) <= a
            BY <6>2
          <6> QED
            BY <4>6, <6>2, <6>3
        <5> QED
          BY <5>1, <5>2
      <4>9. p[i] \in Nat \ {0} /\ p[i + 1] = p[i] + Len(ps[i]) /\ Len(f[i]) \in Nat
        <5>1. a + 1 \in Nat \ {0} /\ a + b + 1 = (a + 1) + b /\ a + b \in Nat
          OBVIOUS
        <5>2. p[i] \in Nat \ {0} /\ Len(f[i]) \in Nat
          BY <4>6, <4>7, <5>1
        <5>3. p[i + 1] = p[i] + b
          BY <4>7, <5>1
        <5> QED
          BY <4>4, <5>2, <5>3
      <4>10. Done(i)
        BY <4>6, <4>8, <4>9
      <4> QED
        BY <3>3, <4>10
    <3> QED
      BY <3>4, <3>5
  <2>7. \A i \in 1..n : Done(i)
    BY <2>6
  <2>8. n \in 1..n
    BY <1>3
  <2>9. f[n] \in Seq(S) /\ Len(f[n]) \in Nat /\ p[n + 1] = Len(f[n]) + 1
    BY <2>5, <2>7, <2>8
  <2>10. \A k \in 1..n : /\ p[k + 1] = p[k] + Len(ps[k])
                         /\ \A j \in 1..Len(ps[k]) : f[n][p[k] + (j - 1)] = ps[k][j]
    BY <2>7, <2>8
  <2>11. p \in [1..(n + 1) -> Nat \ {0}]
    <3>1. \A k \in 1..(n + 1) : p[k] \in Nat \ {0}
      <4>1. \A k \in 1..(n + 1) : k \in 1..n \/ k = n + 1
        OBVIOUS
      <4> QED
        BY <2>7, <2>9, <4>1
    <3>2. p = [k \in 1..(n + 1) |-> p[k]]
      BY DEF p
    <3> QED
      BY <3>1, <3>2
  <2> QED
    BY <1>1, <2>2, <2>5, <2>9, <2>10, <2>11
<1> QED
  BY <1>2, <1>3

-----------------------------------------------------------------------------
(***************************************************************************)
(* Loops over a text.  Every round goes on behind the position it is at.   *)
(***************************************************************************)
Ended(V) == [out : Seq(V), then : {0}, ok : BOOLEAN, next : Nat]
Ahead(r, V, n) ==
  /\ r \in [1..n -> [out : Seq(V), then : 0..n, ok : BOOLEAN, next : Nat]]
  /\ \A i \in 1..n : r[i].then = 0 \/ r[i].then > i

\* What the loop comes to at position i if it comes to f at those behind.
From(f, r, i) ==
  IF r[i].then = 0 THEN r[i]
  ELSE [out |-> r[i].out \o f[r[i].then].out, then |-> 0,
        ok |-> f[r[i].then].ok, next |-> f[r[i].then].next]
Scans(f, r) == f = [i \in DOMAIN r |-> From(f, r, i)]

LEMMA ScansExist ==
  ASSUME NEW r, NEW V, NEW n \in Nat, Ahead(r, V, n)
  PROVE  \E f : Scans(f, r)
<1> DEFINE Is(f, m) == f = [i \in m..n |-> From(f, r, i)]
           T == {d \in 0..n : ~ \E f : Is(f, n + 1 - d)}
<1>1. T = {}
  <2>1. SUFFICES ASSUME T # {}
                 PROVE  FALSE
    OBVIOUS
  <2>2. PICK d \in T : \A k \in T : d <= k
    <3>1. T \in SUBSET Nat
      OBVIOUS
    <3> HIDE DEF T
    <3> QED
      BY <2>1, <3>1, Least
  <2>3. d \in 0..n /\ ~ \E f : Is(f, n + 1 - d)
    OBVIOUS
  <2>4. PICK m \in 1..(n + 1) : m = n + 1 - d
    BY <2>3
  <2>5. CASE d = 0
    <3> DEFINE h == [i \in m..n |-> 0]
    <3>1. m..n = {}
      BY <2>4, <2>5
    <3>2. h = [i \in m..n |-> From(h, r, i)]
      BY <3>1
    <3> QED
      BY <2>3, <2>4, <3>2
  <2>6. CASE d # 0
    <3>1. d - 1 \in 0..n /\ ~(d <= d - 1) /\ n + 1 - (d - 1) = m + 1 /\ m \in 1..n
      BY <2>3, <2>4, <2>6
    <3>2. d - 1 \notin T
      BY <2>2, <3>1, Zenon
    <3>3. PICK f : Is(f, m + 1)
      BY <3>1, <3>2
    <3> DEFINE h == [i \in m..n |-> IF i = m THEN From(f, r, m) ELSE f[i]]
    <3>4. ASSUME NEW i \in m..n
          PROVE  h[i] = From(h, r, i)
      <4>1. i \in 1..n /\ (r[i].then = 0 \/ r[i].then \in (i + 1)..n)
        BY <3>1 DEF Ahead
      <4>2. r[i].then # 0 => h[r[i].then] = f[r[i].then]
        BY <3>1, <4>1
      <4>3. From(h, r, i) = From(f, r, i)
        <5> HIDE DEF h
        <5> QED
          BY <4>2 DEF From
      <4>4. CASE i = m
        BY <4>3, <4>4
      <4>5. CASE i # m
        <5>1. i \in (m + 1)..n
          BY <3>1, <4>5
        <5>2. f[i] = From(f, r, i)
          BY <3>3, <5>1, Zenon
        <5> QED
          BY <4>3, <4>5, <5>2
      <4> QED
        BY <4>4, <4>5
    <3>5. DOMAIN h = m..n /\ h = [i \in DOMAIN h |-> h[i]]
      OBVIOUS
    <3> HIDE DEF h
    <3>6. Is(h, m)
      BY <3>4, <3>5
    <3> HIDE DEF Is
    <3> QED
      BY <2>3, <2>4, <3>6
  <2> QED
    BY <2>5, <2>6
<1>2. n \in 0..n /\ n + 1 - n = 1
  OBVIOUS
<1>3. \E f : Is(f, 1)
  BY <1>1, <1>2
<1>4. DOMAIN r = 1..n
  BY DEF Ahead
<1> QED
  BY <1>3, <1>4 DEF Scans

LEMMA ScannedFrom ==
  ASSUME NEW r, NEW V, NEW n \in Nat, Ahead(r, V, n), NEW i \in 1..n
  PROVE  Scanned(r, i) =
           IF r[i].then = 0 THEN r[i]
           ELSE [out |-> r[i].out \o Scanned(r, r[i].then).out, then |-> 0,
                 ok |-> Scanned(r, r[i].then).ok, next |-> Scanned(r, r[i].then).next]
<1> DEFINE f == CHOOSE g : Scans(g, r)
<1>1. \A k : Scanned(r, k) = f[k]
  BY Zenon DEF Scanned, Scans, From
<1>2. Scans(f, r)
  <2>1. \E g : Scans(g, r)
    BY ScansExist, Zenon
  <2> QED
    BY <2>1, Zenon
<1> HIDE DEF f
<1>3. i \in DOMAIN r
  BY DEF Ahead
<1>4. f[i] = From(f, r, i)
  BY <1>2, <1>3, Zenon DEF Scans
<1> QED
  BY <1>1, <1>4, Zenon DEF From

LEMMA ScannedEnds ==
  ASSUME NEW r, NEW V, NEW n \in Nat, Ahead(r, V, n), NEW i \in 1..n
  PROVE  Scanned(r, i) \in Ended(V)
<1> DEFINE T == {d \in 0..(n - 1) : Scanned(r, n - d) \notin Ended(V)}
<1>1. T = {}
  <2>1. SUFFICES ASSUME T # {}
                 PROVE  FALSE
    OBVIOUS
  <2>2. PICK d \in T : \A k \in T : d <= k
    <3>1. T \in SUBSET Nat
      OBVIOUS
    <3> HIDE DEF T
    <3> QED
      BY <2>1, <3>1, Least
  <2>3. d \in 0..(n - 1) /\ Scanned(r, n - d) \notin Ended(V)
    OBVIOUS
  <2>4. PICK m \in 1..n : m = n - d
    BY <2>3
  <2>5. r[m] \in [out : Seq(V), then : 0..n, ok : BOOLEAN, next : Nat]
        /\ (r[m].then = 0 \/ r[m].then > m)
    BY DEF Ahead
  <2>6. CASE r[m].then = 0
    <3>1. Scanned(r, m) = r[m]
      BY <2>6, ScannedFrom
    <3>2. r[m] \in Ended(V)
      BY <2>5, <2>6 DEF Ended
    <3> QED
      BY <2>3, <2>4, <3>1, <3>2
  <2>7. CASE r[m].then # 0
    <3>1. PICK a \in 1..n : a = r[m].then /\ a > m
      BY <2>5, <2>7
    <3>2. n - a \in 0..(n - 1) /\ ~(d <= n - a) /\ n - (n - a) = a
      BY <2>3, <2>4, <3>1
    <3>3. n - a \notin T
      BY <2>2, <3>2, Zenon
    <3>4. Scanned(r, a) \in Ended(V)
      BY <3>2, <3>3
    <3>5. Scanned(r, m) = [out |-> r[m].out \o Scanned(r, a).out, then |-> 0,
                           ok |-> Scanned(r, a).ok, next |-> Scanned(r, a).next]
      BY <2>7, <3>1, ScannedFrom
    <3>6. r[m].out \o Scanned(r, a).out \in Seq(V)
      BY <2>5, <3>4, ConcatProperties DEF Ended
    <3>7. Scanned(r, m) \in Ended(V)
      BY <3>4, <3>5, <3>6 DEF Ended
    <3> QED
      BY <2>3, <2>4, <3>7
  <2> QED
    BY <2>6, <2>7
<1>2. n - i \in 0..(n - 1) /\ n - (n - i) = i
  OBVIOUS
<1> QED
  BY <1>1, <1>2

\* Rounds at the positions p that put out c, one byte each.
Puts(r, c, p, n) ==
  /\ p \in [1..(Len(c) + 1) -> 1..n]
  /\ \A k \in 1..Len(c) : r[p[k]].out = <<c[k]>> /\ r[p[k]].then = p[k + 1]

LEMMA ScannedOver ==
  ASSUME NEW r, NEW V, NEW n \in Nat, Ahead(r, V, n), NEW c \in Seq(V), NEW p,
         Puts(r, c, p, n)
  PROVE  /\ Scanned(r, p[1]).out = c \o Scanned(r, p[Len(c) + 1]).out
         /\ Scanned(r, p[1]).ok = Scanned(r, p[Len(c) + 1]).ok
         /\ Scanned(r, p[1]).next = Scanned(r, p[Len(c) + 1]).next
<1>1. PICK m \in Nat : m = Len(c)
  BY LenProperties
<1> DEFINE S(k) == Scanned(r, p[k])
           Done(k) == /\ S(1).out = SubSeq(c, 1, k) \o S(k + 1).out
                      /\ S(1).ok = S(k + 1).ok
                      /\ S(1).next = S(k + 1).next
           T == {k \in 0..m : ~Done(k)}
<1>2. ASSUME NEW k \in 1..(m + 1)
      PROVE  p[k] \in 1..n /\ S(k) \in Ended(V)
  <2>1. p[k] \in 1..n
    BY <1>1 DEF Puts
  <2> QED
    BY <2>1, ScannedEnds
<1>3. ASSUME NEW k \in 1..m
      PROVE  /\ S(k).out = <<c[k]>> \o S(k + 1).out
             /\ S(k).ok = S(k + 1).ok /\ S(k).next = S(k + 1).next
             /\ c[k] \in V /\ <<c[k]>> \in Seq(V)
  <2>1. p[k] \in 1..n /\ p[k + 1] \in 1..n
    <3>1. k \in 1..(m + 1) /\ k + 1 \in 1..(m + 1)
      BY <1>1
    <3> QED
      BY <1>2, <3>1, Zenon
  <2>2. r[p[k]].then = p[k + 1] /\ r[p[k]].out = <<c[k]>>
    BY <1>1 DEF Puts
  <2>5. r[p[k]].then # 0
    BY <2>1, <2>2
  <2>3. S(k) = [out |-> <<c[k]>> \o S(k + 1).out, then |-> 0,
                ok |-> S(k + 1).ok, next |-> S(k + 1).next]
    BY <2>1, <2>2, <2>5, ScannedFrom
  <2>4. c[k] \in V
    BY <1>1, ElementOfSeq
  <2> HIDE DEF S
  <2> QED
    BY <2>3, <2>4
<1> HIDE DEF S
<1>4. T = {}
  <2>1. SUFFICES ASSUME T # {}
                 PROVE  FALSE
    OBVIOUS
  <2>2. PICK k \in T : \A l \in T : k <= l
    <3>1. T \in SUBSET Nat
      OBVIOUS
    <3> HIDE DEF T
    <3> QED
      BY <2>1, <3>1, Least
  <2>3. k \in 0..m /\ ~Done(k)
    OBVIOUS
  <2>4. CASE k = 0
    <3>1. S(1).out \in Seq(V)
      BY <1>2 DEF Ended
    <3>2. SubSeq(c, 1, 0) \o S(1).out = S(1).out
      BY <3>1, SubSeqEmpty, ConcatEmptySeq
    <3> QED
      BY <2>3, <2>4, <3>2
  <2>5. CASE k # 0
    <3>1. PICK h \in 0..m : h = k - 1 /\ ~(k <= h) /\ h + 1 = k /\ k \in 1..m
      BY <2>3, <2>5
    <3>2. h \notin T
      BY <2>2, <3>1, Zenon
    <3>3. S(1).out = SubSeq(c, 1, h) \o S(k).out /\ S(1).ok = S(k).ok /\ S(1).next = S(k).next
      BY <3>1, <3>2
    <3>4. /\ S(k).out = <<c[k]>> \o S(k + 1).out
          /\ S(k).ok = S(k + 1).ok /\ S(k).next = S(k + 1).next
          /\ c[k] \in V /\ <<c[k]>> \in Seq(V)
      BY <1>3, <3>1
    <3>5. SubSeq(c, 1, k) = SubSeq(c, 1, h) \o <<c[k]>>
      <4>1. 1 \in 1..Len(c) /\ k \in 1..Len(c)
        BY <1>1, <3>1
      <4> QED
        BY <3>1, <4>1, SubSeqRecursiveSecond
    <3>6. PICK x \in Seq(V), y \in Seq(V), z \in Seq(V) :
            x = SubSeq(c, 1, h) /\ y = <<c[k]>> /\ z = S(k + 1).out
      <4>1. 1 \in 1..(Len(c) + 1) /\ h \in (1 - 1)..Len(c)
        BY <1>1, <3>1
      <4>2. SubSeq(c, 1, h) \in Seq(V)
        BY <4>1, Parts
      <4>3. k + 1 \in 1..(m + 1)
        BY <3>1
      <4>4. S(k + 1).out \in Seq(V)
        BY <1>2, <4>3 DEF Ended
      <4> QED
        BY <3>4, <4>2, <4>4
    <3>7. (x \o y) \o z = x \o (y \o z)
      BY ConcatAssociative, SMTT(40)
    <3>8. S(1).out = SubSeq(c, 1, k) \o S(k + 1).out
      BY <3>3, <3>4, <3>5, <3>6, <3>7, Zenon
    <3> QED
      BY <2>3, <3>3, <3>4, <3>8
  <2> QED
    BY <2>4, <2>5
<1>5. Done(m)
  <2>1. m \in 0..m
    OBVIOUS
  <2> QED
    BY <1>4, <2>1
<1>6. SubSeq(c, 1, m) = c
  BY <1>1, SubSeqFull
<1> QED
  BY <1>1, <1>5, <1>6 DEF S

LEMMA ScannedBytes ==
  ASSUME NEW r, NEW n \in Nat, Ahead(r, 0..255, n), NEW c \in Seq(0..255), NEW p,
         Puts(r, c, p, n)
  PROVE  /\ Scanned(r, p[1]).out = c \o Scanned(r, p[Len(c) + 1]).out
         /\ Scanned(r, p[1]).ok = Scanned(r, p[Len(c) + 1]).ok
         /\ Scanned(r, p[1]).next = Scanned(r, p[Len(c) + 1]).next
<1> DEFINE V == 0..255
<1>1. Ahead(r, V, n) /\ c \in Seq(V)
  OBVIOUS
<1> HIDE DEF V
<1> QED
  BY <1>1, ScannedOver

-----------------------------------------------------------------------------
(***************************************************************************)
(* A text written in pieces, one for each byte, and the loop that reads it.*)
(***************************************************************************)
\* At each piece of what is written from position a + 1 on there is a round
\* that puts out the byte and goes on behind the piece.
Reads(r, c, ps, a) ==
  \A k \in 1..Len(c), o \in Nat :
    /\ o + Len(ps[k]) <= Len(FlattenSeq(ps))
    /\ \A j \in 1..Len(ps[k]) : FlattenSeq(ps)[o + j] = ps[k][j]
    => /\ r[a + o + 1].out = <<c[k]>>
       /\ r[a + o + 1].then = a + (o + Len(ps[k])) + 1

LEMMA ScannedPieces ==
  ASSUME NEW r, NEW n \in Nat, Ahead(r, 0..255, n), NEW c \in Seq(0..255),
         NEW ps \in Seq(Seq(1..255)), Len(ps) = Len(c),
         NEW a \in Nat, a + Len(FlattenSeq(ps)) < n, Reads(r, c, ps, a)
  PROVE  LET m == Len(FlattenSeq(ps))
         IN  /\ Scanned(r, a + 1).out = c \o Scanned(r, a + m + 1).out
             /\ Scanned(r, a + 1).ok = Scanned(r, a + m + 1).ok
             /\ Scanned(r, a + 1).next = Scanned(r, a + m + 1).next
<1>1. PICK e \in Seq(1..255), m \in Nat : e = FlattenSeq(ps) /\ m = Len(e) /\ a + m < n
  <2>1. FlattenSeq(ps) \in Seq(1..255)
    BY FlattenHolds
  <2>2. Len(FlattenSeq(ps)) \in Nat
    BY <2>1, LenProperties
  <2> QED
    BY <2>1, <2>2, Zenon
<1>2. PICK l \in Nat : l = Len(ps) /\ l = Len(c)
  BY LenProperties
<1>3. PICK p \in [1..(l + 1) -> Nat \ {0}] :
           /\ p[1] = 1
           /\ \A k \in 1..l :
                /\ p[k + 1] = p[k] + Len(ps[k])
                /\ \A j \in 1..Len(ps[k]) : e[p[k] + (j - 1)] = ps[k][j]
           /\ p[l + 1] = m + 1
  <2>1. \E p \in [1..(Len(ps) + 1) -> Nat \ {0}] :
             /\ p[1] = 1
             /\ \A k \in 1..Len(ps) :
                  /\ p[k + 1] = p[k] + Len(ps[k])
                  /\ \A j \in 1..Len(ps[k]) : FlattenSeq(ps)[p[k] + (j - 1)] = ps[k][j]
             /\ p[Len(ps) + 1] = Len(FlattenSeq(ps)) + 1
    BY FlattenHolds
  <2> QED
    BY <1>1, <1>2, <2>1, Zenon
<1>4. \A k \in 1..l : Len(ps[k]) \in Nat
  BY <1>2, ElementOfSeq, LenProperties
<1>5. \A k \in 1..(l + 1) : p[k] <= m + 1
  <2> DEFINE T == {d \in 0..l : ~(p[l + 1 - d] <= m + 1)}
  <2>1. T = {}
    <3>1. SUFFICES ASSUME T # {}
                   PROVE  FALSE
      OBVIOUS
    <3>2. PICK d \in T : \A k \in T : d <= k
      <4>1. T \in SUBSET Nat
        OBVIOUS
      <4> HIDE DEF T
      <4> QED
        BY <3>1, <4>1, Least
    <3>3. CASE d = 0
      BY <1>3, <3>3
    <3>4. CASE d # 0
      <4>1. d - 1 \in 0..l /\ ~(d <= d - 1) /\ l + 1 - (d - 1) = (l + 1 - d) + 1
            /\ l + 1 - d \in 1..l
        BY <3>4
      <4>2. d - 1 \notin T
        BY <3>2, <4>1, Zenon
      <4>3. PICK k \in 1..l : k = l + 1 - d
        BY <4>1
      <4>4. p[k + 1] <= m + 1
        BY <4>1, <4>2, <4>3
      <4>5. p[k + 1] = p[k] + Len(ps[k]) /\ Len(ps[k]) \in Nat /\ p[k] \in Nat
        BY <1>3, <1>4
      <4> QED
        BY <4>3, <4>4, <4>5
    <3> QED
      BY <3>3, <3>4
  <2>2. ASSUME NEW k \in 1..(l + 1)
        PROVE  p[k] <= m + 1
    <3>1. l + 1 - k \in 0..l /\ l + 1 - (l + 1 - k) = k
      OBVIOUS
    <3> QED
      BY <2>1, <3>1
  <2> QED
    BY <2>2
<1> DEFINE g == [k \in 1..(l + 1) |-> a + p[k]]
<1>6. g \in [1..(Len(c) + 1) -> 1..n]
  <2>1. \A k \in 1..(l + 1) : a + p[k] \in 1..n
    BY <1>1, <1>3, <1>5
  <2> QED
    BY <1>2, <2>1
<1>7. ASSUME NEW k \in 1..l
      PROVE  r[g[k]].out = <<c[k]>> /\ r[g[k]].then = g[k + 1]
  <2>1. PICK o \in Nat, w \in Nat : p[k] = o + 1 /\ w = Len(ps[k]) /\ p[k + 1] = (o + w) + 1
    <3>1. PICK b \in Nat \ {0}, w \in Nat : b = p[k] /\ w = Len(ps[k])
      <4>1. p[k] \in Nat \ {0}
        BY <1>3
      <4> QED
        BY <1>4, <4>1
    <3>2. p[k + 1] = b + w
      BY <1>3, <3>1
    <3>3. PICK o \in Nat : b = o + 1
      <4>1. b - 1 \in Nat /\ b = (b - 1) + 1
        OBVIOUS
      <4> QED
        BY <4>1, Zenon
    <3>4. b + w = (o + w) + 1
      BY <3>3
    <3> QED
      BY <3>1, <3>2, <3>3, <3>4, Zenon
  <2>2. o + w <= m
    <3>1. k + 1 \in 1..(l + 1)
      OBVIOUS
    <3>2. p[k + 1] <= m + 1
      BY <1>5, <3>1
    <3>3. (o + w) + 1 <= m + 1
      BY <2>1, <3>2, Zenon
    <3> QED
      BY <3>3
  <2>3. ASSUME NEW j \in 1..w
        PROVE  e[o + j] = ps[k][j]
    <3>1. p[k] + (j - 1) = o + j /\ j \in 1..Len(ps[k])
      <4>1. (o + 1) + (j - 1) = o + j
        OBVIOUS
      <4> QED
        BY <2>1, <4>1, Zenon
    <3>2. e[p[k] + (j - 1)] = ps[k][j]
      BY <1>3, <3>1, Zenon
    <3> QED
      BY <3>1, <3>2, Zenon
  <2>4. r[a + o + 1].out = <<c[k]>> /\ r[a + o + 1].then = a + (o + w) + 1
    <3>1. k \in 1..Len(c)
      BY <1>2
    <3>2. o + Len(ps[k]) <= Len(FlattenSeq(ps))
      BY <1>1, <2>1, <2>2
    <3>3. \A j \in 1..Len(ps[k]) : FlattenSeq(ps)[o + j] = ps[k][j]
      BY <1>1, <2>1, <2>3, Zenon
    <3>4. /\ r[a + o + 1].out = <<c[k]>>
          /\ r[a + o + 1].then = a + (o + Len(ps[k])) + 1
      BY <3>1, <3>2, <3>3, Zenon DEF Reads
    <3> QED
      BY <2>1, <3>4, Zenon
  <2>5. g[k] = a + o + 1
    <3>1. k \in 1..(l + 1) /\ p[k] = o + 1
      BY <1>3, <2>1
    <3> QED
      BY <3>1
  <2>6. g[k + 1] = a + (o + w) + 1
    <3>1. k + 1 \in 1..(l + 1)
      OBVIOUS
    <3>2. g[k + 1] = a + p[k + 1]
      BY <3>1
    <3>3. a + ((o + w) + 1) = a + (o + w) + 1
      OBVIOUS
    <3> QED
      BY <2>1, <3>2, <3>3, Zenon
  <2> QED
    BY <2>4, <2>5, <2>6, Zenon
<1>8. g[1] = a + 1 /\ g[l + 1] = a + m + 1
  BY <1>3
<1> HIDE DEF g
<1>9. Puts(r, c, g, n)
  BY <1>2, <1>6, <1>7, Zenon DEF Puts
<1>10. /\ Scanned(r, g[1]).out = c \o Scanned(r, g[Len(c) + 1]).out
       /\ Scanned(r, g[1]).ok = Scanned(r, g[Len(c) + 1]).ok
       /\ Scanned(r, g[1]).next = Scanned(r, g[Len(c) + 1]).next
  BY <1>9, ScannedBytes
<1> QED
  BY <1>1, <1>2, <1>8, <1>10, Zenon

-----------------------------------------------------------------------------
(***************************************************************************)
(* A name quoted as in C.                                                  *)
(***************************************************************************)
Graphic == 32..126

LEMMA GraphicTexts ==
  ASSUME NEW t \in Seq(Graphic)
  PROVE  t \in Seq(1..255)
<1> DEFINE V == 1..255
<1>1. Graphic \subseteq V
  BY DEF Graphic
<1> HIDE DEF V
<1>2. t \in Seq(V)
  BY <1>1, SeqMonotonic
<1> QED
  BY <1>2 DEF V

LEMMA PairOf ==
  ASSUME NEW a \in Int, NEW b \in Int
  PROVE  <<a>> \o <<b>> = <<a, b>>
<1>1. <<a>> \in Seq(Int) /\ <<b>> \in Seq(Int) /\ Len(<<a>>) = 1 /\ Len(<<b>>) = 1
  OBVIOUS
<1>2. /\ <<a>> \o <<b>> \in Seq(Int) /\ Len(<<a>> \o <<b>>) = Len(<<a>>) + Len(<<b>>)
      /\ \A i \in 1..Len(<<a>>) + Len(<<b>>) :
           (<<a>> \o <<b>>)[i] = IF i <= Len(<<a>>) THEN <<a>>[i] ELSE <<b>>[i - Len(<<a>>)]
  BY <1>1, ConcatProperties, Zenon
<1>3. Len(<<a>> \o <<b>>) = 2 /\ (<<a>> \o <<b>>)[1] = a /\ (<<a>> \o <<b>>)[2] = b
  BY <1>1, <1>2
<1>4. <<a, b>> \in Seq(Int) /\ Len(<<a, b>>) = 2 /\ <<a, b>>[1] = a /\ <<a, b>>[2] = b
  OBVIOUS
<1>5. \A i \in 1..2 : (<<a>> \o <<b>>)[i] = <<a, b>>[i]
  <2>1. \A i \in 1..2 : i = 1 \/ i = 2
    OBVIOUS
  <2> QED
    BY <1>3, <1>4, <2>1
<1> QED
  BY <1>2, <1>3, <1>4, <1>5, SeqEqual

\* A byte is written as it is, as a letter behind a backslash, or in octal.
LEMMA EscapedIs ==
  ASSUME NEW c \in 1..255
  PROVE  \/ /\ ~MustQuote(c) /\ Escaped(c) = <<c>>
            /\ c \in 32..126 /\ c # DoubleQuote /\ c # Backslash
         \/ /\ MustQuote(c) /\ SqLookup(c) \in {97, 98, 102, 110, 114, 116, 118, 92, 34}
            /\ Escaped(c) = <<92, SqLookup(c)>>
            /\ \/ c \in 7..13 /\ SqLookup(c) = LetterOf[c]
               \/ c \in {92, 34} /\ SqLookup(c) = c
         \/ MustQuote(c) /\ Escaped(c) = <<92>> \o Octal(c)
<1> USE DEF DoubleQuote, Backslash
<1>1. DOMAIN LetterOf = 7..13
  BY DEF LetterOf
<1>2. CASE c \in 7..13
  <2>1. LetterOf[c] \in {97, 98, 102, 110, 114, 116, 118}
    BY <1>2 DEF LetterOf
  <2>2. SqLookup(c) = LetterOf[c]
    BY <1>1, <1>2 DEF SqLookup
  <2>3. MustQuote(c) /\ SqLookup(c) >= 32
    BY <2>1, <2>2 DEF MustQuote
  <2>4. Escaped(c) = <<92, SqLookup(c)>>
    <3>1. Escaped(c) = <<92>> \o <<SqLookup(c)>>
      BY <2>3 DEF Escaped
    <3>2. SqLookup(c) \in Int
      BY <2>1, <2>2
    <3> QED
      BY <3>1, <3>2, PairOf
  <2> QED
    BY <1>2, <2>1, <2>2, <2>3, <2>4
<1>3. CASE c \in {92, 34}
  <2>1. SqLookup(c) = c
    BY <1>1, <1>3 DEF SqLookup
  <2>2. MustQuote(c) /\ SqLookup(c) >= 32
    BY <1>3, <2>1 DEF MustQuote
  <2>3. Escaped(c) = <<92, SqLookup(c)>>
    <3>1. Escaped(c) = <<92>> \o <<SqLookup(c)>>
      BY <2>2 DEF Escaped
    <3> QED
      BY <2>1, <3>1, PairOf
  <2> QED
    BY <1>3, <2>1, <2>2, <2>3
<1>4. CASE c \notin 7..13 /\ c \notin {92, 34}
  <2>1. CASE c \in (0..31) \cup {127}
    <3>1. SqLookup(c) = 1
      BY <1>1, <1>4, <2>1 DEF SqLookup
    <3> QED
      BY <3>1 DEF MustQuote, Escaped
  <2>2. CASE c >= 128
    <3>1. SqLookup(c) = 0
      BY <1>1, <1>4, <2>2 DEF SqLookup
    <3> QED
      BY <3>1 DEF MustQuote, Escaped
  <2>3. CASE c \in 32..126
    <3>1. SqLookup(c) = -1
      BY <1>1, <1>4, <2>3 DEF SqLookup
    <3> QED
      BY <1>4, <2>3, <3>1 DEF MustQuote, Escaped
  <2>4. c \in (0..31) \cup {127} \/ c >= 128 \/ c \in 32..126
    OBVIOUS
  <2> QED
    BY <2>1, <2>2, <2>3, <2>4
<1> QED
  BY <1>2, <1>3, <1>4

\* The digits of a byte, and what is read from them.
LEMMA OctalIs ==
  ASSUME NEW c \in 1..255
  PROVE  \E x \in 48..51, y \in 48..55, z \in 48..55 :
           /\ Octal(c) = <<x, y, z>>
           /\ (x - 48) * 64 + (y - 48) * 8 + z - 48 = c
<1>1. PICK a \in Nat, b \in Nat : a = c \div 8 /\ b = c % 8
  <2>1. c \div 8 \in Nat /\ c % 8 \in Nat
    OBVIOUS
  <2> QED
    BY <2>1
<1>2. c = a * 8 + b /\ b \in 0..7 /\ a \in 0..31
  BY <1>1
<1>3. PICK d \in Nat, e \in Nat : d = a \div 8 /\ e = a % 8
  <2>1. a \div 8 \in Nat /\ a % 8 \in Nat
    OBVIOUS
  <2> QED
    BY <2>1
<1>4. a = d * 8 + e /\ e \in 0..7 /\ d \in 0..3
  BY <1>2, <1>3
<1>5. (c \div 64) % 4 = d
  <2>1. c = d * 64 + e * 8 + b
    BY <1>2, <1>4
  <2>2. c \div 64 = d
    BY <1>2, <1>4, <2>1
  <2>3. d % 4 = d
    BY <1>4
  <2> QED
    BY <2>2, <2>3
<1>6. Octal(c) = <<48 + d, 48 + e, 48 + b>>
  BY <1>1, <1>3, <1>5 DEF Octal
<1>7. ((48 + d) - 48) * 64 + ((48 + e) - 48) * 8 + (48 + b) - 48 = c
  BY <1>2, <1>4
<1>8. 48 + d \in 48..51 /\ 48 + e \in 48..55 /\ 48 + b \in 48..55
  BY <1>2, <1>4
<1> QED
  BY <1>6, <1>7, <1>8

LEMMA EscapedGraphic ==
  ASSUME NEW c \in 1..255
  PROVE  Escaped(c) \in Seq(Graphic)
<1>1. CASE ~MustQuote(c)
  <2>1. Escaped(c) = <<c>> /\ c \in 32..126
    BY <1>1, EscapedIs, ZenonT(60)
  <2> QED
    BY <2>1 DEF Graphic
<1>2. CASE Escaped(c) = <<92, SqLookup(c)>>
           /\ SqLookup(c) \in {97, 98, 102, 110, 114, 116, 118, 92, 34}
  <2>1. 92 \in Graphic /\ SqLookup(c) \in Graphic
    BY <1>2 DEF Graphic
  <2> QED
    BY <1>2, <2>1
<1>3. CASE Escaped(c) = <<92>> \o Octal(c)
  <2>1. PICK x \in 48..51 : \E y \in 48..55, z \in 48..55 : Octal(c) = <<x, y, z>>
    BY OctalIs
  <2>2. PICK y \in 48..55, z \in 48..55 : Octal(c) = <<x, y, z>>
    BY <2>1
  <2>3. <<92>> \in Seq(Graphic) /\ <<x, y, z>> \in Seq(Graphic)
    BY DEF Graphic
  <2> QED
    BY <1>3, <2>2, <2>3, ConcatProperties
<1> QED
  BY <1>1, <1>2, <1>3, EscapedIs

\* What a letter or a character behind a backslash stands for.
LEMMA UnescapeIs ==
  /\ DOMAIN UnescapeOf = {97, 98, 102, 110, 114, 116, 118, 92, 34}
  /\ \A c \in DOMAIN UnescapeOf : UnescapeOf[c] \in 1..255
  /\ \A b \in 7..13 : UnescapeOf[LetterOf[b]] = b
  /\ \A c \in {92, 34} : UnescapeOf[c] = c
<1>1. /\ DOMAIN LetterOf = 7..13
      /\ LetterOf[7] = 97 /\ LetterOf[8] = 98 /\ LetterOf[9] = 116 /\ LetterOf[10] = 110
      /\ LetterOf[11] = 118 /\ LetterOf[12] = 102 /\ LetterOf[13] = 114
  BY DEF LetterOf
<1>2. DOMAIN UnescapeOf = {97, 98, 102, 110, 114, 116, 118, 92, 34}
  BY DEF UnescapeOf, Backslash, DoubleQuote
<1>3. \A c \in DOMAIN UnescapeOf :
        UnescapeOf[c] = IF \E b \in DOMAIN LetterOf : LetterOf[b] = c
                        THEN CHOOSE b \in DOMAIN LetterOf : LetterOf[b] = c ELSE c
  BY DEF UnescapeOf
<1>4. ASSUME NEW b \in 7..13
      PROVE  LetterOf[b] \in DOMAIN UnescapeOf /\ LetterOf[b] \notin {92, 34}
             /\ \A a \in 7..13 : LetterOf[a] = LetterOf[b] => a = b
  <2>1. \A a \in 7..13 : a = 7 \/ a = 8 \/ a = 9 \/ a = 10 \/ a = 11 \/ a = 12 \/ a = 13
    OBVIOUS
  <2> QED
    BY <1>1, <1>2, <2>1
<1>5. ASSUME NEW b \in 7..13
      PROVE  UnescapeOf[LetterOf[b]] = b
  <2>1. \E a \in DOMAIN LetterOf : LetterOf[a] = LetterOf[b]
    BY <1>1
  <2>2. (CHOOSE a \in DOMAIN LetterOf : LetterOf[a] = LetterOf[b]) = b
    BY <1>1, <1>4, <2>1
  <2> QED
    BY <1>3, <1>4, <2>1, <2>2
<1>6. ASSUME NEW c \in {92, 34}
      PROVE  UnescapeOf[c] = c
  <2>1. ~ \E b \in DOMAIN LetterOf : LetterOf[b] = c
    BY <1>1, <1>4
  <2> QED
    BY <1>2, <1>3, <2>1
<1>7. ASSUME NEW c \in DOMAIN UnescapeOf
      PROVE  UnescapeOf[c] \in 1..255
  <2>1. CASE \E b \in DOMAIN LetterOf : LetterOf[b] = c
    <3>1. PICK b \in 7..13 : LetterOf[b] = c
      BY <1>1, <2>1
    <3>2. UnescapeOf[c] = b
      BY <1>5, <3>1
    <3> QED
      BY <3>2
  <2>2. CASE ~ \E b \in DOMAIN LetterOf : LetterOf[b] = c
    <3>1. UnescapeOf[c] = c
      BY <1>3, <2>2
    <3>2. c \in 1..255
      BY <1>2
    <3> QED
      BY <3>1, <3>2
  <2> QED
    BY <2>1, <2>2
<1> QED
  BY <1>2, <1>5, <1>6, <1>7

LEMMA AtIs ==
  ASSUME NEW q \in Seq(1..255), NEW i \in Nat \ {0}, Nul = 0
  PROVE  /\ At(q, i) \in 0..255
         /\ At(q, i) # 0 <=> i \in 1..Len(q)
         /\ i \in 1..Len(q) => At(q, i) = q[i] /\ q[i] \in 1..255
<1>1. PICK n \in Nat : n = Len(q)
  BY LenProperties
<1>2. CASE i <= n
  <2>1. i \in 1..Len(q)
    BY <1>1, <1>2
  <2>2. PICK x \in 1..255 : x = q[i]
    BY <2>1, ElementOfSeq
  <2>3. At(q, i) = q[i]
    BY <1>1, <1>2 DEF At
  <2>4. At(q, i) = x
    BY <2>2, <2>3
  <2>5. At(q, i) \in 0..255 /\ At(q, i) # 0
    BY <2>4
  <2>6. At(q, i) = q[i] /\ q[i] \in 1..255
    BY <2>2, <2>3
  <2> QED
    BY <2>1, <2>5, <2>6, Zenon
<1>3. CASE ~(i <= n)
  BY <1>1, <1>3 DEF At
<1> QED
  BY <1>2, <1>3

\* What a round of unquote_c_style does, case by case.
LEMMA RoundOfByte ==
  ASSUME NEW q, NEW i, Nul = 0
  PROVE  /\ At(q, i) = 34 => UnquoteRound(q, i) = LastRound(TRUE, 0)
         /\ At(q, i) = 0 => UnquoteRound(q, i) = LastRound(FALSE, 0)
         /\ At(q, i) \notin {0, 34, 92} => UnquoteRound(q, i) = Round(q[i], i + 1)
         /\ At(q, i) = 92 => UnquoteRound(q, i) = UnescapeRound(q, i)
<1> USE DEF DoubleQuote, Backslash
<1>1. At(q, i) = 34 => UnquoteRound(q, i) = LastRound(TRUE, 0)
  BY DEF UnquoteRound
<1>2. At(q, i) = 0 => UnquoteRound(q, i) = LastRound(FALSE, 0)
  BY DEF UnquoteRound
<1>3. At(q, i) \notin {0, 34, 92} => UnquoteRound(q, i) = Round(q[i], i + 1)
  BY DEF UnquoteRound
<1>4. At(q, i) = 92 => UnquoteRound(q, i) = UnescapeRound(q, i)
  BY DEF UnquoteRound
<1> QED
  BY <1>1, <1>2, <1>3, <1>4, Zenon

LEMMA RoundOfLetter ==
  ASSUME NEW q, NEW i, NEW c \in DOMAIN UnescapeOf, At(q, i + 1) = c
  PROVE  UnescapeRound(q, i) = Round(UnescapeOf[c], i + 2)
<1>1. At(q, i + 1) \notin 48..51
  <2>1. c \in {97, 98, 102, 110, 114, 116, 118, 92, 34}
    BY UnescapeIs
  <2>2. c \notin 48..51
    BY <2>1
  <2> QED
    BY <2>2
<1> QED
  BY <1>1 DEF UnescapeRound

LEMMA RoundOfOctal ==
  ASSUME NEW q, NEW i,
         At(q, i + 1) \in 48..51, At(q, i + 2) \in 48..55, At(q, i + 3) \in 48..55
  PROVE  UnescapeRound(q, i)
           = Round((q[i + 1] - 48) * 64 + (q[i + 2] - 48) * 8 + q[i + 3] - 48, i + 4)
<1>1. At(q, i + 1) \notin DOMAIN UnescapeOf
  <2>1. DOMAIN UnescapeOf = {97, 98, 102, 110, 114, 116, 118, 92, 34}
    BY UnescapeIs
  <2> QED
    BY <2>1
<1> QED
  BY <1>1 DEF UnescapeRound

LEMMA RoundOfWrong ==
  ASSUME NEW q, NEW i, At(q, i + 1) \notin DOMAIN UnescapeOf,
         ~ (/\ At(q, i + 1) \in 48..51
            /\ At(q, i + 2) \in 48..55
            /\ At(q, i + 3) \in 48..55)
  PROVE  UnescapeRound(q, i) = LastRound(FALSE, 0)
BY DEF UnescapeRound

\* The loop of unquote_c_style always gets on and stops at the terminator.
LEMMA UnquoteAhead ==
  ASSUME NEW q \in Seq(1..255), Nul = 0
  PROVE  Ahead([i \in 1..(Len(q) + 1) |-> UnquoteRound(q, i)], 0..255, Len(q) + 1)
<1>1. PICK n \in Nat : n = Len(q)
  BY LenProperties
<1> DEFINE R == [out : Seq(0..255), then : 0..(n + 1), ok : BOOLEAN, next : Nat]
<1>2. ASSUME NEW ok \in BOOLEAN
      PROVE  LastRound(ok, 0) \in R /\ LastRound(ok, 0).then = 0
  <2>1. <<>> \in Seq(0..255)
    BY EmptySeq
  <2> QED
    BY <2>1 DEF LastRound
<1>3. ASSUME NEW c \in 0..255, NEW t \in 1..(n + 1)
      PROVE  Round(c, t) \in R /\ Round(c, t).then = t
  <2>1. <<c>> \in Seq(0..255)
    OBVIOUS
  <2> QED
    BY <2>1 DEF Round
<1> HIDE DEF R
<1> USE DEF DoubleQuote, Backslash
<1>4. ASSUME NEW i \in 1..(n + 1)
      PROVE  UnquoteRound(q, i) \in R
             /\ (UnquoteRound(q, i).then = 0 \/ UnquoteRound(q, i).then > i)
  <2> DEFINE u == UnquoteRound(q, i)
             Octals == /\ At(q, i + 1) \in 48..51
                       /\ At(q, i + 2) \in 48..55
                       /\ At(q, i + 3) \in 48..55
  <2>1. CASE At(q, i) \in {DoubleQuote, Nul}
    <3>1. At(q, i) = DoubleQuote \/ (At(q, i) = Nul /\ At(q, i) # DoubleQuote)
      BY <2>1
    <3>2. At(q, i) = DoubleQuote => u = LastRound(TRUE, 0)
      BY RoundOfByte
    <3>3. At(q, i) = Nul /\ At(q, i) # DoubleQuote => u = LastRound(FALSE, 0)
      BY RoundOfByte
    <3> QED
      BY <1>2, <3>1, <3>2, <3>3
  <2>2. CASE At(q, i) \notin {DoubleQuote, Nul, Backslash}
    <3>1. u = Round(q[i], i + 1)
      BY <2>2, RoundOfByte
    <3>2. i \in 1..Len(q) /\ q[i] \in 1..255
      BY <2>2, AtIs
    <3>3. i + 1 \in 1..(n + 1) /\ q[i] \in 0..255
      BY <1>1, <3>2
    <3>4. Round(q[i], i + 1) \in R /\ Round(q[i], i + 1).then = i + 1
      BY <1>3, <3>3
    <3> QED
      BY <3>1, <3>4
  <2>3. CASE At(q, i) = Backslash
    <3>1. At(q, i) # DoubleQuote /\ At(q, i) # Nul
      BY <2>3 DEF Backslash, DoubleQuote
    <3>2. CASE At(q, i + 1) \in DOMAIN UnescapeOf
      <4>1. u = Round(UnescapeOf[At(q, i + 1)], i + 2)
        <5>1. u = UnescapeRound(q, i)
          BY <2>3, RoundOfByte
        <5>2. UnescapeRound(q, i) = Round(UnescapeOf[At(q, i + 1)], i + 2)
          BY <3>2, RoundOfLetter
        <5> QED
          BY <5>1, <5>2, Zenon
      <4>2. At(q, i + 1) # 0
        <5>1. At(q, i + 1) \in {97, 98, 102, 110, 114, 116, 118, 92, 34}
          BY <3>2, UnescapeIs, Zenon
        <5> QED
          BY <5>1
      <4>3. i + 1 \in 1..n
        BY <1>1, <4>2, AtIs
      <4>4. i + 2 \in 1..(n + 1)
        BY <4>3
      <4>5. UnescapeOf[At(q, i + 1)] \in 0..255
        <5>1. UnescapeOf[At(q, i + 1)] \in 1..255
          BY <3>2, UnescapeIs, Zenon
        <5> QED
          BY <5>1
      <4> DEFINE e == UnescapeOf[At(q, i + 1)]
      <4> HIDE DEF e
      <4>6. Round(e, i + 2) \in R /\ Round(e, i + 2).then = i + 2
        BY <1>3, <4>4, <4>5 DEF e
      <4> QED
        BY <4>1, <4>6 DEF e
    <3>3. CASE At(q, i + 1) \notin DOMAIN UnescapeOf /\ Octals
      <4>1. i + 1 \in 1..n /\ i + 2 \in 1..n /\ i + 3 \in 1..n
        <5>1. At(q, i + 1) # 0 /\ At(q, i + 2) # 0 /\ At(q, i + 3) # 0
          BY <3>3
        <5> QED
          BY <1>1, <5>1, AtIs
      <4>2. At(q, i + 1) = q[i + 1] /\ At(q, i + 2) = q[i + 2] /\ At(q, i + 3) = q[i + 3]
        BY <1>1, <4>1, AtIs
      <4>3. PICK x \in 48..51, y \in 48..55, z \in 48..55 :
              /\ x = q[i + 1] /\ y = q[i + 2] /\ z = q[i + 3]
              /\ At(q, i + 1) = x /\ At(q, i + 2) = y /\ At(q, i + 3) = z
        BY <3>3, <4>2
      <4>4. (x - 48) * 64 + (y - 48) * 8 + z - 48 \in 0..255
        OBVIOUS
      <4>5. i + 4 \in 1..(n + 1)
        BY <4>1
      <4> DEFINE e == (x - 48) * 64 + (y - 48) * 8 + z - 48
      <4> HIDE DEF e
      <4>6. Round(e, i + 4) \in R /\ Round(e, i + 4).then = i + 4
        BY <1>3, <4>4, <4>5 DEF e
      <4>7. u = Round(e, i + 4)
        <5>1. u = UnescapeRound(q, i)
          BY <2>3, RoundOfByte
        <5>2. UnescapeRound(q, i) = Round(e, i + 4)
          <6>1. UnescapeRound(q, i) = Round((q[i + 1] - 48) * 64 + (q[i + 2] - 48) * 8
                                             + q[i + 3] - 48, i + 4)
            BY <4>3, RoundOfOctal
          <6> QED
            BY <4>3, <6>1, Zenon DEF e
        <5> QED
          BY <5>1, <5>2, Zenon
      <4> QED
        BY <4>6, <4>7
    <3>4. CASE At(q, i + 1) \notin DOMAIN UnescapeOf /\ ~Octals
      <4>1. u = LastRound(FALSE, 0)
        <5>1. u = UnescapeRound(q, i)
          BY <2>3, RoundOfByte
        <5>2. UnescapeRound(q, i) = LastRound(FALSE, 0)
          BY <3>4, RoundOfWrong
        <5> QED
          BY <5>1, <5>2, Zenon
      <4> QED
        BY <1>2, <4>1
    <3> QED
      BY <3>2, <3>3, <3>4
  <2> QED
    BY <2>1, <2>2, <2>3
<1> QED
  BY <1>1, <1>4 DEF Ahead, R

\* The rounds of unquote_c_style over an escaped byte.
LEMMA EscapedRound ==
  ASSUME NEW q \in Seq(1..255), Nul = 0, NEW c \in 1..255, NEW i \in Nat \ {0},
         \A j \in 1..Len(Escaped(c)) : At(q, i + (j - 1)) = Escaped(c)[j]
  PROVE  UnquoteRound(q, i) = Round(c, i + Len(Escaped(c)))
<1> USE DEF DoubleQuote, Backslash
<1>1. CASE ~MustQuote(c)
  <2>1. Escaped(c) = <<c>> /\ c \in 32..126 /\ c # 34 /\ c # 92
    <3>1. c # DoubleQuote /\ c # Backslash /\ Escaped(c) = <<c>> /\ c \in 32..126
      <4> HIDE DEF DoubleQuote, Backslash
      <4> QED
        BY <1>1, EscapedIs, ZenonT(60)
    <3> QED
      BY <3>1
  <2>2. Len(Escaped(c)) = 1 /\ Escaped(c)[1] = c
    BY <2>1
  <2>3. At(q, i) = c
    <3>1. 1 \in 1..Len(Escaped(c)) /\ i + (1 - 1) = i
      BY <2>2
    <3> QED
      BY <2>2, <3>1
  <2>4. i \in 1..Len(q) /\ q[i] = c
    BY <2>1, <2>3, AtIs
  <2>5. At(q, i) \notin {0, 34, 92}
    BY <2>1, <2>3
  <2> QED
    <3>1. UnquoteRound(q, i) = Round(q[i], i + 1)
      BY <2>5, RoundOfByte
    <3> QED
      BY <2>2, <2>4, <3>1, Zenon
<1>2. ASSUME Escaped(c) = <<92, SqLookup(c)>>,
             SqLookup(c) \in {97, 98, 102, 110, 114, 116, 118, 92, 34},
             \/ c \in 7..13 /\ SqLookup(c) = LetterOf[c]
             \/ c \in {92, 34} /\ SqLookup(c) = c
      PROVE  UnquoteRound(q, i) = Round(c, i + Len(Escaped(c)))
  <2>1. Len(Escaped(c)) = 2 /\ Escaped(c)[1] = 92 /\ Escaped(c)[2] = SqLookup(c)
    BY <1>2
  <2>2. At(q, i) = 92 /\ At(q, i + 1) = SqLookup(c)
    <3>1. 1 \in 1..Len(Escaped(c)) /\ i + (1 - 1) = i
          /\ 2 \in 1..Len(Escaped(c)) /\ i + (2 - 1) = i + 1
      BY <2>1
    <3> QED
      BY <2>1, <3>1
  <2>3. UnescapeOf[SqLookup(c)] = c /\ SqLookup(c) \in DOMAIN UnescapeOf
    BY <1>2, UnescapeIs, SMTT(40)
  <2>4. UnquoteRound(q, i) = Round(UnescapeOf[At(q, i + 1)], i + 2)
    <3>1. UnquoteRound(q, i) = UnescapeRound(q, i)
      BY <2>2, RoundOfByte
    <3>2. UnescapeRound(q, i) = Round(UnescapeOf[At(q, i + 1)], i + 2)
      BY <2>2, <2>3, RoundOfLetter
    <3> QED
      BY <3>1, <3>2, Zenon
  <2> QED
    BY <2>1, <2>2, <2>3, <2>4
<1>3. CASE Escaped(c) = <<92>> \o Octal(c)
  <2>1. PICK x \in 48..51 : \E y \in 48..55, z \in 48..55 :
               /\ Octal(c) = <<x, y, z>>
               /\ (x - 48) * 64 + (y - 48) * 8 + z - 48 = c
    BY OctalIs
  <2>2. PICK y \in 48..55, z \in 48..55 :
               /\ Octal(c) = <<x, y, z>>
               /\ (x - 48) * 64 + (y - 48) * 8 + z - 48 = c
    BY <2>1
  <2>3. /\ Len(Escaped(c)) = 4 /\ Escaped(c)[1] = 92 /\ Escaped(c)[2] = x
        /\ Escaped(c)[3] = y /\ Escaped(c)[4] = z
    <3>7. <<92>> \in Seq(Int) /\ <<x, y, z>> \in Seq(Int)
      OBVIOUS
    <3>1. PICK u \in Seq(Int), v \in Seq(Int) : u = <<92>> /\ v = <<x, y, z>>
      BY <3>7, Zenon
    <3>2. Len(u) = 1 /\ Len(v) = 3 /\ u[1] = 92 /\ v[1] = x /\ v[2] = y /\ v[3] = z
      BY <3>1
    <3>3. Escaped(c) = u \o v
      BY <1>3, <2>2, <3>1
    <3>4. /\ Len(u \o v) = Len(u) + Len(v)
          /\ \A j \in 1..Len(u) : (u \o v)[j] = u[j]
          /\ \A j \in 1..Len(v) : (u \o v)[Len(u) + j] = v[j]
      BY ConcatAt
    <3>5. Len(u \o v) = 4 /\ (u \o v)[1] = 92
      BY <3>2, <3>4
    <3>6. (u \o v)[1 + 1] = x /\ (u \o v)[1 + 2] = y /\ (u \o v)[1 + 3] = z
      BY <3>2, <3>4, SMTT(40)
    <3>8. 1 + 1 = 2 /\ 1 + 2 = 3 /\ 1 + 3 = 4
      OBVIOUS
    <3> QED
      BY <3>3, <3>5, <3>6, <3>8, Zenon
  <2>4. At(q, i) = 92 /\ At(q, i + 1) = x /\ At(q, i + 2) = y /\ At(q, i + 3) = z
    <3>1. 1 \in 1..Len(Escaped(c)) /\ i + (1 - 1) = i
          /\ 2 \in 1..Len(Escaped(c)) /\ i + (2 - 1) = i + 1
          /\ 3 \in 1..Len(Escaped(c)) /\ i + (3 - 1) = i + 2
          /\ 4 \in 1..Len(Escaped(c)) /\ i + (4 - 1) = i + 3
      BY <2>3
    <3> QED
      BY <2>3, <3>1
  <2>5. q[i + 1] = x /\ q[i + 2] = y /\ q[i + 3] = z
    <3>1. At(q, i + 1) # 0 /\ At(q, i + 2) # 0 /\ At(q, i + 3) # 0
      BY <2>4
    <3> QED
      BY <2>4, <3>1, AtIs
  <2>7. UnquoteRound(q, i) = Round((x - 48) * 64 + (y - 48) * 8 + z - 48, i + 4)
    <3>1. UnquoteRound(q, i) = UnescapeRound(q, i)
      BY <2>4, RoundOfByte
    <3>2. UnescapeRound(q, i) = Round((x - 48) * 64 + (y - 48) * 8 + z - 48, i + 4)
      <4>1. UnescapeRound(q, i) = Round((q[i + 1] - 48) * 64 + (q[i + 2] - 48) * 8
                                         + q[i + 3] - 48, i + 4)
        BY <2>4, RoundOfOctal
      <4> QED
        BY <2>5, <4>1, Zenon
    <3> QED
      BY <3>1, <3>2, Zenon
  <2> QED
    BY <2>2, <2>3, <2>7
<1> QED
  BY <1>1, <1>2, <1>3, EscapedIs

EscapedPieces(name) == [i \in DOMAIN name |-> Escaped(name[i])]

LEMMA PiecesAre ==
  ASSUME NEW name \in Seq(1..255)
  PROVE  /\ EscapedPieces(name) \in Seq(Seq(Graphic))
         /\ Len(EscapedPieces(name)) = Len(name)
         /\ \A k \in 1..Len(name) : /\ EscapedPieces(name)[k] = Escaped(name[k])
                                    /\ Len(EscapedPieces(name)[k]) \in Nat
<1> DEFINE ps == EscapedPieces(name)
<1>1. PICK l \in Nat : l = Len(name) /\ DOMAIN name = 1..l
  BY LenProperties
<1>2. \A k \in 1..l : name[k] \in 1..255
  BY <1>1, ElementOfSeq
<1>3. \A k \in 1..l : Escaped(name[k]) \in Seq(Graphic)
  BY <1>2, EscapedGraphic
<1>4. ps = [k \in 1..l |-> Escaped(name[k])]
  BY <1>1 DEF EscapedPieces
<1>5. ps \in [1..l -> Seq(Graphic)]
  BY <1>3, <1>4
<1>6. ps \in Seq(Seq(Graphic))
  BY <1>5, SeqDef
<1>7. Len(ps) = l
  BY <1>5, <1>6, LenProperties
<1> HIDE DEF ps
<1> QED
  BY <1>1, <1>3, <1>4, <1>6, <1>7, LenProperties DEF ps

\* A name without bytes to be escaped is written as it is.
LEMMA EscapedNameIs ==
  ASSUME NEW name \in Seq(1..255)
  PROVE  /\ EscapedName(name) \in Seq(Graphic)
         /\ ~NeedsQuotes(name) =>
              EscapedName(name) = name /\ \A i \in 1..Len(name) : name[i] # DoubleQuote
<1> DEFINE ps == EscapedPieces(name)
           e == EscapedName(name)
<1>1. PICK l \in Nat : l = Len(name) /\ DOMAIN name = 1..l
  BY LenProperties
<1>2. /\ ps \in Seq(Seq(Graphic)) /\ Len(ps) = l
      /\ \A k \in 1..l : ps[k] = Escaped(name[k])
  BY <1>1, PiecesAre
<1>3. e = FlattenSeq(ps)
  BY DEF EscapedName, EscapedPieces
<1> HIDE DEF ps, e
<1>4. /\ e \in Seq(Graphic)
      /\ \E p \in [1..(l + 1) -> Nat \ {0}] :
           /\ p[1] = 1
           /\ \A k \in 1..l :
                /\ p[k + 1] = p[k] + Len(ps[k])
                /\ \A j \in 1..Len(ps[k]) : e[p[k] + (j - 1)] = ps[k][j]
           /\ p[l + 1] = Len(e) + 1
  <2>1. /\ FlattenSeq(ps) \in Seq(Graphic)
        /\ \E p \in [1..(Len(ps) + 1) -> Nat \ {0}] :
             /\ p[1] = 1
             /\ \A k \in 1..Len(ps) :
                  /\ p[k + 1] = p[k] + Len(ps[k])
                  /\ \A j \in 1..Len(ps[k]) : FlattenSeq(ps)[p[k] + (j - 1)] = ps[k][j]
             /\ p[Len(ps) + 1] = Len(FlattenSeq(ps)) + 1
    BY <1>2, FlattenHolds
  <2> QED
    BY <1>2, <1>3, <2>1, Zenon
<1>5. ASSUME ~NeedsQuotes(name)
      PROVE  e = name /\ \A i \in 1..l : name[i] # DoubleQuote
  <2>1. \A k \in 1..l : name[k] \in 1..255
    BY <1>1, ElementOfSeq
  <2>2. ASSUME NEW k \in 1..l
        PROVE  Len(ps[k]) = 1 /\ ps[k][1] = name[k] /\ name[k] # DoubleQuote
    <3>1. ~MustQuote(name[k])
      BY <1>1, <1>5 DEF NeedsQuotes
    <3>2. Escaped(name[k]) = <<name[k]>> /\ name[k] # DoubleQuote
      BY <2>1, <3>1, EscapedIs, Zenon
    <3> QED
      BY <1>2, <3>2
  <2>3. PICK p \in [1..(l + 1) -> Nat \ {0}] :
           /\ p[1] = 1
           /\ \A k \in 1..l :
                /\ p[k + 1] = p[k] + Len(ps[k])
                /\ \A j \in 1..Len(ps[k]) : e[p[k] + (j - 1)] = ps[k][j]
           /\ p[l + 1] = Len(e) + 1
    BY <1>4
  <2> DEFINE T == {k \in 1..(l + 1) : p[k] # k}
  <2>4. T = {}
    <3>1. SUFFICES ASSUME T # {}
                   PROVE  FALSE
      OBVIOUS
    <3>2. PICK k \in T : \A m \in T : k <= m
      <4>1. T \in SUBSET Nat
        OBVIOUS
      <4> HIDE DEF T
      <4> QED
        BY <3>1, <4>1, Least
    <3>3. CASE k = 1
      BY <2>3, <3>3
    <3>4. CASE k # 1
      <4>1. PICK h \in 1..l : h = k - 1 /\ ~(k <= h) /\ h + 1 = k /\ h \in 1..(l + 1)
        BY <3>4
      <4>2. h \notin T
        BY <3>2, <4>1, Zenon
      <4>3. p[h] = h /\ p[h + 1] = p[h] + 1
        BY <2>2, <2>3, <4>1, <4>2
      <4> QED
        BY <4>1, <4>3
    <3> QED
      BY <3>3, <3>4
  <2>5. \A k \in 1..(l + 1) : p[k] = k
    BY <2>4
  <2>6. Len(e) = l
    <3>1. Len(e) \in Nat /\ l + 1 = Len(e) + 1
      BY <1>4, <2>3, <2>5, LenProperties
    <3> QED
      BY <3>1
  <2>7. ASSUME NEW k \in 1..l
        PROVE  e[k] = name[k]
    <3>1. 1 \in 1..Len(ps[k]) /\ p[k] = k /\ k + (1 - 1) = k
      BY <2>2, <2>5
    <3> QED
      BY <2>2, <2>3, <3>1
  <2>8. e = name
    BY <1>1, <1>4, <2>6, <2>7, SeqEqual
  <2> QED
    BY <2>2, <2>8
<1> QED
  BY <1>1, <1>4, <1>5 DEF e

UnquoteRounds(q) == [i \in 1..(Len(q) + 1) |-> UnquoteRound(q, i)]

\* Reading an escaped name, wherever it stands in a text.
LEMMA ReadsEscaped ==
  ASSUME NEW q \in Seq(1..255), Nul = 0, NEW name \in Seq(1..255), NEW a \in Nat,
         a + Len(EscapedName(name)) <= Len(q),
         \A j \in 1..Len(EscapedName(name)) : q[a + j] = EscapedName(name)[j]
  PROVE  /\ Scanned(UnquoteRounds(q), a + 1).out
              = name \o Scanned(UnquoteRounds(q), a + Len(EscapedName(name)) + 1).out
         /\ Scanned(UnquoteRounds(q), a + 1).ok
              = Scanned(UnquoteRounds(q), a + Len(EscapedName(name)) + 1).ok
<1>1. PICK ps \in Seq(Seq(1..255)), l \in Nat :
        /\ ps = EscapedPieces(name) /\ l = Len(name) /\ Len(ps) = l
        /\ \A k \in 1..l : ps[k] = Escaped(name[k])
  <2>1. Seq(Graphic) \subseteq Seq(1..255)
    BY GraphicTexts
  <2>2. Seq(Seq(Graphic)) \subseteq Seq(Seq(1..255))
    BY <2>1, SeqMonotonic
  <2>3. EscapedPieces(name) \in Seq(Seq(1..255))
    BY <2>2, PiecesAre
  <2> QED
    BY <2>3, PiecesAre, LenProperties, Zenon
<1>2. EscapedName(name) = FlattenSeq(ps)
  BY <1>1, Zenon DEF EscapedName, EscapedPieces
<1>3. PICK e \in Seq(1..255), m \in Nat : e = FlattenSeq(ps) /\ m = Len(e)
  <2>1. FlattenSeq(ps) \in Seq(1..255)
    BY FlattenHolds
  <2>2. Len(FlattenSeq(ps)) \in Nat
    BY <2>1, LenProperties
  <2> QED
    BY <2>1, <2>2, Zenon
<1>4. PICK n \in Nat : n = Len(q) + 1
  BY LenProperties
<1> DEFINE r == UnquoteRounds(q)
<1>5. a + m < n /\ \A j \in 1..m : q[a + j] = e[j]
  BY <1>2, <1>3, <1>4
<1>6. Ahead(r, 0..255, n)
  BY <1>4, UnquoteAhead, Zenon DEF UnquoteRounds
<1> HIDE DEF r
<1>7. name \in Seq(0..255) /\ Len(ps) = Len(name)
  <2>1. 1..255 \subseteq 0..255
    OBVIOUS
  <2> QED
    BY <1>1, <2>1, SeqMonotonic
<1>8. Reads(r, name, ps, a)
  <2>1. SUFFICES ASSUME NEW k \in 1..l, NEW o \in Nat, o + Len(ps[k]) <= m,
                        \A j \in 1..Len(ps[k]) : e[o + j] = ps[k][j]
                 PROVE  /\ r[a + o + 1].out = <<name[k]>>
                        /\ r[a + o + 1].then = a + (o + Len(ps[k])) + 1
    BY <1>1, <1>3 DEF Reads
  <2>2. PICK c \in 1..255, w \in Nat, i \in Nat \ {0} :
          c = name[k] /\ w = Len(ps[k]) /\ ps[k] = Escaped(c) /\ i = a + o + 1
    <3>1. name[k] \in 1..255 /\ ps[k] \in Seq(1..255)
      BY <1>1, ElementOfSeq
    <3>2. Len(ps[k]) \in Nat
      BY <3>1, LenProperties
    <3>3. ps[k] = Escaped(name[k]) /\ a + o + 1 \in Nat \ {0}
      BY <1>1
    <3> QED
      BY <3>1, <3>2, <3>3, Zenon
  <2>3. ASSUME NEW j \in 1..w
        PROVE  At(q, i + (j - 1)) = Escaped(c)[j]
    <3>1. o + j \in 1..m /\ a + (o + j) = i + (j - 1) /\ a + (o + j) \in 1..(n - 1)
      <4>1. o + w <= m /\ a + m < n /\ i = a + o + 1
        BY <1>5, <2>1, <2>2, Zenon
      <4> HIDE <2>1, <2>2
      <4> QED
        BY <4>1
    <3>2. q[a + (o + j)] = e[o + j] /\ e[o + j] = ps[k][j]
      BY <1>5, <2>1, <2>2, <3>1, Zenon
    <3>3. At(q, a + (o + j)) = q[a + (o + j)]
      BY <1>4, <3>1 DEF At
    <3> QED
      BY <2>2, <3>1, <3>2, <3>3, Zenon
  <2>4. UnquoteRound(q, i) = Round(c, i + w)
    <3>1. w = Len(Escaped(c))
      BY <2>2, Zenon
    <3>2. \A j \in 1..Len(Escaped(c)) : At(q, i + (j - 1)) = Escaped(c)[j]
      BY <2>3, <3>1, Zenon
    <3>3. UnquoteRound(q, i) = Round(c, i + Len(Escaped(c)))
      BY <3>2, EscapedRound
    <3> QED
      BY <3>1, <3>3, Zenon
  <2>5. o + w <= m /\ a + m < n /\ i = a + o + 1
    BY <1>5, <2>1, <2>2, Zenon
  <2>6. i \in 1..n
    <3> HIDE <2>1, <2>2
    <3> QED
      BY <2>5
  <2>7. r[i] = UnquoteRound(q, i)
    BY <1>4, <2>6, Zenon DEF UnquoteRounds, r
  <2>8. i + w = a + (o + w) + 1
    BY <2>2
  <2>9. r[i].out = <<c>> /\ r[i].then = i + w
    <3>1. Round(c, i + w).out = <<c>> /\ Round(c, i + w).then = i + w
      BY DEF Round
    <3> QED
      BY <2>4, <2>7, <3>1, Zenon
  <2> QED
    BY <2>2, <2>8, <2>9, Zenon
<1>9. LET h == Len(FlattenSeq(ps))
      IN  /\ Scanned(r, a + 1).out = name \o Scanned(r, a + h + 1).out
          /\ Scanned(r, a + 1).ok = Scanned(r, a + h + 1).ok
          /\ Scanned(r, a + 1).next = Scanned(r, a + h + 1).next
  <2>1. a + Len(FlattenSeq(ps)) < n
    BY <1>3, <1>5, Zenon
  <2> QED
    BY <1>6, <1>7, <1>8, <2>1, ScannedPieces, ZenonT(60)
<1> QED
  BY <1>2, <1>9, Zenon DEF r

\* Two texts between quotation marks.
Enclosed(e, f) == <<DoubleQuote>> \o e \o f \o <<DoubleQuote>>

Encloses(q, e, f) ==
  /\ Len(q) = 1 + Len(e) + Len(f) + 1
  /\ q[1] = 34 /\ q[1 + Len(e) + Len(f) + 1] = 34
  /\ \A j \in 1..Len(e) : q[1 + j] = e[j]
  /\ \A j \in 1..Len(f) : q[(1 + Len(e)) + j] = f[j]

LEMMA EnclosedAt ==
  ASSUME NEW e \in Seq(Graphic), NEW f \in Seq(Graphic)
  PROVE  Enclosed(e, f) \in Seq(Graphic) /\ Encloses(Enclosed(e, f), e, f)
<1>1. PICK a \in Nat, b \in Nat : a = Len(e) /\ b = Len(f)
  BY LenProperties
<1>2. PICK d \in Seq(Graphic) : d = <<DoubleQuote>> /\ Len(d) = 1 /\ d[1] = 34
  <2>1. /\ <<DoubleQuote>> \in Seq(Graphic) /\ Len(<<DoubleQuote>>) = 1
        /\ <<DoubleQuote>>[1] = 34
    BY DEF Graphic, DoubleQuote
  <2> QED
    BY <2>1, Zenon
<1>3. PICK v \in Seq(Graphic) :
        /\ v = d \o e /\ Len(v) = 1 + a
        /\ v[1] = d[1]
        /\ \A j \in 1..a : v[1 + j] = e[j]
  <2>1. /\ d \o e \in Seq(Graphic) /\ Len(d \o e) = Len(d) + Len(e)
        /\ \A i \in 1..Len(d) : (d \o e)[i] = d[i]
        /\ \A j \in 1..Len(e) : (d \o e)[Len(d) + j] = e[j]
    BY ConcatAt
  <2>2. 1 \in 1..Len(d)
    BY <1>2
  <2>3. WITNESS d \o e \in Seq(Graphic)
  <2> QED
    BY <1>1, <1>2, <2>1, <2>2, Zenon
<1>4. PICK w \in Seq(Graphic) :
        /\ w = v \o f /\ Len(w) = (1 + a) + b
        /\ \A i \in 1..(1 + a) : w[i] = v[i]
        /\ \A j \in 1..b : w[(1 + a) + j] = f[j]
  <2>1. /\ v \o f \in Seq(Graphic) /\ Len(v \o f) = Len(v) + Len(f)
        /\ \A i \in 1..Len(v) : (v \o f)[i] = v[i]
        /\ \A j \in 1..Len(f) : (v \o f)[Len(v) + j] = f[j]
    BY ConcatAt
  <2>2. WITNESS v \o f \in Seq(Graphic)
  <2> QED
    BY <1>1, <1>3, <2>1, Zenon
<1>5. PICK q \in Seq(Graphic) :
        /\ q = w \o d /\ Len(q) = ((1 + a) + b) + 1
        /\ \A i \in 1..((1 + a) + b) : q[i] = w[i]
        /\ q[((1 + a) + b) + 1] = d[1]
  <2>1. /\ w \o d \in Seq(Graphic) /\ Len(w \o d) = Len(w) + Len(d)
        /\ \A i \in 1..Len(w) : (w \o d)[i] = w[i]
        /\ \A j \in 1..Len(d) : (w \o d)[Len(w) + j] = d[j]
    BY ConcatAt
  <2>2. 1 \in 1..Len(d)
    BY <1>2
  <2>3. WITNESS w \o d \in Seq(Graphic)
  <2> QED
    BY <1>2, <1>4, <2>1, <2>2, Zenon
<1>6. Enclosed(e, f) = q
  BY <1>2, <1>3, <1>4, <1>5, Zenon DEF Enclosed
<1>7. q[1] = 34 /\ q[1 + a + b + 1] = 34
  <2>1. 1 \in 1..(1 + a) /\ 1 \in 1..((1 + a) + b) /\ 1 + a + b + 1 = ((1 + a) + b) + 1
    OBVIOUS
  <2> QED
    BY <1>2, <1>3, <1>4, <1>5, <2>1
<1>8. \A j \in 1..a : q[1 + j] = e[j]
  <2>1. \A j \in 1..a : 1 + j \in 1..(1 + a) /\ 1 + j \in 1..((1 + a) + b)
    OBVIOUS
  <2> QED
    BY <1>3, <1>4, <1>5, <2>1
<1>9. \A j \in 1..b : q[(1 + a) + j] = f[j]
  <2>1. \A j \in 1..b : (1 + a) + j \in 1..((1 + a) + b)
    OBVIOUS
  <2> QED
    BY <1>4, <1>5, <2>1
<1> QED
  BY <1>1, <1>5, <1>6, <1>7, <1>8, <1>9 DEF Encloses

\* Two escaped names between quotation marks read back as both.
LEMMA QuotesRead ==
  ASSUME Nul = 0, NEW x \in Seq(1..255), NEW y \in Seq(1..255),
         NEW q \in Seq(1..255), Encloses(q, EscapedName(x), EscapedName(y))
  PROVE  InQuotes(q) /\ Unquoted(q).ok = TRUE /\ Unquoted(q).out = x \o y
<1>1. PICK a \in Nat, b \in Nat : a = Len(EscapedName(x)) /\ b = Len(EscapedName(y))
  BY EscapedNameIs, LenProperties
<1>2. /\ Len(q) = 1 + a + b + 1 /\ q[1] = 34 /\ q[1 + a + b + 1] = 34
      /\ \A j \in 1..a : q[1 + j] = EscapedName(x)[j]
      /\ \A j \in 1..b : q[(1 + a) + j] = EscapedName(y)[j]
  BY <1>1, Zenon DEF Encloses
<1> DEFINE S(i) == Scanned(UnquoteRounds(q), i)
<1>13. S(1 + 1).out = x \o S(1 + a + 1).out /\ S(1 + 1).ok = S(1 + a + 1).ok
  <2>1. 1 \in Nat /\ 1 + Len(EscapedName(x)) <= Len(q)
    BY <1>1, <1>2
  <2>2. \A j \in 1..Len(EscapedName(x)) : q[1 + j] = EscapedName(x)[j]
    BY <1>1, <1>2, Zenon
  <2>3. /\ S(1 + 1).out = x \o S(1 + Len(EscapedName(x)) + 1).out
        /\ S(1 + 1).ok = S(1 + Len(EscapedName(x)) + 1).ok
    BY <2>1, <2>2, ReadsEscaped, Zenon
  <2> QED
    BY <1>1, <2>3, Zenon
<1>14. /\ S((1 + a) + 1).out = y \o S((1 + a) + b + 1).out
       /\ S((1 + a) + 1).ok = S((1 + a) + b + 1).ok
  <2>1. 1 + a \in Nat /\ (1 + a) + Len(EscapedName(y)) <= Len(q)
    BY <1>1, <1>2
  <2>2. \A j \in 1..Len(EscapedName(y)) : q[(1 + a) + j] = EscapedName(y)[j]
    BY <1>1, <1>2, Zenon
  <2>3. /\ S((1 + a) + 1).out = y \o S((1 + a) + Len(EscapedName(y)) + 1).out
        /\ S((1 + a) + 1).ok = S((1 + a) + Len(EscapedName(y)) + 1).ok
    BY <2>1, <2>2, ReadsEscaped, Zenon
  <2> QED
    BY <1>1, <2>3, Zenon
<1>15. S(1 + a + b + 1) = LastRound(TRUE, 0)
  <2>1. PICK n \in Nat, i \in Nat \ {0} : n = Len(q) + 1 /\ i = 1 + a + b + 1 /\ i <= n
    BY <1>2
  <2>2. At(q, i) = 34
    BY <1>2, <2>1 DEF At
  <2>6. i \in 1..n
    BY <2>1
  <2>3. UnquoteRounds(q)[i] = LastRound(TRUE, 0)
    <3>1. UnquoteRound(q, i) = LastRound(TRUE, 0)
      BY <2>2, RoundOfByte
    <3>2. UnquoteRounds(q)[i] = UnquoteRound(q, i)
      BY <2>1, <2>6, Zenon DEF UnquoteRounds
    <3> QED
      BY <3>1, <3>2, Zenon
  <2>4. Ahead(UnquoteRounds(q), 0..255, n)
    BY <2>1, UnquoteAhead DEF UnquoteRounds
  <2>5. LastRound(TRUE, 0).then = 0
    BY DEF LastRound
  <2> QED
    <3>1. PICK r : r = UnquoteRounds(q)
      OBVIOUS
    <3>2. r[i].then = 0
      BY <2>3, <2>5, <3>1, Zenon
    <3>3. Scanned(r, i) = r[i]
      BY <2>4, <2>6, <3>1, <3>2, ScannedFrom
    <3> QED
      BY <2>1, <2>3, <3>1, <3>3, Zenon
<1>16. LastRound(TRUE, 0).out = <<>> /\ LastRound(TRUE, 0).ok = TRUE
  BY DEF LastRound
<1>17. Unquoted(q) = S(2)
  <2>1. At(q, 1) = DoubleQuote
    BY <1>2 DEF At, DoubleQuote
  <2> QED
    BY <2>1 DEF Unquoted, UnquoteRounds
<1> HIDE DEF S
<1>18. y \o <<>> = y
  BY ConcatEmptySeq
<1>19. 1 + 1 = 2 /\ (1 + a) + 1 = 1 + a + 1 /\ (1 + a) + b + 1 = 1 + a + b + 1
  OBVIOUS
<1>20. S(2).ok = TRUE /\ S(2).out = x \o y
  <2>1. S(2).out = x \o S(1 + a + 1).out /\ S(2).ok = S(1 + a + 1).ok
    BY <1>13, <1>19, Zenon
  <2>2. S(1 + a + 1).out = y \o S(1 + a + b + 1).out /\ S(1 + a + 1).ok = S(1 + a + b + 1).ok
    <3>1. S((1 + a) + 1) = S(1 + a + 1) /\ S((1 + a) + b + 1) = S(1 + a + b + 1)
      BY <1>19
    <3> QED
      BY <1>14, <3>1, Zenon
  <2>3. S(1 + a + b + 1).out = <<>> /\ S(1 + a + b + 1).ok = TRUE
    <3>1. S(1 + a + b + 1) = LastRound(TRUE, 0)
      BY <1>15, Zenon
    <3> QED
      BY <1>16, <3>1, Zenon
  <2>4. S(1 + a + 1).out = y /\ S(1 + a + 1).ok = TRUE
    BY <1>18, <2>2, <2>3, Zenon
  <2> QED
    BY <2>1, <2>4, Zenon
<1>21. InQuotes(q)
  <2>1. q # <<>>
    BY <1>2
  <2> QED
    BY <1>2, <2>1 DEF InQuotes, DoubleQuote
<1> QED
  BY <1>17, <1>20, <1>21, Zenon

\* What is printed for of, read by whoever takes the listing apart.
ReadsBackAs(t, of) ==
  /\ IF InQuotes(t) THEN Unquoted(t).ok /\ Unquoted(t).out = of ELSE t = of
  /\ \A i \in DOMAIN t : Printable(t[i])

LEMMA GraphicPrints ==
  ASSUME NEW t \in Seq(Graphic), NEW i \in DOMAIN t
  PROVE  Printable(t[i])
<1>1. t[i] \in Graphic
  <2>1. i \in 1..Len(t)
    BY LenProperties
  <2> QED
    BY <2>1, ElementOfSeq
<1> QED
  BY <1>1 DEF Printable, Graphic

LEMMA EnclosedReadsBack ==
  ASSUME Nul = 0, NEW x \in Seq(1..255), NEW y \in Seq(1..255)
  PROVE  ReadsBackAs(Enclosed(EscapedName(x), EscapedName(y)), x \o y)
<1>1. PICK e \in Seq(Graphic), f \in Seq(Graphic) : e = EscapedName(x) /\ f = EscapedName(y)
  BY EscapedNameIs
<1>3. PICK q \in Seq(Graphic) : q = Enclosed(e, f) /\ Encloses(q, e, f)
  BY EnclosedAt, Zenon
<1>5. q \in Seq(1..255)
  BY GraphicTexts
<1>6. InQuotes(q) /\ Unquoted(q).ok = TRUE /\ Unquoted(q).out = x \o y
  BY <1>1, <1>3, <1>5, QuotesRead, Zenon
<1>7. \A i \in DOMAIN q : Printable(q[i])
  BY GraphicPrints
<1> QED
  BY <1>1, <1>3, <1>6, <1>7, Zenon DEF ReadsBackAs

LEMMA PlainReadsBack ==
  ASSUME NEW t \in Seq(Graphic), t # <<>> => t[1] # DoubleQuote
  PROVE  ReadsBackAs(t, t)
<1>1. \A i \in DOMAIN t : Printable(t[i])
  BY GraphicPrints
<1> QED
  BY <1>1, Zenon DEF ReadsBackAs, InQuotes

LEMMA CStyleReads ==
  ASSUME Nul = 0, NEW name \in Seq(1..255)
  PROVE  ReadsBackAs(CStyle(name, FALSE), name)
<1>1. CASE NeedsQuotes(name)
  <2>1. PICK e \in Seq(Graphic), d \in Seq(Graphic) : e = EscapedName(name) /\ d = <<DoubleQuote>>
    <3>1. <<DoubleQuote>> \in Seq(Graphic)
      BY DEF Graphic, DoubleQuote
    <3> QED
      BY <3>1, EscapedNameIs
  <2>2. <<>> \in Seq(1..255) /\ EscapedName(<<>>) = <<>>
    <3>1. <<>> \in Seq(1..255) /\ ~NeedsQuotes(<<>>)
      BY DEF NeedsQuotes
    <3> QED
      BY <3>1, EscapedNameIs
  <2>3. CStyle(name, FALSE) = d \o e \o d
    BY <1>1, <2>1, Zenon DEF CStyle
  <2>4. Enclosed(e, <<>>) = d \o e \o d
    <3>1. d \o e \in Seq(Graphic)
      BY ConcatAt
    <3>2. (d \o e) \o <<>> = d \o e
      BY <3>1, ConcatEmptySeq
    <3> QED
      BY <2>1, <3>2, Zenon DEF Enclosed
  <2>5. name \o <<>> = name
    BY ConcatEmptySeq
  <2> QED
    BY <2>1, <2>2, <2>3, <2>4, <2>5, EnclosedReadsBack, Zenon
<1>2. CASE ~NeedsQuotes(name)
  <2>1. EscapedName(name) \in Seq(Graphic) /\ EscapedName(name) = name
        /\ \A i \in 1..Len(name) : name[i] # DoubleQuote
    BY <1>2, EscapedNameIs
  <2>2. CStyle(name, FALSE) = name
    BY <1>2, <2>1, Zenon DEF CStyle
  <2>3. name # <<>> => 1 \in 1..Len(name)
    BY EmptySeq, LenProperties
  <2> QED
    BY <2>1, <2>2, <2>3, PlainReadsBack, Zenon
<1> QED
  BY <1>1, <1>2

LEMMA TwoCStyleReads ==
  ASSUME Nul = 0, NEW prefix \in Seq(1..255), NEW path \in Seq(1..255)
  PROVE  ReadsBackAs(TwoCStyle(prefix, path), prefix \o path)
<1>1. CASE NeedsQuotes(prefix) \/ NeedsQuotes(path)
  <2>1. TwoCStyle(prefix, path) = Enclosed(EscapedName(prefix), EscapedName(path))
    BY <1>1, Zenon DEF TwoCStyle, CStyle, Enclosed
  <2> QED
    BY <2>1, EnclosedReadsBack, Zenon
<1>2. CASE ~NeedsQuotes(prefix) /\ ~NeedsQuotes(path)
  <2>1. TwoCStyle(prefix, path) = prefix \o path
    BY <1>2, Zenon DEF TwoCStyle
  <2>2. PICK x \in Seq(Graphic), y \in Seq(Graphic) :
          /\ x = prefix /\ y = path
          /\ \A i \in 1..Len(x) : x[i] # DoubleQuote
          /\ \A i \in 1..Len(y) : y[i] # DoubleQuote
    BY <1>2, EscapedNameIs
  <2>3. PICK t \in Seq(Graphic) :
          /\ t = x \o y /\ Len(t) = Len(x) + Len(y)
          /\ \A i \in 1..Len(x) : t[i] = x[i]
          /\ \A j \in 1..Len(y) : t[Len(x) + j] = y[j]
    <3>1. /\ x \o y \in Seq(Graphic) /\ Len(x \o y) = Len(x) + Len(y)
          /\ \A i \in 1..Len(x) : (x \o y)[i] = x[i]
          /\ \A j \in 1..Len(y) : (x \o y)[Len(x) + j] = y[j]
      BY ConcatAt
    <3>2. WITNESS x \o y \in Seq(Graphic)
    <3> QED
      BY <3>1, Zenon
  <2>4. ASSUME t # <<>>
        PROVE  t[1] # DoubleQuote
    <3>1. Len(t) # 0 /\ Len(x) \in Nat /\ Len(y) \in Nat
      BY <2>4, EmptySeq, LenProperties
    <3>2. CASE Len(x) = 0
      <4>1. 1 \in 1..Len(y) /\ t[0 + 1] = y[1]
        BY <2>3, <3>1, <3>2
      <4>2. 0 + 1 = 1
        OBVIOUS
      <4> QED
        BY <2>2, <4>1, <4>2, Zenon
    <3>3. CASE Len(x) # 0
      <4>1. 1 \in 1..Len(x)
        BY <3>1, <3>3
      <4> QED
        BY <2>2, <2>3, <4>1, Zenon
    <3> QED
      BY <3>2, <3>3
  <2> QED
    BY <2>1, <2>2, <2>3, <2>4, PlainReadsBack, Zenon
<1> QED
  BY <1>1, <1>2

(***************************************************************************)
(* A name quoted in C style, and a prefix and a path quoted together, read *)
(* back as they were, whatever their bytes: the escapes are undone one by  *)
(* one, and nothing that is not quoted begins with a quotation mark.       *)
(***************************************************************************)
THEOREM CStyleIsReadBack == QuoteSpec => []CStyleReadsBack
<1> DEFINE Inv == quoted.fn \in {"c", "two"} => ReadsBackAs(quoted.gives, quoted.of)
<1>1. Nul = 0 /\ Names \subseteq Seq(1..255)
  BY QuoteAssumption
<1>2. StrbufInit /\ quoted = NothingQuoted => Inv
  BY DEF NothingQuoted
<1>3. Inv /\ [(StrbufNext /\ UNCHANGED quoted) \/ QuoteNext]_quoteVars => Inv'
  <2> SUFFICES ASSUME Inv, [(StrbufNext /\ UNCHANGED quoted) \/ QuoteNext]_quoteVars
               PROVE  Inv'
    OBVIOUS
  <2>1. ASSUME UNCHANGED quoted
        PROVE  Inv'
    BY <2>1
  <2>2. ASSUME NEW name \in Names, QuoteCStyle(name)
        PROVE  Inv'
    <3>1. quoted' = Quoted("c", name, <<>>, TRUE, CStyle(name, FALSE))
      BY <2>2 DEF QuoteCStyle
    <3>2. quoted'.gives = CStyle(name, FALSE) /\ quoted'.of = name
      BY <3>1 DEF Quoted
    <3>3. ReadsBackAs(CStyle(name, FALSE), name)
      BY <1>1, CStyleReads
    <3> QED
      BY <3>2, <3>3, Zenon
  <2>3. ASSUME NEW name \in Names, NEW path \in Names, QuoteTwoCStyle(name, path)
        PROVE  Inv'
    <3>1. quoted' = Quoted("two", name \o path, <<>>, TRUE, TwoCStyle(name, path))
      BY <2>3 DEF QuoteTwoCStyle
    <3>2. quoted'.gives = TwoCStyle(name, path) /\ quoted'.of = name \o path
      BY <3>1 DEF Quoted
    <3>3. ReadsBackAs(TwoCStyle(name, path), name \o path)
      BY <1>1, TwoCStyleReads
    <3> QED
      BY <3>2, <3>3, Zenon
  <2>4. ASSUME quoted'.fn \notin {"c", "two"}
        PROVE  Inv'
    BY <2>4
  <2>5. ASSUME NEW q \in Quotations, UnquoteCStyle(q)
        PROVE  Inv'
    <3>1. quoted'.fn = "unquote"
      BY <2>5 DEF UnquoteCStyle, Quoted
    <3> QED
      BY <2>4, <3>1
  <2>6. ASSUME NEW args \in Lists, NEW maxlen \in {0, MaxLen}, SqQuoteArgv(args, maxlen)
        PROVE  Inv'
    <3>1. quoted'.fn = "argv" \/ UNCHANGED quoted
      BY <2>6 DEF SqQuoteArgv, Quoted
    <3> QED
      BY <2>1, <2>4, <3>1
  <2>7. ASSUME NEW q \in ShellTexts, SqDequote(q) \/ SqDequoteToArgv(q)
        PROVE  Inv'
    <3>1. CASE SqDequote(q)
      <4>1. quoted'.fn = "dequote"
        BY <3>1 DEF SqDequote, Quoted
      <4> QED
        BY <2>4, <4>1
    <3>2. CASE SqDequoteToArgv(q)
      <4>1. quoted'.fn = "dequote_argv"
        BY <3>2 DEF SqDequoteToArgv, Quoted
      <4> QED
        BY <2>4, <4>1
    <3> QED
      BY <2>7, <3>1, <3>2
  <2>8. ASSUME NEW in \in Files, NEW prefix \in Directories, QuotePathRelative(in, prefix)
        PROVE  Inv'
    <3>1. quoted'.fn = "relative"
      BY <2>8 DEF QuotePathRelative, Quoted
    <3> QED
      BY <2>4, <3>1
  <2> HIDE DEF Inv
  <2> QED
    BY <2>1, <2>2, <2>3, <2>5, <2>6, <2>7, <2>8 DEF QuoteNext, quoteVars
<1>4. Inv => CStyleReadsBack
  BY DEF CStyleReadsBack, ReadsBackAs
<1> QED
  BY <1>2, <1>3, <1>4, PTL DEF QuoteSpec

-----------------------------------------------------------------------------
(***************************************************************************)
(* What the quoting functions write is text, whatever they are given.      *)
(***************************************************************************)

LEMMA CStyleIsText ==
  ASSUME NEW name \in Seq(1..255), NEW nodq \in BOOLEAN
  PROVE  CStyle(name, nodq) \in Seq(1..255)
<1>1. PICK e \in Seq(1..255), d \in Seq(1..255) : e = EscapedName(name) /\ d = <<DoubleQuote>>
  <2>1. <<DoubleQuote>> \in Seq(1..255)
    BY DEF DoubleQuote
  <2> QED
    BY <2>1, EscapedNameIs, GraphicTexts
<1>2. (d \o e) \o d \in Seq(1..255)
  <2>1. d \o e \in Seq(1..255)
    BY ConcatAt
  <2> QED
    BY <2>1, ConcatAt
<1> QED
  BY <1>1, <1>2, Zenon DEF CStyle

LEMMA TwoCStyleIsText ==
  ASSUME NEW prefix \in Seq(1..255), NEW path \in Seq(1..255)
  PROVE  TwoCStyle(prefix, path) \in Seq(1..255)
<1>1. PICK x \in Seq(1..255), y \in Seq(1..255), d \in Seq(1..255) :
        x = CStyle(prefix, TRUE) /\ y = CStyle(path, TRUE) /\ d = <<DoubleQuote>>
  <2>1. <<DoubleQuote>> \in Seq(1..255)
    BY DEF DoubleQuote
  <2> QED
    BY <2>1, CStyleIsText
<1>2. ((d \o x) \o y) \o d \in Seq(1..255)
  <2>1. d \o x \in Seq(1..255)
    BY ConcatAt
  <2>2. (d \o x) \o y \in Seq(1..255)
    BY <2>1, ConcatAt
  <2> QED
    BY <2>2, ConcatAt
<1>3. prefix \o path \in Seq(1..255)
  BY ConcatAt
<1> QED
  BY <1>1, <1>2, <1>3, Zenon DEF TwoCStyle

LEMMA UnquotedIsText ==
  ASSUME NEW q \in Seq(1..255), Nul = 0
  PROVE  Unquoted(q) \in Ended(0..255)
<1>1. CASE At(q, 1) # DoubleQuote
  <2>1. LastRound(FALSE, 0) \in Ended(0..255)
    BY EmptySeq DEF LastRound, Ended
  <2> QED
    BY <1>1, <2>1, Zenon DEF Unquoted
<1>2. CASE At(q, 1) = DoubleQuote
  <2>1. PICK n \in Nat : n = Len(q) + 1
    BY LenProperties
  <2>2. PICK r : r = UnquoteRounds(q)
    OBVIOUS
  <2>3. Ahead(r, 0..255, n)
    BY <2>1, <2>2, UnquoteAhead, Zenon DEF UnquoteRounds
  <2>4. 2 \in 1..n
    <3>1. At(q, 1) # 0 /\ 1 \in Nat \ {0}
      BY <1>2 DEF DoubleQuote
    <3>2. 1 \in 1..Len(q)
      BY <3>1, AtIs
    <3> QED
      BY <2>1, <3>2, LenProperties
  <2>5. Scanned(r, 2) \in Ended(0..255)
    BY <2>3, <2>4, ScannedEnds
  <2> QED
    BY <1>2, <2>2, <2>5, Zenon DEF Unquoted, UnquoteRounds
<1> QED
  BY <1>1, <1>2

LEMMA SqQuotedIsText ==
  ASSUME NEW name \in Seq(1..255)
  PROVE  SqQuoted(name) \in Seq(1..255)
<1> DEFINE ps == [i \in DOMAIN name |-> IF NeedBsQuote(name[i])
                               THEN <<Quote, Backslash, name[i], Quote>>
                               ELSE <<name[i]>>]
<1>1. ps \in Seq(Seq(1..255))
  <2>1. PICK n \in Nat : n = Len(name)
    BY LenProperties
  <2>2. ASSUME NEW c \in 1..255
        PROVE  <<Quote, Backslash, c, Quote>> \in Seq(1..255) /\ <<c>> \in Seq(1..255)
    BY DEF Quote, Backslash
  <2>3. \A i \in 1..n : name[i] \in 1..255
    BY <2>1, ElementOfSeq
  <2>4. \A i \in 1..n : ps[i] \in Seq(1..255)
    <3>1. DOMAIN name = 1..n
      BY <2>1, LenProperties
    <3> QED
      BY <2>2, <2>3, <3>1, Zenon
  <2>5. DOMAIN ps = 1..n /\ ps = [i \in DOMAIN ps |-> ps[i]]
    BY <2>1, LenProperties
  <2> HIDE DEF ps
  <2>6. ps \in [1..n -> Seq(1..255)]
    BY <2>4, <2>5
  <2> QED
    BY <2>6
<1>2. FlattenSeq(ps) \in Seq(1..255)
  BY <1>1, FlattenHolds
<1> HIDE DEF ps
<1>3. PICK d \in Seq(1..255), f \in Seq(1..255) : d = <<Quote>> /\ f = FlattenSeq(ps)
  <2>1. <<Quote>> \in Seq(1..255)
    BY DEF Quote
  <2> QED
    BY <1>2, <2>1
<1>4. (d \o f) \o d \in Seq(1..255)
  <2>1. d \o f \in Seq(1..255)
    BY ConcatAt
  <2> QED
    BY <2>1, ConcatAt
<1>5. SqQuoted(name) = (d \o f) \o d
  BY <1>3, Zenon DEF SqQuoted, ps
<1> QED
  BY <1>4, <1>5

LEMMA SqQuotedArgvIsText ==
  ASSUME NEW args \in Seq(Seq(1..255))
  PROVE  SqQuotedArgv(args) \in Seq(1..255)
<1> DEFINE ps == [i \in DOMAIN args |-> <<Blank>> \o SqQuoted(args[i])]
<1>1. ps \in Seq(Seq(1..255))
  <2>1. PICK n \in Nat : n = Len(args)
    BY LenProperties
  <2>2. ASSUME NEW i \in 1..n
        PROVE  ps[i] \in Seq(1..255)
    <3>1. args[i] \in Seq(1..255) /\ i \in DOMAIN args
      BY <2>1, ElementOfSeq, LenProperties
    <3>2. SqQuoted(args[i]) \in Seq(1..255) /\ <<Blank>> \in Seq(1..255)
      BY <3>1, SqQuotedIsText DEF Blank
    <3>3. <<Blank>> \o SqQuoted(args[i]) \in Seq(1..255)
      BY <3>2, ConcatAt
    <3> QED
      BY <3>1, <3>3
  <2>3. DOMAIN ps = 1..n /\ ps = [i \in DOMAIN ps |-> ps[i]]
    BY <2>1, LenProperties
  <2> HIDE DEF ps
  <2>4. ps \in [1..n -> Seq(1..255)]
    BY <2>2, <2>3
  <2> QED
    BY <2>4
<1> QED
  BY <1>1, FlattenHolds DEF SqQuotedArgv

\* What path_relative finds: i bytes are the same, off of them up to a slash.
CommonPart(in, prefix, i, off) ==
  /\ off <= i /\ i <= Len(in) /\ i <= Len(prefix)
  /\ \A k \in 1..i : in[k] = prefix[k]
  /\ off # 0 => prefix[off] = Slash
  /\ \A k \in (off + 1)..i : prefix[k] # Slash
  /\ PathRelative(in, prefix)
       = StepsUp(SubSeq(prefix, i + 1, Len(prefix))) \o SubSeq(in, off + 1, Len(in))

LEMMA PathRelativeIs ==
  ASSUME NEW in \in Seq(1..255), NEW prefix \in Seq(1..255)
  PROVE  \E i \in Nat, off \in Nat : CommonPart(in, prefix, i, off)
<1>1. PICK l \in Nat, p \in Nat : l = Len(in) /\ p = Len(prefix)
  BY LenProperties
<1> DEFINE Same(n) == /\ n <= Len(prefix) /\ SubSeq(in, 1, n) = SubSeq(prefix, 1, n)
                      /\ n < Len(prefix) /\ n < Len(in) => in[n + 1] # prefix[n + 1]
           i == CHOOSE n \in 0..Len(in) : Same(n)
           slashes == {k \in 1..i : prefix[k] = Slash}
           off == IF slashes = {} THEN 0 ELSE CHOOSE k \in slashes : \A m \in slashes : m <= k
<1>2. \E n \in 0..l : Same(n)
  <2> DEFINE T == {n \in Nat : n <= l /\ n <= p /\ (n < p /\ n < l => in[n + 1] # prefix[n + 1])}
  <2>1. T \in SUBSET Nat /\ T # {}
    <3>1. (IF l <= p THEN l ELSE p) \in T
      OBVIOUS
    <3> QED
      BY <3>1
  <2>2. PICK m \in T : \A k \in T : m <= k
    <3> HIDE DEF T
    <3> QED
      BY <2>1, Least
  <2>3. m \in Nat /\ m <= l /\ m <= p /\ (m < p /\ m < l => in[m + 1] # prefix[m + 1])
    OBVIOUS
  <2>4. ASSUME NEW k \in 1..m
        PROVE  in[k] = prefix[k]
    <3>1. k - 1 \in Nat /\ k - 1 <= l /\ k - 1 <= p /\ k - 1 < p /\ k - 1 < l /\ ~(m <= k - 1)
          /\ (k - 1) + 1 = k
      BY <2>3
    <3>2. k - 1 \notin T
      BY <2>2, <3>1, Zenon
    <3>3. in[(k - 1) + 1] = prefix[(k - 1) + 1]
      BY <3>1, <3>2
    <3> QED
      BY <3>1, <3>3
  <2> HIDE DEF T
  <2>5. SubSeq(in, 1, m) = SubSeq(prefix, 1, m)
    <3>1. 1 \in 1..(l + 1) /\ 1 \in 1..(p + 1) /\ m \in (1 - 1)..l /\ m \in (1 - 1)..p
          /\ m - 1 + 1 = m
      BY <2>3
    <3>2. PICK u \in Seq(1..255), v \in Seq(1..255) :
            /\ u = SubSeq(in, 1, m) /\ Len(u) = m /\ \A k \in 1..m : u[k] = in[1 + k - 1]
            /\ v = SubSeq(prefix, 1, m) /\ Len(v) = m
            /\ \A k \in 1..m : v[k] = prefix[1 + k - 1]
      <4>1. /\ SubSeq(in, 1, m) \in Seq(1..255) /\ Len(SubSeq(in, 1, m)) = m - 1 + 1
            /\ \A k \in 1..(m - 1 + 1) : SubSeq(in, 1, m)[k] = in[1 + k - 1]
        BY <1>1, <3>1, Parts
      <4>2. /\ SubSeq(prefix, 1, m) \in Seq(1..255) /\ Len(SubSeq(prefix, 1, m)) = m - 1 + 1
            /\ \A k \in 1..(m - 1 + 1) : SubSeq(prefix, 1, m)[k] = prefix[1 + k - 1]
        BY <1>1, <3>1, Parts
      <4> QED
        BY <3>1, <4>1, <4>2, Zenon
    <3>3. \A k \in 1..m : u[k] = v[k]
      <4>1. \A k \in 1..m : 1 + k - 1 = k
        OBVIOUS
      <4> QED
        BY <2>4, <3>2, <4>1
    <3>4. u = v
      BY <3>2, <3>3, SeqEqual
    <3> QED
      BY <3>2, <3>4, Zenon
  <2> QED
    BY <1>1, <2>3, <2>5
<1>3. i \in 0..l /\ Same(i)
  BY <1>1, <1>2, Zenon
<1>4. PathRelative(in, prefix)
        = StepsUp(SubSeq(prefix, i + 1, Len(prefix))) \o SubSeq(in, off + 1, Len(in))
  BY Zenon DEF PathRelative
<1> HIDE DEF i
<1>5. off \in 0..i /\ (off # 0 => prefix[off] = Slash) /\ \A k \in slashes : k <= off
  <2>1. CASE slashes = {}
    <3>1. off = 0 /\ \A k \in slashes : k <= off
      BY <2>1
    <3> HIDE DEF off, slashes
    <3> QED
      BY <1>3, <3>1
  <2>2. CASE slashes # {}
    <3> DEFINE T == {d \in Nat : i - d \in slashes}
    <3>1. T \in SUBSET Nat /\ T # {}
      <4>1. PICK k \in slashes : TRUE
        BY <2>2
      <4>2. i - k \in T
        BY <1>3
      <4> QED
        BY <4>2
    <3>2. PICK m \in T : \A k \in T : m <= k
      <4> HIDE DEF T
      <4> QED
        BY <3>1, Least
    <3>3. i - m \in slashes /\ \A k \in slashes : k <= i - m
      <4>1. \A k \in slashes : i - k \in T
        BY <1>3
      <4> QED
        BY <1>3, <3>2, <4>1
    <3>4. \E k \in slashes : \A h \in slashes : h <= k
      BY <3>3
    <3>5. off \in slashes /\ \A k \in slashes : k <= off
      BY <2>2, <3>4, Zenon
    <3> QED
      BY <1>3, <3>5
  <2> QED
    BY <2>1, <2>2
<1>6. \A k \in 1..i : in[k] = prefix[k]
  <2>1. 1 \in 1..(l + 1) /\ 1 \in 1..(p + 1) /\ i \in (1 - 1)..l /\ i \in (1 - 1)..p
        /\ i - 1 + 1 = i
    BY <1>1, <1>3
  <2>2. /\ \A k \in 1..(i - 1 + 1) : SubSeq(in, 1, i)[k] = in[1 + k - 1]
        /\ \A k \in 1..(i - 1 + 1) : SubSeq(prefix, 1, i)[k] = prefix[1 + k - 1]
    BY <1>1, <2>1, Parts
  <2>3. \A k \in 1..i : 1 + k - 1 = k
    BY <1>3
  <2> QED
    BY <1>3, <2>1, <2>2, <2>3
<1>7. \A k \in (off + 1)..i : prefix[k] # Slash
  <2>1. \A k \in (off + 1)..i : k \in 1..i /\ ~(k <= off)
    BY <1>3, <1>5
  <2> QED
    BY <1>5, <2>1
<1> HIDE DEF off
<1>8. i \in Nat /\ off \in Nat /\ off <= i /\ i <= Len(in) /\ i <= Len(prefix)
  BY <1>1, <1>3, <1>5
<1>9. CommonPart(in, prefix, i, off)
  BY <1>4, <1>5, <1>6, <1>7, <1>8 DEF CommonPart
<1> QED
  BY <1>8, <1>9

LEMMA StepsUpPieces ==
  ASSUME NEW dir \in Seq(1..255)
  PROVE  [k \in DOMAIN dir |-> IF dir[k] = Slash THEN <<46, 46, Slash>> ELSE <<>>]
           \in Seq(Seq(1..255))
<1>1. PICK n \in Nat : n = Len(dir) /\ DOMAIN dir = 1..n
  BY LenProperties
<1>2. <<46, 46, Slash>> \in Seq(1..255) /\ <<>> \in Seq(1..255)
  BY EmptySeq DEF Slash
<1> DEFINE g == [k \in 1..n |-> IF dir[k] = Slash THEN <<46, 46, Slash>> ELSE <<>>]
<1>3. g \in [1..n -> Seq(1..255)]
  BY <1>2, Zenon
<1> HIDE DEF g
<1>4. g \in Seq(Seq(1..255))
  BY <1>3
<1> QED
  BY <1>1, <1>4, Zenon DEF g

LEMMA PathRelativeIsText ==
  ASSUME NEW in \in Seq(1..255), NEW prefix \in Seq(1..255)
  PROVE  PathRelative(in, prefix) \in Seq(1..255)
<1>1. PICK i \in Nat, off \in Nat : CommonPart(in, prefix, i, off)
  BY PathRelativeIs
<1>2. PICK l \in Nat, p \in Nat :
        l = Len(in) /\ p = Len(prefix) /\ off <= i /\ i <= l /\ i <= p
  BY <1>1, LenProperties DEF CommonPart
<1>3. SubSeq(prefix, i + 1, p) \in Seq(1..255) /\ SubSeq(in, off + 1, l) \in Seq(1..255)
  <2>1. i + 1 \in 1..(p + 1) /\ p \in ((i + 1) - 1)..p /\ off + 1 \in 1..(l + 1)
        /\ l \in ((off + 1) - 1)..l
    BY <1>2
  <2> QED
    BY <1>2, <2>1, Parts
<1>4. StepsUp(SubSeq(prefix, i + 1, p)) \in Seq(1..255)
  <2>1. PICK dir \in Seq(1..255) : dir = SubSeq(prefix, i + 1, p)
    BY <1>3
  <2>2. [k \in DOMAIN dir |-> IF dir[k] = Slash THEN <<46, 46, Slash>> ELSE <<>>]
          \in Seq(Seq(1..255))
    BY StepsUpPieces
  <2>3. StepsUp(dir) \in Seq(1..255)
    BY <2>2, FlattenHolds DEF StepsUp
  <2> QED
    BY <2>1, <2>3, Zenon
<1>5. StepsUp(SubSeq(prefix, i + 1, p)) \o SubSeq(in, off + 1, l) \in Seq(1..255)
  BY <1>3, <1>4, ConcatAt
<1> QED
  BY <1>1, <1>2, <1>5, Zenon DEF CommonPart

-----------------------------------------------------------------------------
(***************************************************************************)
(* A call that quotes keeps what is promised of the buffer: it writes text *)
(* with the functions of strbuf.c, or leaves the buffer alone.             *)
(***************************************************************************)
LEMMA Texts_ ==
  ASSUME NEW t \in Seq(1..255)
  PROVE  t \in Seq(Cells)
BY QuoteAssumption, BytesAreCells, Zenon

LEMMA WritesReturns ==
  ASSUME StrbufInv, ~reading.on, NEW t \in Seq(Cells), Writes(Emit(sb, t), t)
  PROVE  Returns
<1> DEFINE c == Call("add", 0, 0, t, 0)
<1>1. Return(Emit(sb, t), c)
  BY DEF Writes, Return
<1>2. Api!Meant(c, Text(sb), Text(sb) \o t)
  BY AddMeans
<1>3. CASE t # <<>>
  <2>1. Closed(Emit(sb, t), Text(sb) \o t)
    BY <1>3, EmitAdds DEF StrbufInv
  <2> HIDE DEF c
  <2> QED
    BY <1>1, <1>2, <2>1, ReturnsClosed
<1>4. CASE t = <<>>
  <2>1. sb' = sb /\ call' = c /\ reading' = reading
    <3>1. Emit(sb, t) = sb
      BY <1>4, EmitAdds DEF StrbufInv
    <3> QED
      BY <1>1, <3>1 DEF Return
  <2>2. Text(sb) \o t = Text(sb)
    BY <1>4, TextIs, ConcatEmptySeq DEF StrbufInv
  <2>3. Api!Meant(call', Text(sb), Text(sb'))
    BY <1>2, <2>1, <2>2, Zenon
  <2>4. TerminatorKept
    BY <2>1 DEF TerminatorKept, Terminated
  <2> QED
    BY <2>1, <2>3, <2>4 DEF Returns, StrbufInv
<1> QED
  BY <1>3, <1>4

\* What was unquoted is cut off again.
LEMMA CutBack ==
  ASSUME StrbufInv, NEW t \in Seq(Cells)
  PROVE  Closed(SetLen(Emit(sb, t), sb.len), Text(sb))
<1>1. PICK s : s = Emit(sb, t)
  OBVIOUS
<1>2. Buffer(s) /\ Text(s) = Text(sb) \o t
  BY <1>1, EmitAdds DEF StrbufInv
<1>3. PICK x \in Seq(Cells), n \in Nat : x = Text(sb) /\ Len(x) = n /\ n = sb.len
  BY TextIs, Sizes DEF StrbufInv
<1>4. PICK w \in Seq(Cells), m \in Nat :
        /\ w = Text(s) /\ Len(w) = m /\ m = s.len
        /\ n <= m /\ \A i \in 1..n : w[i] = x[i]
  <2>1. Text(s) \in Seq(Cells) /\ Len(Text(s)) = s.len /\ s.len \in Nat
    BY <1>2, TextIs, Sizes
  <2>2. /\ Len(x \o t) = Len(x) + Len(t) /\ Len(t) \in Nat
        /\ \A i \in 1..Len(x) : (x \o t)[i] = x[i]
    BY ConcatAt
  <2>3. Len(Text(s)) = n + Len(t) /\ \A i \in 1..n : Text(s)[i] = x[i]
    BY <1>2, <1>3, <2>2, Zenon
  <2>4. n <= s.len
    BY <2>1, <2>2, <2>3
  <2> QED
    BY <2>1, <2>3, <2>4, Zenon
<1>5. Closed(SetLen(s, n), SubSeq(w, 1, n))
  BY <1>2, <1>4, SetLenShortens
<1>6. SubSeq(w, 1, n) = x
  <2>1. 1 \in 1..(m + 1) /\ n \in (1 - 1)..m /\ n - 1 + 1 = n
    BY <1>4
  <2>2. /\ SubSeq(w, 1, n) \in Seq(Cells) /\ Len(SubSeq(w, 1, n)) = n - 1 + 1
        /\ \A k \in 1..(n - 1 + 1) : SubSeq(w, 1, n)[k] = w[1 + k - 1]
    BY <1>4, <2>1, Parts
  <2>3. PICK v \in Seq(Cells) :
          v = SubSeq(w, 1, n) /\ Len(v) = n /\ \A k \in 1..n : v[k] = w[1 + k - 1]
    BY <2>1, <2>2, Zenon
  <2>4. \A k \in 1..n : 1 + k - 1 = k
    OBVIOUS
  <2>5. \A k \in 1..n : v[k] = x[k]
    BY <1>4, <2>3, <2>4
  <2>6. v = x
    BY <1>3, <2>3, <2>5, SeqEqual
  <2> QED
    BY <2>3, <2>6, Zenon
<1> QED
  BY <1>1, <1>3, <1>5, <1>6, Zenon

LEMMA UnquotedCells ==
  ASSUME NEW q \in Quotations
  PROVE  Unquoted(q).out \in Seq(Cells)
<1>1. Nul = 0 /\ Bytes = 1..255 /\ q \in Seq(1..255)
  BY QuoteAssumption
<1>2. Unquoted(q).out \in Seq(0..255)
  BY <1>1, UnquotedIsText DEF Ended
<1>3. 0..255 \subseteq Cells
  BY <1>1 DEF Cells
<1> QED
  BY <1>2, <1>3, SeqMonotonic

LEMMA UnquoteReturns ==
  ASSUME StrbufInv, NEW q \in Quotations, UnquoteCStyle(q)
  PROVE  /\ Returns
         /\ ~Unquoted(q).ok => Text(sb') = Text(sb) /\ Terminated'
<1>1. PICK t \in Seq(Cells) : t = Unquoted(q).out
  BY UnquotedCells
<1>2. /\ ~reading.on
      /\ IF Unquoted(q).ok THEN Writes(Emit(sb, t), t)
         ELSE Writes(SetLen(Emit(sb, t), sb.len), <<>>)
  BY <1>1, Zenon DEF UnquoteCStyle, Ready, Idle
<1>3. CASE Unquoted(q).ok
  BY <1>2, <1>3, WritesReturns
<1>4. CASE ~Unquoted(q).ok
  <2> DEFINE c == Call("add", 0, 0, <<>>, 0)
  <2>1. PICK r : r = SetLen(Emit(sb, t), sb.len)
    OBVIOUS
  <2>2. Closed(r, Text(sb)) /\ Return(r, c)
    BY <1>2, <1>4, <2>1, CutBack, Zenon DEF Writes, Return
  <2>3. Api!Meant(c, Text(sb), Text(sb))
    <3>1. Text(sb) \o <<>> = Text(sb)
      BY TextIs, ConcatEmptySeq DEF StrbufInv
    <3>2. Api!Meant(c, Text(sb), Text(sb) \o <<>>)
      BY AddMeans
    <3> QED
      BY <3>1, <3>2, Zenon
  <2> HIDE DEF c
  <2>4. Returns
    BY <1>2, <2>2, <2>3, ReturnsClosed
  <2>5. sb' = r /\ Text(r) = Text(sb) /\ r.buf[r.len] = Nul
    BY <2>2 DEF Closed, Return
  <2>6. Text(sb') = Text(sb) /\ Terminated'
    BY <2>5, Zenon DEF Terminated, Text
  <2> QED
    BY <2>4, <2>6
<1> QED
  BY <1>3, <1>4

LEMMA QuoteArgvReturns ==
  ASSUME StrbufInv, NEW args \in Lists, NEW maxlen, SqQuoteArgv(args, maxlen)
  PROVE  Returns
<1>1. PICK t \in Seq(Cells) : t = SqQuotedArgv(args)
  <2>1. args \in Seq(Seq(1..255))
    BY QuoteAssumption
  <2> QED
    BY <2>1, SqQuotedArgvIsText, Texts_
<1>2. /\ ~reading.on
      /\ \/ call' = Call("die", 0, 0, <<>>, 0) /\ UNCHANGED <<sb, reading>>
         \/ Writes(Emit(Grow(sb, ArgvRoom), t), t)
  BY <1>1 DEF SqQuoteArgv, Ready, Idle
<1>3. CASE call' = Call("die", 0, 0, <<>>, 0) /\ UNCHANGED <<sb, reading>>
  <2>1. Api!Meant(call', Text(sb), Text(sb))
    BY <1>3 DEF Api!Meant, Call
  <2>2. Terminated' = Terminated
    BY <1>3 DEF Terminated
  <2> QED
    BY <1>2, <1>3, <2>1, <2>2 DEF Returns, TerminatorKept, StrbufInv
<1>4. CASE Writes(Emit(Grow(sb, ArgvRoom), t), t)
  <2> DEFINE c == Call("add", 0, 0, t, 0)
  <2>1. PICK g : g = Grow(sb, ArgvRoom)
    OBVIOUS
  <2>2. ArgvRoom \in Nat /\ Buffer(g) /\ Text(g) = Text(sb)
    BY <2>1, QuoteAssumption, GrowKeeps DEF StrbufInv
  <2>3. Return(Emit(g, t), c)
    BY <1>4, <2>1, Zenon DEF Writes, Return
  <2>4. Api!Meant(c, Text(sb), Text(sb) \o t)
    BY AddMeans
  <2>5. CASE t # <<>>
    <3>1. Closed(Emit(g, t), Text(sb) \o t)
      BY <2>2, <2>5, EmitAdds
    <3> HIDE DEF c
    <3> QED
      BY <1>2, <2>3, <2>4, <3>1, ReturnsClosed
  <2>6. CASE t = <<>>
    <3>1. Emit(g, t) = g
      BY <2>2, <2>6, EmitAdds
    <3>2. Text(sb) \o t = Text(sb)
      BY <2>6, TextIs, ConcatEmptySeq DEF StrbufInv
    <3>3. c.op = "add" /\ c.data = <<>>
      BY <2>6 DEF Call
    <3> HIDE DEF c
    <3>4. Return(Grow(sb, ArgvRoom), c) /\ Api!Meant(c, Text(sb), Text(sb))
      BY <2>1, <2>3, <2>4, <3>1, <3>2, Zenon
    <3> QED
      BY <1>2, <2>2, <3>3, <3>4, GrowReturns
  <2> QED
    BY <2>5, <2>6
<1> QED
  BY <1>2, <1>3, <1>4

LEMMA RelativeReturns ==
  ASSUME StrbufInv, NEW in \in Files, NEW prefix \in Directories,
         QuotePathRelative(in, prefix)
  PROVE  Returns
<1>1. in \in Seq(1..255) /\ prefix \in Seq(1..255)
  BY QuoteAssumption
<1> DEFINE rel == CStyle(PathRelative(in, prefix), FALSE)
<1>2. PICK t \in Seq(Cells) : t # <<>> /\ t = IF rel = <<>> THEN <<46, Slash>> ELSE rel
  <2>1. rel \in Seq(1..255) /\ <<46, Slash>> \in Seq(1..255)
    <3>1. PathRelative(in, prefix) \in Seq(1..255) /\ FALSE \in BOOLEAN
      BY <1>1, PathRelativeIsText
    <3>2. rel \in Seq(1..255)
      BY <3>1, CStyleIsText, Zenon
    <3>3. <<46, Slash>> \in Seq(1..255)
      BY DEF Slash
    <3> QED
      BY <3>2, <3>3, Zenon
  <2> HIDE DEF rel
  <2>2. rel \in Seq(Cells) /\ <<46, Slash>> \in Seq(Cells)
    BY <2>1, Texts_, Zenon
  <2>3. <<46, Slash>> # <<>>
    OBVIOUS
  <2> QED
    BY <2>2, <2>3, Zenon
<1> DEFINE c == Call("attach", 0, 0, t, 0)
<1>3. ~reading.on /\ Return(Emit(SetLen(sb, 0), t), c)
  BY <1>2, Zenon DEF QuotePathRelative, Ready, Idle, Return
<1>4. Buffer(SetLen(sb, 0)) /\ Text(SetLen(sb, 0)) = <<>>
  <2>1. 0 \in Nat /\ 0 <= sb.len
    BY Sizes DEF StrbufInv
  <2>2. Closed(SetLen(sb, 0), SubSeq(Text(sb), 1, 0))
    BY <2>1, SetLenShortens DEF StrbufInv
  <2> QED
    BY <2>2, TextIs, SubSeqEmpty DEF Closed, StrbufInv
<1>5. Closed(Emit(SetLen(sb, 0), t), t)
  <2>1. Closed(Emit(SetLen(sb, 0), t), Text(SetLen(sb, 0)) \o t)
    BY <1>2, <1>4, EmitAdds
  <2>2. <<>> \o t = t
    BY ConcatEmptySeq
  <2> QED
    BY <1>4, <2>1, <2>2, Zenon
<1>6. Api!Meant(c, Text(sb), t)
  BY DEF Api!Meant, Call
<1> HIDE DEF c
<1> QED
  BY <1>3, <1>5, <1>6, ReturnsClosed

LEMMA QuotePromised ==
  ASSUME StrbufInv, QuoteNext
  PROVE  Promised
<1>1. Names \subseteq Seq(1..255)
  BY QuoteAssumption
<1>2. ASSUME NEW name \in Names, QuoteCStyle(name)
      PROVE  Promised
  <2>1. PICK t \in Seq(Cells) : t = CStyle(name, FALSE)
    BY <1>1, CStyleIsText, Texts_
  <2>2. ~reading.on /\ Writes(Emit(sb, t), t)
    BY <1>2, <2>1, Zenon DEF QuoteCStyle, Ready, Idle
  <2> QED
    BY <2>2, WritesReturns, ReturnsPromised
<1>3. ASSUME NEW name \in Names, NEW path \in Names, QuoteTwoCStyle(name, path)
      PROVE  Promised
  <2>1. PICK t \in Seq(Cells) : t = TwoCStyle(name, path)
    BY <1>1, TwoCStyleIsText, Texts_
  <2>2. ~reading.on /\ Writes(Emit(sb, t), t)
    BY <1>3, <2>1, Zenon DEF QuoteTwoCStyle, Ready, Idle
  <2> QED
    BY <2>2, WritesReturns, ReturnsPromised
<1>4. ASSUME NEW q \in Quotations, UnquoteCStyle(q)
      PROVE  Promised
  BY <1>4, UnquoteReturns, ReturnsPromised
<1>5. ASSUME NEW args \in Lists, NEW maxlen \in {0, MaxLen}, SqQuoteArgv(args, maxlen)
      PROVE  Promised
  BY <1>5, QuoteArgvReturns, ReturnsPromised
<1>6. ASSUME NEW q \in ShellTexts, SqDequote(q) \/ SqDequoteToArgv(q)
      PROVE  Promised
  <2>1. UNCHANGED strbufVars
    BY <1>6 DEF SqDequote, SqDequoteToArgv
  <2> QED
    BY <2>1, StutterPromised
<1>7. ASSUME NEW in \in Files, NEW prefix \in Directories, QuotePathRelative(in, prefix)
      PROVE  Promised
  BY <1>7, RelativeReturns, ReturnsPromised
<1> QED
  BY <1>2, <1>3, <1>4, <1>5, <1>6, <1>7, Zenon DEF QuoteNext

LEMMA QuoteStepPromised ==
  ASSUME StrbufInv, [(StrbufNext /\ UNCHANGED quoted) \/ QuoteNext]_quoteVars
  PROVE  Promised
<1>1. UNCHANGED quoteVars => UNCHANGED strbufVars
  BY DEF quoteVars
<1> QED
  BY <1>1, StepPromised, QuotePromised, StutterPromised

LEMMA UnquoteUndoes ==
  ASSUME StrbufInv, (StrbufNext /\ UNCHANGED quoted) \/ QuoteNext
  PROVE  quoted' # quoted /\ quoted'.fn = "unquote" /\ ~quoted'.ok
           => Text(sb') = Text(sb) /\ Terminated'
<1> SUFFICES ASSUME quoted' # quoted, quoted'.fn = "unquote", ~quoted'.ok
             PROVE  Text(sb') = Text(sb) /\ Terminated'
  OBVIOUS
<1>1. ASSUME NEW q \in Quotations, UnquoteCStyle(q)
      PROVE  Text(sb') = Text(sb) /\ Terminated'
  <2>1. quoted' = Quoted("unquote", q, <<>>, Unquoted(q).ok, Unquoted(q).out)
    BY <1>1 DEF UnquoteCStyle
  <2>2. ~Unquoted(q).ok
    BY <2>1 DEF Quoted
  <2> QED
    BY <1>1, <2>2, UnquoteReturns
<1>2. ASSUME NEW name \in Names, QuoteCStyle(name)
      PROVE  FALSE
  <2>1. quoted'.fn = "c"
    BY <1>2 DEF QuoteCStyle, Quoted
  <2> QED
    BY <2>1
<1>3. ASSUME NEW name \in Names, NEW path \in Names, QuoteTwoCStyle(name, path)
      PROVE  FALSE
  <2>1. quoted'.fn = "two"
    BY <1>3 DEF QuoteTwoCStyle, Quoted
  <2> QED
    BY <2>1
<1>4. ASSUME NEW args \in Lists, NEW maxlen \in {0, MaxLen}, SqQuoteArgv(args, maxlen)
      PROVE  FALSE
  <2>1. quoted'.fn = "argv" \/ UNCHANGED quoted
    BY <1>4 DEF SqQuoteArgv, Quoted
  <2> QED
    BY <2>1
<1>5. ASSUME NEW q \in ShellTexts, SqDequote(q) \/ SqDequoteToArgv(q)
      PROVE  FALSE
  <2>1. CASE SqDequote(q)
    <3>1. quoted'.fn = "dequote"
      BY <2>1 DEF SqDequote, Quoted
    <3> QED
      BY <3>1
  <2>2. CASE SqDequoteToArgv(q)
    <3>1. quoted'.fn = "dequote_argv"
      BY <2>2 DEF SqDequoteToArgv, Quoted
    <3> QED
      BY <3>1
  <2> QED
    BY <1>5, <2>1, <2>2
<1>6. ASSUME NEW in \in Files, NEW prefix \in Directories, QuotePathRelative(in, prefix)
      PROVE  FALSE
  <2>1. quoted'.fn = "relative"
    BY <1>6 DEF QuotePathRelative, Quoted
  <2> QED
    BY <2>1
<1> QED
  BY <1>1, <1>2, <1>3, <1>4, <1>5, <1>6, Zenon DEF QuoteNext

(***************************************************************************)
(* With the quoting functions called among those of strbuf.c, the buffer   *)
(* stays well-formed.                                                      *)
(***************************************************************************)
THEOREM QuotingKeepsBuffers == QuoteSpec => []StrbufTypeOK
<1>1. StrbufInit => StrbufInv
  BY InitSound
<1>2. StrbufInv /\ [(StrbufNext /\ UNCHANGED quoted) \/ QuoteNext]_quoteVars => StrbufInv'
  BY QuoteStepPromised DEF Promised
<1>3. StrbufInv => StrbufTypeOK
  BY InvIsTypeOK
<1> QED
  BY <1>1, <1>2, <1>3, PTL DEF QuoteSpec

(***************************************************************************)
(* sq_quote_argv of no arguments is the only quoting function that can     *)
(* leave a buffer unterminated, and only one that never grew.              *)
(***************************************************************************)
THEOREM QuotingKeepsTerminator == QuoteSpec => TerminatorStays
<1>1. StrbufInit => StrbufInv
  BY InitSound
<1>2. StrbufInv /\ [(StrbufNext /\ UNCHANGED quoted) \/ QuoteNext]_quoteVars
        => StrbufInv' /\ TerminatorKept
  BY QuoteStepPromised DEF Promised
<1>3. TerminatorKept =>
        [Terminated /\ ~Terminated' =>
           /\ sb.alloc = 0 /\ sb'.len = 0
           /\ call'.op \in {"feof", "add"} /\ call'.data = <<>>]_strbufVars
  BY DEF TerminatorKept
<1> QED
  BY <1>1, <1>2, <1>3, PTL DEF QuoteSpec, TerminatorStays

(***************************************************************************)
(* Every call that quotes does to the text of the buffer what strbuf.c     *)
(* promises of the functions it writes with.                               *)
(***************************************************************************)
THEOREM QuotingImplementsApi == QuoteSpec => ImplementsApi
<1>1. StrbufInit => StrbufInv /\ Api!ApiInit
  BY InitSound DEF Api!ApiInit, Shown
<1>2. StrbufInv /\ [(StrbufNext /\ UNCHANGED quoted) \/ QuoteNext]_quoteVars
        => StrbufInv' /\ [Api!ApiNext]_<<Shown, call>>
  BY QuoteStepPromised DEF Promised, Api!ApiNext, Shown
<1> QED
  BY <1>1, <1>2, PTL DEF QuoteSpec, ImplementsApi, Api!ApiSpec, Shown

(***************************************************************************)
(* unquote_c_style that fails leaves the text of the buffer as it was,     *)
(* whatever was unquoted before the error.                                 *)
(***************************************************************************)
THEOREM UnquotingIsUndone == QuoteSpec => UnquoteUndone
<1>1. StrbufInit => StrbufInv
  BY InitSound
<1>2. StrbufInv /\ [(StrbufNext /\ UNCHANGED quoted) \/ QuoteNext]_quoteVars => StrbufInv'
  BY QuoteStepPromised DEF Promised
<1>3. StrbufInv /\ [(StrbufNext /\ UNCHANGED quoted) \/ QuoteNext]_quoteVars
        => [quoted' # quoted /\ quoted'.fn = "unquote" /\ ~quoted'.ok =>
              Text(sb') = Text(sb) /\ Terminated']_quoteVars
  BY UnquoteUndoes
<1> QED
  BY <1>1, <1>2, <1>3, PTL DEF QuoteSpec, UnquoteUndone

-----------------------------------------------------------------------------
(***************************************************************************)
(* Arguments quoted for the shell.                                         *)
(***************************************************************************)
LEMMA SpacesAre ==
  /\ Nul \notin Spaces /\ Quote \notin Spaces /\ Backslash \notin Spaces
  /\ Blank \in Spaces /\ Bang \notin Spaces
BY QuoteAssumption DEF Quote, Backslash, Blank, Bang

LEMMA NextArgIs ==
  ASSUME NEW q \in Seq(1..255), Nul = 0, NEW i \in 1..Len(q)
  PROVE  /\ NextArg(q, i) \in (i + 1)..(Len(q) + 1)
         /\ At(q, i + 1) \notin Spaces => NextArg(q, i) = i + 1
<1>1. PICK n \in Nat : n = Len(q) /\ i \in 1..n
  BY LenProperties
<1> DEFINE Ends(j) == /\ At(q, j) \notin Spaces
                      /\ \A k \in (i + 1)..(j - 1) : At(q, k) \in Spaces
<1>2. \E j \in (i + 1)..(n + 1) : Ends(j)
  <2> DEFINE T == {j \in Nat : j > i /\ At(q, j) \notin Spaces}
  <2>1. n + 1 \in T
    <3>1. At(q, n + 1) = 0
      BY <1>1 DEF At
    <3> QED
      BY <1>1, <3>1, SpacesAre
  <2>2. PICK m \in T : \A k \in T : m <= k
    <3>1. T \in SUBSET Nat /\ T # {}
      BY <2>1
    <3> HIDE DEF T
    <3> QED
      BY <3>1, Least
  <2>3. m <= n + 1
    BY <2>1, <2>2
  <2>4. m \in (i + 1)..(n + 1)
    BY <1>1, <2>3
  <2>5. ASSUME NEW k \in (i + 1)..(m - 1)
        PROVE  At(q, k) \in Spaces
    <3>1. k \in Nat /\ k > i /\ ~(m <= k)
      BY <1>1, <2>4
    <3>2. k \notin T
      BY <2>2, <3>1, Zenon
    <3> QED
      BY <3>1, <3>2
  <2> QED
    BY <2>4, <2>5
<1>3. NextArg(q, i) \in (i + 1)..(n + 1) /\ Ends(NextArg(q, i))
  BY <1>1, <1>2, Zenon DEF NextArg
<1>4. ASSUME At(q, i + 1) \notin Spaces
      PROVE  NextArg(q, i) = i + 1
  <2>1. i + 1 \notin (i + 1)..(NextArg(q, i) - 1)
    BY <1>3, <1>4, Zenon
  <2> QED
    BY <1>1, <1>3, <2>1
<1> QED
  BY <1>1, <1>3, <1>4

\* The last round of a loop over n positions, at position i.
LastOf(u, i, n) ==
  /\ u \in [out : {<<>>}, then : {0}, ok : BOOLEAN, next : 0..n]
  /\ u.next = 0 \/ u.next > i

LEMMA LastRoundIs ==
  ASSUME NEW i, NEW n \in Nat
  PROVE  LastOf(LastRound(FALSE, 0), i, n) /\ LastOf(LastRound(TRUE, 0), i, n)
BY DEF LastOf, LastRound

LEMMA OutOfQuotesIs ==
  ASSUME NEW q \in Seq(1..255), Nul = 0, NEW i \in Nat \ {0}, NEW many \in BOOLEAN
  PROVE  LastOf(OutOfQuotes(q, i, many), i, Len(q) + 1)
<1>1. PICK n \in Nat : n = Len(q)
  BY LenProperties
<1>2. CASE many /\ At(q, i) \in Spaces
  <2>1. i \in 1..n
    BY <1>1, <1>2, AtIs, SpacesAre
  <2>2. PICK j \in (i + 1)..(n + 1) : j = NextArg(q, i)
    BY <1>1, <2>1, NextArgIs
  <2>3. OutOfQuotes(q, i, many) = LastRound(TRUE, j)
    BY <1>2, <2>2, Zenon DEF OutOfQuotes
  <2>4. LastOf(LastRound(TRUE, j), i, n + 1)
    BY <2>1, <2>2 DEF LastOf, LastRound
  <2> QED
    BY <1>1, <2>3, <2>4, Zenon
<1>3. CASE ~(many /\ At(q, i) \in Spaces)
  <2>1. OutOfQuotes(q, i, many) = LastRound(FALSE, 0)
    BY <1>3, Zenon DEF OutOfQuotes
  <2>2. Len(q) + 1 \in Nat
    BY <1>1
  <2> QED
    BY <2>1, <2>2, LastRoundIs, Zenon
<1> QED
  BY <1>2, <1>3

\* What a round does, case by case.
LEMMA SqRoundIs ==
  ASSUME NEW q, NEW i \in Nat \ {0}, NEW many, Nul = 0
  PROVE  /\ At(q, i) = 0 => SqDequoteRound(q, i, many) = LastRound(FALSE, 0)
         /\ At(q, i) \notin {0, Quote} => SqDequoteRound(q, i, many) = Round(q[i], i + 1)
         /\ At(q, i) = Quote =>
              /\ At(q, i + 1) = 0 => SqDequoteRound(q, i, many) = LastRound(TRUE, 0)
              /\ At(q, i + 1) \notin {0, Backslash} =>
                   SqDequoteRound(q, i, many) = OutOfQuotes(q, i + 1, many)
              /\ At(q, i + 1) = Backslash =>
                   /\ ~NeedBsQuote(At(q, i + 2)) =>
                        SqDequoteRound(q, i, many) = OutOfQuotes(q, i + 2, many)
                   /\ NeedBsQuote(At(q, i + 2)) /\ At(q, i + 3) = Quote =>
                        SqDequoteRound(q, i, many) = Round(q[i + 2], i + 4)
                   /\ NeedBsQuote(At(q, i + 2)) /\ At(q, i + 3) # Quote =>
                        SqDequoteRound(q, i, many) = OutOfQuotes(q, i + 3, many)
<1>1. Quote # 0 /\ Backslash # 0
  BY DEF Quote, Backslash
<1>2. At(q, i) = 0 => SqDequoteRound(q, i, many) = LastRound(FALSE, 0)
  BY <1>1, Zenon DEF SqDequoteRound
<1>3. At(q, i) \notin {0, Quote} => SqDequoteRound(q, i, many) = Round(q[i], i + 1)
  BY Zenon DEF SqDequoteRound
<1>4. ASSUME At(q, i) = Quote
      PROVE  SqDequoteRound(q, i, many) = QuoteRound(q, i, many)
  BY <1>1, <1>4, Zenon DEF SqDequoteRound
<1>5. /\ At(q, i + 1) = 0 => QuoteRound(q, i, many) = LastRound(TRUE, 0)
      /\ At(q, i + 1) \notin {0, Backslash} =>
           QuoteRound(q, i, many) = OutOfQuotes(q, i + 1, many)
  BY <1>1, Zenon DEF QuoteRound
<1>6. ASSUME At(q, i + 1) = Backslash
      PROVE  QuoteRound(q, i, many)
               = IF ~NeedBsQuote(At(q, i + 2)) THEN OutOfQuotes(q, i + 2, many)
                 ELSE IF At(q, i + 3) = Quote THEN Round(q[i + 2], i + 4)
                 ELSE OutOfQuotes(q, i + 3, many)
  BY <1>1, <1>6, Zenon DEF QuoteRound
<1>7. ASSUME At(q, i) = Quote, At(q, i + 1) = Backslash
      PROVE  /\ ~NeedBsQuote(At(q, i + 2)) =>
                  SqDequoteRound(q, i, many) = OutOfQuotes(q, i + 2, many)
             /\ NeedBsQuote(At(q, i + 2)) /\ At(q, i + 3) = Quote =>
                  SqDequoteRound(q, i, many) = Round(q[i + 2], i + 4)
             /\ NeedBsQuote(At(q, i + 2)) /\ At(q, i + 3) # Quote =>
                  SqDequoteRound(q, i, many) = OutOfQuotes(q, i + 3, many)
  BY <1>4, <1>6, <1>7, Zenon
<1> QED
  BY <1>2, <1>3, <1>4, <1>5, <1>7, Zenon

LEMMA SqRoundAhead ==
  ASSUME NEW q \in Seq(1..255), Nul = 0, NEW many \in BOOLEAN, NEW i \in 1..(Len(q) + 1)
  PROVE  \/ LastOf(SqDequoteRound(q, i, many), i, Len(q) + 1)
         \/ \E c \in 1..255, t \in (i + 1)..(Len(q) + 1) : SqDequoteRound(q, i, many) = Round(c, t)
<1> DEFINE u == SqDequoteRound(q, i, many)
<1>1. PICK n \in Nat : n = Len(q) /\ i \in 1..(n + 1) /\ i \in Nat \ {0}
  <2>1. Len(q) \in Nat
    BY LenProperties
  <2> QED
    BY <2>1
<1>2. ASSUME NEW k \in 0..3
      PROVE  /\ At(q, i + k) # 0 => i + k \in 1..n /\ At(q, i + k) = q[i + k]
                                    /\ q[i + k] \in 1..255
             /\ LastOf(OutOfQuotes(q, i + k, many), i + k, n + 1)
  <2>1. i + k \in Nat \ {0}
    BY <1>1
  <2> QED
    BY <1>1, <2>1, AtIs, OutOfQuotesIs
<1>3. ASSUME NEW w, NEW k \in 0..3, LastOf(w, i + k, n + 1)
      PROVE  LastOf(w, i, n + 1)
  <2>1. w \in [out : {<<>>}, then : {0}, ok : BOOLEAN, next : 0..(n + 1)]
        /\ (w.next = 0 \/ w.next > i + k)
    BY <1>3 DEF LastOf
  <2>2. w.next \in 0..(n + 1)
    BY <2>1
  <2>3. w.next > i + k => w.next > i
    BY <1>1, <2>2
  <2> QED
    BY <2>1, <2>3 DEF LastOf
<1>4. LastOf(LastRound(FALSE, 0), i, n + 1) /\ LastOf(LastRound(TRUE, 0), i, n + 1)
  <2>1. n + 1 \in Nat
    OBVIOUS
  <2> QED
    BY <2>1, LastRoundIs, Zenon
<1>5. CASE At(q, i) = 0
  <2>1. u = LastRound(FALSE, 0)
    BY <1>1, <1>5, SqRoundIs, Zenon
  <2> QED
    BY <1>1, <1>4, <2>1, Zenon
<1>6. CASE At(q, i) \notin {0, Quote}
  <2>1. u = Round(q[i], i + 1)
    BY <1>1, <1>6, SqRoundIs, Zenon
  <2>2. 0 \in 0..3 /\ i + 0 = i
    BY <1>1
  <2>3. i \in 1..n /\ q[i] \in 1..255
    BY <1>2, <1>6, <2>2
  <2>4. i + 1 \in (i + 1)..(n + 1)
    BY <2>3
  <2> QED
    BY <1>1, <2>1, <2>3, <2>4, Zenon
<1>7. CASE At(q, i) = Quote
  <2>1. CASE At(q, i + 1) = 0
    <3>1. u = LastRound(TRUE, 0)
      BY <1>1, <1>7, <2>1, SqRoundIs, Zenon
    <3> QED
      BY <1>1, <1>4, <3>1, Zenon
  <2>2. CASE At(q, i + 1) \notin {0, Backslash}
    <3>1. u = OutOfQuotes(q, i + 1, many)
      BY <1>1, <1>7, <2>2, SqRoundIs, Zenon
    <3>2. 1 \in 0..3
      OBVIOUS
    <3>3. LastOf(OutOfQuotes(q, i + 1, many), i + 1, n + 1)
      BY <1>2, <3>2
    <3>4. LastOf(OutOfQuotes(q, i + 1, many), i, n + 1)
      BY <1>3, <3>2, <3>3
    <3> QED
      BY <1>1, <3>1, <3>4, Zenon
  <2>3. CASE At(q, i + 1) = Backslash
    <3>1. CASE ~NeedBsQuote(At(q, i + 2))
      <4>1. u = OutOfQuotes(q, i + 2, many)
        BY <1>1, <1>7, <2>3, <3>1, SqRoundIs, Zenon
      <4>2. 2 \in 0..3
        OBVIOUS
      <4>3. LastOf(OutOfQuotes(q, i + 2, many), i + 2, n + 1)
        BY <1>2, <4>2
      <4>4. LastOf(OutOfQuotes(q, i + 2, many), i, n + 1)
        BY <1>3, <4>2, <4>3
      <4> QED
        BY <1>1, <4>1, <4>4, Zenon
    <3>2. CASE NeedBsQuote(At(q, i + 2)) /\ At(q, i + 3) = Quote
      <4>1. u = Round(q[i + 2], i + 4)
        BY <1>1, <1>7, <2>3, <3>2, SqRoundIs, Zenon
      <4>2. At(q, i + 2) # 0 /\ At(q, i + 3) # 0 /\ 2 \in 0..3 /\ 3 \in 0..3
        BY <3>2 DEF NeedBsQuote, Quote, Bang
      <4>3. q[i + 2] \in 1..255 /\ i + 3 \in 1..n
        BY <1>2, <4>2
      <4>4. i + 4 \in (i + 1)..(n + 1)
        BY <1>1, <4>3
      <4> QED
        BY <1>1, <4>1, <4>3, <4>4, Zenon
    <3>3. CASE NeedBsQuote(At(q, i + 2)) /\ At(q, i + 3) # Quote
      <4>1. u = OutOfQuotes(q, i + 3, many)
        BY <1>1, <1>7, <2>3, <3>3, SqRoundIs, Zenon
      <4>2. 3 \in 0..3
        OBVIOUS
      <4>3. LastOf(OutOfQuotes(q, i + 3, many), i + 3, n + 1)
        BY <1>2, <4>2
      <4>4. LastOf(OutOfQuotes(q, i + 3, many), i, n + 1)
        BY <1>3, <4>2, <4>3
      <4> QED
        BY <1>1, <4>1, <4>4, Zenon
    <3> QED
      BY <3>1, <3>2, <3>3
  <2> QED
    BY <2>1, <2>2, <2>3
<1> QED
  BY <1>5, <1>6, <1>7

SqRounds(q, many) == [i \in 1..(Len(q) + 1) |-> SqDequoteRound(q, i, many)]

LEMMA SqAhead ==
  ASSUME NEW q \in Seq(1..255), Nul = 0, NEW many \in BOOLEAN
  PROVE  /\ Ahead(SqRounds(q, many), 0..255, Len(q) + 1)
         /\ \A i \in 1..(Len(q) + 1) :
              /\ SqRounds(q, many)[i] = SqDequoteRound(q, i, many)
              /\ SqRounds(q, many)[i].then = 0 => LastOf(SqRounds(q, many)[i], i, Len(q) + 1)
<1>1. PICK n \in Nat : n = Len(q) + 1
  BY LenProperties
<1> DEFINE R == [out : Seq(0..255), then : 0..n, ok : BOOLEAN, next : Nat]
           r == SqRounds(q, many)
<1>2. ASSUME NEW i \in 1..n
      PROVE  r[i] = SqDequoteRound(q, i, many)
  BY <1>1, <1>2, Zenon DEF SqRounds
<1>3. ASSUME NEW i \in 1..n, NEW u, LastOf(u, i, n)
      PROVE  u \in R /\ u.then = 0
  <2>1. u \in [out : {<<>>}, then : {0}, ok : BOOLEAN, next : 0..n]
    BY <1>3 DEF LastOf
  <2>2. {<<>>} \subseteq Seq(0..255) /\ 0..n \subseteq Nat /\ {0} \subseteq 0..n
    BY EmptySeq
  <2>3. u = [out |-> u.out, then |-> u.then, ok |-> u.ok, next |-> u.next]
        /\ u.out \in {<<>>} /\ u.then \in {0} /\ u.ok \in BOOLEAN /\ u.next \in 0..n
    BY <2>1
  <2>4. u.out \in Seq(0..255) /\ u.then \in 0..n /\ u.next \in Nat /\ u.then = 0
    BY <2>2, <2>3
  <2> QED
    BY <2>3, <2>4
<1>4. ASSUME NEW i \in 1..n, NEW c \in 1..255, NEW t \in (i + 1)..n
      PROVE  Round(c, t) \in R /\ Round(c, t).then # 0 /\ Round(c, t).then > i
  <2>1. <<c>> \in Seq(0..255)
    OBVIOUS
  <2>2. t \in 0..n /\ t # 0 /\ t > i
    OBVIOUS
  <2> QED
    BY <2>1, <2>2 DEF Round
<1>5. ASSUME NEW i \in 1..n
      PROVE  /\ r[i] \in R /\ (r[i].then = 0 \/ r[i].then > i)
             /\ r[i].then = 0 => LastOf(r[i], i, n)
  <2>1. CASE LastOf(r[i], i, n)
    BY <1>3, <2>1, Zenon
  <2>2. CASE \E c \in 1..255, t \in (i + 1)..n : r[i] = Round(c, t)
    <3>1. PICK c \in 1..255, t \in (i + 1)..n : r[i] = Round(c, t)
      BY <2>2
    <3>2. Round(c, t) \in R /\ Round(c, t).then # 0 /\ Round(c, t).then > i
      BY <1>4
    <3> HIDE DEF r, R
    <3> QED
      BY <3>1, <3>2, Zenon
  <2>3. LastOf(r[i], i, n) \/ \E c \in 1..255, t \in (i + 1)..n : r[i] = Round(c, t)
    BY <1>1, <1>2, SqRoundAhead, ZenonT(60)
  <2> QED
    BY <2>1, <2>2, <2>3
<1>6. r \in [1..n -> R]
  <2>1. r = [i \in 1..n |-> r[i]]
    BY <1>1, Zenon DEF SqRounds
  <2> HIDE DEF r, R
  <2> QED
    BY <1>5, <2>1
<1>7. Ahead(r, 0..255, n)
  BY <1>5, <1>6, Zenon DEF Ahead
<1> QED
  BY <1>1, <1>2, <1>5, <1>7, Zenon

\* A loop ends with a round at or behind the position it starts at.
LEMMA ScannedLast ==
  ASSUME NEW r, NEW V, NEW n \in Nat, Ahead(r, V, n), NEW i \in 1..n
  PROVE  \E j \in i..n : /\ r[j].then = 0
                         /\ Scanned(r, i).ok = r[j].ok /\ Scanned(r, i).next = r[j].next
<1> DEFINE Ends(k) == \E j \in k..n : /\ r[j].then = 0
                                      /\ Scanned(r, k).ok = r[j].ok
                                      /\ Scanned(r, k).next = r[j].next
           T == {d \in 0..(n - 1) : ~Ends(n - d)}
<1>1. T = {}
  <2>1. SUFFICES ASSUME T # {}
                 PROVE  FALSE
    OBVIOUS
  <2>2. PICK d \in T : \A k \in T : d <= k
    <3>1. T \in SUBSET Nat
      OBVIOUS
    <3> HIDE DEF T
    <3> QED
      BY <2>1, <3>1, Least
  <2>3. d \in 0..(n - 1) /\ ~Ends(n - d)
    OBVIOUS
  <2>4. PICK m \in 1..n : m = n - d
    BY <2>3
  <2>5. r[m].then \in 0..n /\ (r[m].then = 0 \/ r[m].then > m)
    BY DEF Ahead
  <2>6. CASE r[m].then = 0
    <3>1. Scanned(r, m) = r[m]
      BY <2>6, ScannedFrom
    <3>2. m \in m..n
      OBVIOUS
    <3>3. Ends(m)
      BY <2>6, <3>1, <3>2
    <3> QED
      BY <2>3, <2>4, <3>3
  <2>7. CASE r[m].then # 0
    <3>1. PICK a \in 1..n : a = r[m].then /\ a > m
      BY <2>5, <2>7
    <3>2. n - a \in 0..(n - 1) /\ ~(d <= n - a) /\ n - (n - a) = a
      BY <2>3, <2>4, <3>1
    <3>3. n - a \notin T
      BY <2>2, <3>2, Zenon
    <3>4. PICK j \in a..n : /\ r[j].then = 0
                            /\ Scanned(r, a).ok = r[j].ok /\ Scanned(r, a).next = r[j].next
      BY <3>2, <3>3
    <3>5. Scanned(r, m) = [out |-> r[m].out \o Scanned(r, a).out, then |-> 0,
                           ok |-> Scanned(r, a).ok, next |-> Scanned(r, a).next]
      BY <2>7, <3>1, ScannedFrom
    <3>6. Scanned(r, m).ok = Scanned(r, a).ok /\ Scanned(r, m).next = Scanned(r, a).next
      BY <3>5
    <3>7. j \in m..n
      BY <3>1
    <3>8. Ends(m)
      BY <3>4, <3>6, <3>7
    <3> QED
      BY <2>3, <2>4, <3>8
  <2> QED
    BY <2>6, <2>7
<1>2. n - i \in 0..(n - 1) /\ n - (n - i) = i
  OBVIOUS
<1> QED
  BY <1>1, <1>2

LEMMA SqStepIs ==
  ASSUME NEW q \in Seq(1..255), Nul = 0, NEW many \in BOOLEAN, NEW i \in 1..(Len(q) + 1)
  PROVE  /\ SqDequotedStep(q, i, many) \in Ended(0..255)
         /\ SqDequotedStep(q, i, many).next \in {0} \cup (i + 1)..(Len(q) + 1)
         /\ At(q, i) = Quote =>
              SqDequotedStep(q, i, many) = Scanned(SqRounds(q, many), i + 1)
<1>1. PICK n \in Nat : n = Len(q) + 1 /\ i \in 1..n
  BY LenProperties
<1>2. CASE At(q, i) # Quote
  <2>1. SqDequotedStep(q, i, many) = LastRound(FALSE, 0)
    BY <1>2, Zenon DEF SqDequotedStep
  <2>2. LastRound(FALSE, 0) \in Ended(0..255) /\ LastRound(FALSE, 0).next = 0
    BY EmptySeq DEF LastRound, Ended
  <2> QED
    BY <1>2, <2>1, <2>2, Zenon
<1>3. CASE At(q, i) = Quote
  <2>1. PICK r : r = SqRounds(q, many)
    OBVIOUS
  <2>2. Ahead(r, 0..255, n) /\ \A j \in 1..n : r[j].then = 0 => LastOf(r[j], j, n)
    BY <1>1, <2>1, SqAhead, Zenon
  <2>3. PICK k \in 1..n : k = i + 1
    <3>1. At(q, i) # 0 /\ i \in Nat \ {0}
      BY <1>1, <1>3 DEF Quote
    <3>2. i \in 1..Len(q)
      BY <3>1, AtIs
    <3> QED
      BY <1>1, <3>2
  <2>4. SqDequotedStep(q, i, many) = Scanned(r, k)
    BY <1>3, <2>1, <2>3, Zenon DEF SqDequotedStep, SqRounds
  <2>5. Scanned(r, k) \in Ended(0..255)
    BY <2>2, ScannedEnds
  <2>6. PICK j \in k..n : r[j].then = 0 /\ Scanned(r, k).next = r[j].next
    BY <2>2, ScannedLast
  <2>7. r[j].next \in 0..n /\ (r[j].next = 0 \/ r[j].next > j)
    <3>1. j \in 1..n
      BY <1>1, <2>3
    <3> QED
      BY <2>2, <2>6, <3>1 DEF LastOf
  <2>8. r[j].next \in {0} \cup (i + 1)..n
    BY <1>1, <2>3, <2>7
  <2> QED
    BY <1>1, <2>1, <2>3, <2>4, <2>5, <2>6, <2>8, Zenon
<1> QED
  BY <1>2, <1>3

\* A text between two bytes c.
LEMMA WrappedAt ==
  ASSUME NEW S, NEW c \in S, NEW e \in Seq(S)
  PROVE  /\ <<c>> \o e \o <<c>> \in Seq(S)
         /\ Len(<<c>> \o e \o <<c>>) = Len(e) + 2
         /\ (<<c>> \o e \o <<c>>)[1] = c /\ (<<c>> \o e \o <<c>>)[Len(e) + 2] = c
         /\ \A j \in 1..Len(e) : (<<c>> \o e \o <<c>>)[1 + j] = e[j]
<1>1. PICK a \in Nat : a = Len(e)
  BY LenProperties
<1>2. PICK d \in Seq(S) : d = <<c>> /\ Len(d) = 1 /\ d[1] = c
  <2>1. <<c>> \in Seq(S) /\ Len(<<c>>) = 1 /\ <<c>>[1] = c
    OBVIOUS
  <2> QED
    BY <2>1, Zenon
<1>3. PICK v \in Seq(S) :
        /\ v = d \o e /\ Len(v) = 1 + a
        /\ v[1] = d[1]
        /\ \A j \in 1..a : v[1 + j] = e[j]
  <2>1. /\ d \o e \in Seq(S) /\ Len(d \o e) = Len(d) + Len(e)
        /\ \A i \in 1..Len(d) : (d \o e)[i] = d[i]
        /\ \A j \in 1..Len(e) : (d \o e)[Len(d) + j] = e[j]
    BY ConcatAt
  <2>2. 1 \in 1..Len(d)
    BY <1>2
  <2>3. WITNESS d \o e \in Seq(S)
  <2> QED
    BY <1>1, <1>2, <2>1, <2>2, Zenon
<1>4. PICK q \in Seq(S) :
        /\ q = v \o d /\ Len(q) = (1 + a) + 1
        /\ \A i \in 1..(1 + a) : q[i] = v[i]
        /\ q[(1 + a) + 1] = d[1]
  <2>1. /\ v \o d \in Seq(S) /\ Len(v \o d) = Len(v) + Len(d)
        /\ \A i \in 1..Len(v) : (v \o d)[i] = v[i]
        /\ \A j \in 1..Len(d) : (v \o d)[Len(v) + j] = d[j]
    BY ConcatAt
  <2>2. 1 \in 1..Len(d)
    BY <1>2
  <2>3. WITNESS v \o d \in Seq(S)
  <2> QED
    BY <1>2, <1>3, <2>1, <2>2, Zenon
<1>5. q = <<c>> \o e \o <<c>>
  BY <1>2, <1>3, <1>4, Zenon
<1>6. (1 + a) + 1 = a + 2 /\ 1 \in 1..(1 + a) /\ \A j \in 1..a : 1 + j \in 1..(1 + a)
  OBVIOUS
<1>7. q[1] = c /\ q[a + 2] = c /\ Len(q) = a + 2 /\ \A j \in 1..a : q[1 + j] = e[j]
  BY <1>2, <1>3, <1>4, <1>6
<1> QED
  BY <1>1, <1>5, <1>7, Zenon

ShellPiece(c) == IF NeedBsQuote(c) THEN <<Quote, Backslash, c, Quote>> ELSE <<c>>
ShellPieces(name) == [i \in DOMAIN name |-> ShellPiece(name[i])]

LEMMA ShellPiecesAre ==
  ASSUME NEW V, Quote \in V, Backslash \in V, NEW name \in Seq(V)
  PROVE  /\ ShellPieces(name) \in Seq(Seq(V))
         /\ Len(ShellPieces(name)) = Len(name)
         /\ \A k \in 1..Len(name) : ShellPieces(name)[k] = ShellPiece(name[k])
<1> DEFINE ps == ShellPieces(name)
<1>1. PICK l \in Nat : l = Len(name) /\ DOMAIN name = 1..l
  BY LenProperties
<1>2. \A k \in 1..l : name[k] \in V
  BY <1>1, ElementOfSeq
<1>3. ASSUME NEW c \in V
      PROVE  ShellPiece(c) \in Seq(V)
  <2>1. <<Quote, Backslash, c, Quote>> \in Seq(V) /\ <<c>> \in Seq(V)
    OBVIOUS
  <2> QED
    BY <2>1, Zenon DEF ShellPiece
<1>4. ps = [k \in 1..l |-> ShellPiece(name[k])]
  BY <1>1 DEF ShellPieces
<1>5. ps \in [1..l -> Seq(V)]
  BY <1>2, <1>3, <1>4
<1>6. ps \in Seq(Seq(V))
  BY <1>5, SeqDef
<1>7. Len(ps) = l
  BY <1>5, <1>6, LenProperties
<1>8. \A k \in 1..l : ps[k] = ShellPiece(name[k])
  BY <1>4
<1> HIDE DEF ps
<1> QED
  BY <1>1, <1>6, <1>7, <1>8 DEF ps

LEMMA SqQuotedShape ==
  ASSUME NEW name
  PROVE  SqQuoted(name) = <<Quote>> \o FlattenSeq(ShellPieces(name)) \o <<Quote>>
BY Zenon DEF SqQuoted, ShellPieces, ShellPiece

LEMMA ShellRound ==
  ASSUME NEW q \in Seq(1..255), Nul = 0, NEW many \in BOOLEAN, NEW c \in 1..255,
         NEW i \in Nat \ {0},
         \A j \in 1..Len(ShellPiece(c)) : At(q, i + (j - 1)) = ShellPiece(c)[j]
  PROVE  SqDequoteRound(q, i, many) = Round(c, i + Len(ShellPiece(c)))
<1>1. CASE ~NeedBsQuote(c)
  <2>1. ShellPiece(c) = <<c>> /\ c # Quote
    BY <1>1 DEF ShellPiece, NeedBsQuote
  <2>2. Len(ShellPiece(c)) = 1 /\ ShellPiece(c)[1] = c
    BY <2>1
  <2>3. At(q, i) = c
    <3>1. 1 \in 1..Len(ShellPiece(c)) /\ i + (1 - 1) = i
      BY <2>2
    <3> QED
      BY <2>2, <3>1
  <2>4. i \in 1..Len(q) /\ q[i] = c
    BY <2>3, AtIs
  <2>5. SqDequoteRound(q, i, many) = Round(q[i], i + 1)
    <3>1. At(q, i) \notin {0, Quote}
      BY <2>1, <2>3
    <3> QED
      BY <3>1, SqRoundIs, Zenon
  <2> QED
    BY <2>2, <2>4, <2>5, Zenon
<1>2. CASE NeedBsQuote(c)
  <2>1. ShellPiece(c) = <<Quote, Backslash, c, Quote>>
    BY <1>2, Zenon DEF ShellPiece
  <2>2. Len(ShellPiece(c)) = 4 /\ ShellPiece(c)[1] = Quote /\ ShellPiece(c)[2] = Backslash
        /\ ShellPiece(c)[3] = c /\ ShellPiece(c)[4] = Quote
    BY <2>1
  <2>3. /\ At(q, i) = Quote /\ At(q, i + 1) = Backslash
        /\ At(q, i + 2) = c /\ At(q, i + 3) = Quote
    <3>1. /\ 1 \in 1..Len(ShellPiece(c)) /\ 2 \in 1..Len(ShellPiece(c))
          /\ 3 \in 1..Len(ShellPiece(c)) /\ 4 \in 1..Len(ShellPiece(c))
          /\ i + (1 - 1) = i /\ i + (2 - 1) = i + 1 /\ i + (3 - 1) = i + 2 /\ i + (4 - 1) = i + 3
      BY <2>2
    <3> QED
      BY <2>2, <3>1
  <2>4. q[i + 2] = c
    <3>1. i + 2 \in Nat \ {0}
      OBVIOUS
    <3> QED
      BY <2>3, <3>1, AtIs
  <2>5. SqDequoteRound(q, i, many) = Round(q[i + 2], i + 4)
    BY <1>2, <2>3, SqRoundIs, Zenon
  <2> QED
    BY <2>2, <2>4, <2>5, Zenon
<1> QED
  BY <1>1, <1>2

\* Reading one argument, wherever it stands in a text, up to its last quote.
ArgAt(q, name, a, z) ==
  /\ z = a + Len(SqQuoted(name)) - 1 /\ z <= Len(q)
  /\ \A j \in 1..Len(SqQuoted(name)) : q[a + (j - 1)] = SqQuoted(name)[j]
ClosesAt(q, z, many) ==
  SqDequoteRound(q, z, many).then = 0 /\ SqDequoteRound(q, z, many).out = <<>>

LEMMA ReadsArg ==
  ASSUME NEW q \in Seq(1..255), Nul = 0, NEW many \in BOOLEAN,
         NEW name \in Seq(1..255), NEW a \in Nat \ {0}, NEW z \in Nat,
         ArgAt(q, name, a, z), ClosesAt(q, z, many)
  PROVE  /\ At(q, a) = Quote /\ At(q, z) = Quote /\ z > a
         /\ SqDequotedStep(q, a, many).out = name
         /\ SqDequotedStep(q, a, many).ok = SqDequoteRound(q, z, many).ok
         /\ SqDequotedStep(q, a, many).next = SqDequoteRound(q, z, many).next
<1>1. name \in Seq(0..255)
  <2>1. 1..255 \subseteq 0..255
    OBVIOUS
  <2> QED
    BY <2>1, SeqMonotonic
<1>2. PICK ps \in Seq(Seq(1..255)), l \in Nat :
        /\ ps = ShellPieces(name) /\ l = Len(name) /\ Len(ps) = l
        /\ \A k \in 1..l : ps[k] = ShellPiece(name[k])
  <2> DEFINE V == 1..255
  <2>1. Quote \in V /\ Backslash \in V /\ name \in Seq(V)
    BY DEF Quote, Backslash
  <2> HIDE DEF V
  <2>2. /\ ShellPieces(name) \in Seq(Seq(V)) /\ Len(ShellPieces(name)) = Len(name)
        /\ \A k \in 1..Len(name) : ShellPieces(name)[k] = ShellPiece(name[k])
    BY <2>1, ShellPiecesAre
  <2>3. Len(name) \in Nat
    BY LenProperties
  <2> QED
    BY <2>2, <2>3, Zenon DEF V
<1>3. PICK e \in Seq(1..255), m \in Nat : e = FlattenSeq(ps) /\ m = Len(e)
  <2>1. FlattenSeq(ps) \in Seq(1..255)
    BY FlattenHolds
  <2>2. Len(FlattenSeq(ps)) \in Nat
    BY <2>1, LenProperties
  <2> QED
    BY <2>1, <2>2, Zenon
<1>4. PICK n \in Nat : n = Len(q) + 1
  BY LenProperties
<1>5. /\ Len(SqQuoted(name)) = m + 2
      /\ SqQuoted(name)[1] = Quote /\ SqQuoted(name)[m + 2] = Quote
      /\ \A j \in 1..m : SqQuoted(name)[1 + j] = e[j]
  <2>1. SqQuoted(name) = <<Quote>> \o e \o <<Quote>>
    BY <1>2, <1>3, SqQuotedShape, Zenon
  <2>2. Quote \in 1..255
    BY DEF Quote
  <2>3. /\ Len(<<Quote>> \o e \o <<Quote>>) = Len(e) + 2
        /\ (<<Quote>> \o e \o <<Quote>>)[1] = Quote
        /\ (<<Quote>> \o e \o <<Quote>>)[Len(e) + 2] = Quote
        /\ \A j \in 1..Len(e) : (<<Quote>> \o e \o <<Quote>>)[1 + j] = e[j]
    BY <2>2, WrappedAt
  <2> QED
    BY <1>3, <2>1, <2>3, Zenon
<1>6. /\ z = a + m + 1 /\ z <= n - 1
      /\ q[a] = Quote /\ q[z] = Quote
      /\ \A j \in 1..m : q[a + j] = e[j]
  <2>1. z = a + m + 1 /\ z <= n - 1
    <3>1. z = a + Len(SqQuoted(name)) - 1 /\ z <= Len(q)
      BY DEF ArgAt
    <3> QED
      BY <1>4, <1>5, <3>1
  <2>2. 1 \in 1..(m + 2) /\ m + 2 \in 1..(m + 2) /\ a + (1 - 1) = a
        /\ a + ((m + 2) - 1) = a + m + 1
    OBVIOUS
  <2>3. \A j \in 1..m : 1 + j \in 1..(m + 2) /\ a + ((1 + j) - 1) = a + j
    OBVIOUS
  <2>4. \A j \in 1..(m + 2) : q[a + (j - 1)] = SqQuoted(name)[j]
    BY <1>5, Zenon DEF ArgAt
  <2> QED
    BY <1>5, <2>1, <2>2, <2>3, <2>4
<1>7. At(q, a) = Quote /\ At(q, z) = Quote /\ z > a
  BY <1>4, <1>6 DEF At
<1> DEFINE r == SqRounds(q, many)
<1>8. Ahead(r, 0..255, n) /\ \A i \in 1..n : r[i] = SqDequoteRound(q, i, many)
  BY <1>4, SqAhead, Zenon
<1> HIDE DEF r
<1>9. Reads(r, name, ps, a)
  <2>1. SUFFICES ASSUME NEW k \in 1..l, NEW o \in Nat, o + Len(ps[k]) <= m,
                        \A j \in 1..Len(ps[k]) : e[o + j] = ps[k][j]
                 PROVE  /\ r[a + o + 1].out = <<name[k]>>
                        /\ r[a + o + 1].then = a + (o + Len(ps[k])) + 1
    BY <1>2, <1>3 DEF Reads
  <2>2. PICK c \in 1..255, w \in Nat, i \in Nat \ {0} :
          c = name[k] /\ w = Len(ps[k]) /\ ps[k] = ShellPiece(c) /\ i = a + o + 1
    <3>1. name[k] \in 1..255 /\ ps[k] \in Seq(1..255)
      BY <1>2, ElementOfSeq
    <3>2. Len(ps[k]) \in Nat
      BY <3>1, LenProperties
    <3>3. ps[k] = ShellPiece(name[k])
      BY <1>2, Zenon
    <3>4. a + o + 1 \in Nat \ {0}
      OBVIOUS
    <3> QED
      BY <3>1, <3>2, <3>3, <3>4, Zenon
  <2>3. ASSUME NEW j \in 1..w
        PROVE  At(q, i + (j - 1)) = ShellPiece(c)[j]
    <3>1. o + j \in 1..m /\ a + (o + j) = i + (j - 1) /\ a + (o + j) \in 1..(n - 1)
      <4>1. o + w <= m /\ a + m < n /\ i = a + o + 1
        BY <1>6, <2>1, <2>2
      <4> HIDE <2>1, <2>2
      <4> QED
        BY <4>1
    <3>2. q[a + (o + j)] = e[o + j] /\ e[o + j] = ps[k][j]
      BY <1>6, <2>1, <2>2, <3>1, Zenon
    <3>3. At(q, a + (o + j)) = q[a + (o + j)]
      BY <1>4, <3>1 DEF At
    <3> QED
      BY <2>2, <3>1, <3>2, <3>3, Zenon
  <2>4. SqDequoteRound(q, i, many) = Round(c, i + w)
    <3>1. w = Len(ShellPiece(c))
      BY <2>2, Zenon
    <3>2. \A j \in 1..Len(ShellPiece(c)) : At(q, i + (j - 1)) = ShellPiece(c)[j]
      BY <2>3, <3>1, Zenon
    <3>3. SqDequoteRound(q, i, many) = Round(c, i + Len(ShellPiece(c)))
      BY <3>2, ShellRound
    <3> QED
      BY <3>1, <3>3, Zenon
  <2>5. i \in 1..n
    <3>1. o + w <= m /\ a + m < n /\ i = a + o + 1 /\ w >= 0
      BY <1>6, <2>1, <2>2
    <3> HIDE <2>1, <2>2
    <3> QED
      BY <3>1
  <2>6. r[i] = SqDequoteRound(q, i, many)
    BY <1>8, <2>5, Zenon
  <2>7. i + w = a + (o + w) + 1
    BY <2>2
  <2>8. r[i].out = <<c>> /\ r[i].then = i + w
    <3>1. Round(c, i + w).out = <<c>> /\ Round(c, i + w).then = i + w
      BY DEF Round
    <3> QED
      BY <2>4, <2>6, <3>1, Zenon
  <2> QED
    BY <2>2, <2>7, <2>8, Zenon
<1>10. LET h == Len(FlattenSeq(ps))
       IN  /\ Scanned(r, a + 1).out = name \o Scanned(r, a + h + 1).out
           /\ Scanned(r, a + 1).ok = Scanned(r, a + h + 1).ok
           /\ Scanned(r, a + 1).next = Scanned(r, a + h + 1).next
  <2>1. a + Len(FlattenSeq(ps)) < n /\ a \in Nat
    <3>1. a + m < n
      BY <1>6
    <3> QED
      BY <1>3, <3>1, Zenon
  <2>2. Len(ps) = Len(name) /\ Ahead(r, 0..255, n)
    BY <1>2, <1>8, Zenon
  <2>3. ps \in Seq(Seq(1..255)) /\ n \in Nat /\ a \in Nat /\ name \in Seq(0..255)
    BY <1>1
  <2>4. PICK b \in Nat : b = a
    BY <2>1
  <2>5. Reads(r, name, ps, b) /\ b + Len(FlattenSeq(ps)) < n
    BY <1>9, <2>1, <2>4, Zenon
  <2>6. Len(ps) = Len(name)
    BY <2>2
  <2>7. Ahead(r, 0..255, n)
    BY <2>2
  <2>8. name \in Seq(0..255)
    BY <2>3
  <2> HIDE <2>4
  <2>9. LET h == Len(FlattenSeq(ps))
        IN  /\ Scanned(r, b + 1).out = name \o Scanned(r, b + h + 1).out
            /\ Scanned(r, b + 1).ok = Scanned(r, b + h + 1).ok
            /\ Scanned(r, b + 1).next = Scanned(r, b + h + 1).next
    BY <2>3, <2>5, <2>6, <2>7, <2>8, ScannedPieces, SMTT(60)
  <2> QED
    BY <2>4, <2>9, Zenon
<1>11. Scanned(r, z) = SqDequoteRound(q, z, many)
  <2>1. z \in 1..n
    BY <1>6
  <2>2. r[z] = SqDequoteRound(q, z, many)
    BY <1>8, <2>1, Zenon
  <2>3. r[z].then = 0
    BY <2>2, Zenon DEF ClosesAt
  <2>4. Scanned(r, z) = r[z]
    BY <1>8, <2>1, <2>3, ScannedFrom
  <2> QED
    BY <2>2, <2>4, Zenon
<1>12. SqDequotedStep(q, a, many) = Scanned(r, a + 1)
  <2>1. a \in 1..(Len(q) + 1)
    BY <1>4, <1>6
  <2>2. At(q, a) = Quote => SqDequotedStep(q, a, many) = Scanned(SqRounds(q, many), a + 1)
    BY <2>1, SqStepIs
  <2> QED
    BY <1>7, <2>2, Zenon DEF r
<1>13. name \o <<>> = name
  BY ConcatEmptySeq
<1>14. a + Len(FlattenSeq(ps)) + 1 = z
  BY <1>3, <1>6, Zenon
<1> QED
  BY <1>7, <1>10, <1>11, <1>12, <1>13, <1>14, ZenonT(60) DEF ClosesAt

-----------------------------------------------------------------------------
(***************************************************************************)
(* A list of arguments read back.                                          *)
(***************************************************************************)
LEMMA Rising ==
  ASSUME NEW l \in Nat, NEW p \in [1..(l + 1) -> Nat],
         \A k \in 1..l : p[k] <= p[k + 1]
  PROVE  \A k \in 1..(l + 1) : p[k] <= p[l + 1]
<1> DEFINE T == {d \in 0..l : ~(p[l + 1 - d] <= p[l + 1])}
<1>1. T = {}
  <2>1. SUFFICES ASSUME T # {}
                 PROVE  FALSE
    OBVIOUS
  <2>2. PICK d \in T : \A k \in T : d <= k
    <3>1. T \in SUBSET Nat
      OBVIOUS
    <3> HIDE DEF T
    <3> QED
      BY <2>1, <3>1, Least
  <2>3. CASE d = 0
    BY <2>3
  <2>4. CASE d # 0
    <3>1. d - 1 \in 0..l /\ ~(d <= d - 1) /\ l + 1 - (d - 1) = (l + 1 - d) + 1
          /\ l + 1 - d \in 1..l
      BY <2>4
    <3>2. d - 1 \notin T
      BY <2>2, <3>1, Zenon
    <3>3. PICK k \in 1..l : k = l + 1 - d
      BY <3>1
    <3>4. p[k + 1] <= p[l + 1]
      BY <3>1, <3>2, <3>3
    <3>5. p[k] <= p[k + 1] /\ p[k] \in Nat /\ p[k + 1] \in Nat /\ p[l + 1] \in Nat
      BY <3>3
    <3>6. p[k] <= p[l + 1]
      BY <3>4, <3>5
    <3> QED
      BY <3>3, <3>6
  <2> QED
    BY <2>3, <2>4
<1>2. ASSUME NEW k \in 1..(l + 1)
      PROVE  p[k] <= p[l + 1]
  <2>1. l + 1 - k \in 0..l /\ l + 1 - (l + 1 - k) = k
    OBVIOUS
  <2> QED
    BY <1>1, <2>1
<1> QED
  BY <1>2

\* The arguments stand one behind the other, a blank between them.
ArgvAt(q, args, p) ==
  /\ p \in [1..(Len(args) + 1) -> Nat \ {0}]
  /\ p[1] = 1 /\ p[Len(args) + 1] = Len(q) + 2
  /\ \A k \in 1..Len(args) :
       /\ p[k + 1] - 2 \in Nat
       /\ ArgAt(q, args[k], p[k], p[k + 1] - 2)
       /\ k # 1 => q[p[k] - 1] = Blank

LEMMA QuotedShape ==
  ASSUME NEW name \in Seq(1..255)
  PROVE  /\ SqQuoted(name) \in Seq(1..255)
         /\ Len(SqQuoted(name)) \in Nat /\ Len(SqQuoted(name)) >= 2
         /\ SqQuoted(name)[1] = Quote /\ SqQuoted(name)[Len(SqQuoted(name))] = Quote
<1>1. SqQuoted(name) \in Seq(1..255) /\ Quote \in 1..255
  BY SqQuotedIsText DEF Quote
<1>2. PICK e \in Seq(1..255) : SqQuoted(name) = <<Quote>> \o e \o <<Quote>>
  <2> DEFINE V == 1..255
  <2>1. Quote \in V /\ Backslash \in V /\ name \in Seq(V)
    BY DEF Quote, Backslash
  <2> HIDE DEF V
  <2>2. FlattenSeq(ShellPieces(name)) \in Seq(V)
    BY <2>1, ShellPiecesAre, FlattenHolds
  <2> QED
    BY <2>2, SqQuotedShape, Zenon DEF V
<1>3. /\ Len(<<Quote>> \o e \o <<Quote>>) = Len(e) + 2
      /\ (<<Quote>> \o e \o <<Quote>>)[1] = Quote
      /\ (<<Quote>> \o e \o <<Quote>>)[Len(e) + 2] = Quote
  BY <1>1, WrappedAt
<1>4. Len(e) \in Nat
  BY LenProperties
<1>5. Len(e) + 2 \in Nat /\ Len(e) + 2 >= 2
  BY <1>4
<1> QED
  BY <1>1, <1>2, <1>3, <1>5, Zenon

LEMMA ArgvStands ==
  ASSUME NEW args \in Seq(Seq(1..255)), args # <<>>
  PROVE  /\ Tail(SqQuotedArgv(args)) \in Seq(1..255)
         /\ \E p : ArgvAt(Tail(SqQuotedArgv(args)), args, p)
<1> DEFINE ps == [i \in DOMAIN args |-> <<Blank>> \o SqQuoted(args[i])]
<1>1. PICK l \in Nat : l = Len(args) /\ l # 0 /\ DOMAIN args = 1..l
  BY EmptySeq, LenProperties
<1>2. /\ ps \in Seq(Seq(1..255)) /\ Len(ps) = l
      /\ \A k \in 1..l : ps[k] = <<Blank>> \o SqQuoted(args[k])
  <2>1. ASSUME NEW i \in 1..l
        PROVE  ps[i] \in Seq(1..255)
    <3>1. args[i] \in Seq(1..255) /\ i \in DOMAIN args
      BY <1>1, ElementOfSeq
    <3>2. SqQuoted(args[i]) \in Seq(1..255) /\ <<Blank>> \in Seq(1..255)
      BY <3>1, SqQuotedIsText DEF Blank
    <3>3. <<Blank>> \o SqQuoted(args[i]) \in Seq(1..255)
      BY <3>2, ConcatAt
    <3> QED
      BY <3>1, <3>3
  <2>2. DOMAIN ps = 1..l /\ ps = [i \in DOMAIN ps |-> ps[i]]
    BY <1>1
  <2>3. \A k \in 1..l : ps[k] = <<Blank>> \o SqQuoted(args[k])
    BY <1>1
  <2> HIDE DEF ps
  <2>4. ps \in [1..l -> Seq(1..255)]
    BY <2>1, <2>2
  <2>5. ps \in Seq(Seq(1..255))
    BY <2>4
  <2>6. Len(ps) = l
    BY <2>2, <2>5, LenProperties
  <2> QED
    BY <2>3, <2>5, <2>6
<1>3. PICK t : t = SqQuotedArgv(args) /\ t = FlattenSeq(ps)
  BY Zenon DEF SqQuotedArgv
<1> HIDE DEF ps
<1>4. PICK p \in [1..(l + 1) -> Nat \ {0}] :
        /\ p[1] = 1
        /\ \A k \in 1..l :
             /\ p[k + 1] = p[k] + Len(ps[k])
             /\ \A j \in 1..Len(ps[k]) : t[p[k] + (j - 1)] = ps[k][j]
        /\ p[l + 1] = Len(t) + 1
  <2>1. \E p \in [1..(Len(ps) + 1) -> Nat \ {0}] :
             /\ p[1] = 1
             /\ \A k \in 1..Len(ps) :
                  /\ p[k + 1] = p[k] + Len(ps[k])
                  /\ \A j \in 1..Len(ps[k]) : FlattenSeq(ps)[p[k] + (j - 1)] = ps[k][j]
             /\ p[Len(ps) + 1] = Len(FlattenSeq(ps)) + 1
    BY <1>2, FlattenHolds
  <2> QED
    BY <1>2, <1>3, <2>1, Zenon
<1>5. t \in Seq(1..255)
  BY <1>3, SqQuotedArgvIsText
<1>6. ASSUME NEW k \in 1..l
      PROVE  /\ Len(SqQuoted(args[k])) \in Nat /\ Len(SqQuoted(args[k])) >= 2
             /\ p[k + 1] = p[k] + Len(SqQuoted(args[k])) + 1
             /\ t[p[k]] = Blank
             /\ \A j \in 1..Len(SqQuoted(args[k])) : t[p[k] + j] = SqQuoted(args[k])[j]
  <2>1. args[k] \in Seq(1..255)
    BY <1>1, ElementOfSeq
  <2>2. PICK s \in Seq(1..255), w \in Nat :
          s = SqQuoted(args[k]) /\ w = Len(s) /\ w >= 2
    BY <2>1, QuotedShape, Zenon
  <2>3. PICK b \in Seq(1..255) : b = <<Blank>> /\ Len(b) = 1 /\ b[1] = Blank
    <3>1. <<Blank>> \in Seq(1..255) /\ Len(<<Blank>>) = 1 /\ <<Blank>>[1] = Blank
      BY DEF Blank
    <3> QED
      BY <3>1, Zenon
  <2>4. /\ Len(b \o s) = Len(b) + Len(s)
        /\ \A i \in 1..Len(b) : (b \o s)[i] = b[i]
        /\ \A j \in 1..Len(s) : (b \o s)[Len(b) + j] = s[j]
    BY ConcatAt
  <2>5. ps[k] = b \o s
    BY <1>2, <2>2, <2>3, Zenon
  <2>6. Len(ps[k]) = 1 + w /\ ps[k][1] = Blank /\ \A j \in 1..w : ps[k][1 + j] = s[j]
    <3>1. 1 \in 1..1
      OBVIOUS
    <3> QED
      BY <2>2, <2>3, <2>4, <2>5, <3>1, Zenon
  <2>7. PICK a \in Nat : a = p[k]
    BY <1>4
  <2>8. p[k + 1] = a + (1 + w) /\ \A j \in 1..(1 + w) : t[a + (j - 1)] = ps[k][j]
    BY <1>4, <2>6, <2>7, Zenon
  <2>9. a + (1 + w) = a + w + 1 /\ 1 \in 1..(1 + w) /\ a + (1 - 1) = a
    OBVIOUS
  <2>10. \A j \in 1..w : 1 + j \in 1..(1 + w) /\ a + ((1 + j) - 1) = a + j
    OBVIOUS
  <2>11. t[a] = Blank
    BY <2>6, <2>8, <2>9, Zenon
  <2>12. \A j \in 1..w : t[a + j] = s[j]
    BY <2>6, <2>8, <2>10, Zenon
  <2> QED
    BY <2>2, <2>7, <2>8, <2>9, <2>11, <2>12, Zenon
<1>7. PICK m \in Nat : m = Len(t) /\ p[l + 1] = m + 1
  BY <1>4, <1>5, LenProperties
<1>8. \A k \in 1..(l + 1) : p[k] <= m + 1
  <2>1. p \in [1..(l + 1) -> Nat]
    BY <1>4
  <2>2. ASSUME NEW k \in 1..l
        PROVE  p[k] <= p[k + 1]
    <3>1. p[k] \in Nat
      BY <1>4
    <3> QED
      BY <1>6, <3>1
  <2>3. \A k \in 1..(l + 1) : p[k] <= p[l + 1]
    BY <2>1, <2>2, Rising
  <2> QED
    BY <1>7, <2>3, Zenon
<1>9. m # 0
  <2>1. 1 \in 1..l /\ 1 + 1 \in 1..(l + 1)
    BY <1>1
  <2>2. p[1 + 1] = 1 + Len(SqQuoted(args[1])) + 1 /\ p[1 + 1] <= m + 1
    BY <1>4, <1>6, <1>8, <2>1
  <2> QED
    BY <1>6, <2>1, <2>2
<1>10. PICK q \in Seq(1..255) :
         q = Tail(t) /\ Len(q) = m - 1 /\ \A i \in 1..(m - 1) : q[i] = t[i + 1]
  <2>1. t # <<>>
    BY <1>5, <1>7, <1>9, EmptySeq
  <2>2. /\ Tail(t) \in Seq(1..255) /\ Len(Tail(t)) = Len(t) - 1
        /\ \A i \in 1..Len(Tail(t)) : Tail(t)[i] = t[i + 1]
    BY <1>5, <2>1, HeadTailProperties
  <2> QED
    BY <1>7, <2>2, Zenon
<1>11. ASSUME NEW k \in 1..l
       PROVE  /\ p[k + 1] - 2 \in Nat
              /\ ArgAt(q, args[k], p[k], p[k + 1] - 2)
              /\ k # 1 => q[p[k] - 1] = Blank
  <2>1. PICK a \in Nat \ {0}, w \in Nat, s \in Seq(1..255) :
          /\ a = p[k] /\ s = SqQuoted(args[k]) /\ w = Len(s) /\ w >= 2
          /\ p[k + 1] = a + w + 1
    <3>1. p[k] \in Nat \ {0}
      BY <1>4
    <3>2. SqQuoted(args[k]) \in Seq(1..255)
      BY <1>1, ElementOfSeq, SqQuotedIsText
    <3> QED
      BY <1>6, <3>1, <3>2, Zenon
  <2>2. a + w + 1 <= m + 1
    <3>1. k + 1 \in 1..(l + 1)
      OBVIOUS
    <3> QED
      BY <1>8, <2>1, <3>1, Zenon
  <2>3. w >= 2
    BY <2>1
  <2> HIDE <2>1
  <2>3a. (a + w + 1) - 2 = a + w - 1 /\ a + w - 1 \in Nat /\ a + w - 1 <= m - 1
    BY <2>2, <2>3
  <2>4. ASSUME NEW j \in 1..w
        PROVE  q[a + (j - 1)] = s[j]
    <3>1. a + (j - 1) \in 1..(m - 1) /\ (a + (j - 1)) + 1 = a + j
      BY <2>2
    <3>2. t[a + j] = s[j]
      BY <1>6, <2>1, Zenon
    <3> QED
      BY <1>10, <3>1, <3>2, Zenon
  <2>5. ArgAt(q, args[k], a, a + w - 1)
    BY <1>10, <2>1, <2>3a, <2>4, Zenon DEF ArgAt
  <2>6. ASSUME k # 1
        PROVE  q[a - 1] = Blank
    <3>1. a >= 3
      <4>1. PICK h \in 1..l : k = h + 1
        <5>1. k - 1 \in 1..l /\ k = (k - 1) + 1
          BY <2>6
        <5> QED
          BY <5>1, Zenon
      <4>2. h \in 1..(l + 1)
        BY <4>1
      <4>3. PICK b \in Nat \ {0}, v \in Nat : b = p[h] /\ v = Len(SqQuoted(args[h]))
        BY <1>4, <1>6, <4>1, <4>2, Zenon
      <4>4. v >= 2 /\ p[h + 1] = b + v + 1
        BY <1>6, <4>1, <4>3, Zenon
      <4>5. b + v + 1 >= 3
        BY <4>4
      <4> QED
        BY <2>1, <4>1, <4>4, <4>5, Zenon
    <3>2. a - 1 \in 1..(m - 1) /\ (a - 1) + 1 = a
      BY <2>2, <3>1
    <3>3. t[a] = Blank
      BY <1>6, <2>1, Zenon
    <3> QED
      BY <1>10, <3>2, <3>3, Zenon
  <2> QED
    BY <2>1, <2>3a, <2>5, <2>6, Zenon
<1>12. p[l + 1] = Len(q) + 2
  BY <1>7, <1>10
<1>13. ArgvAt(q, args, p)
  BY <1>1, <1>4, <1>11, <1>12, Zenon DEF ArgvAt
<1> QED
  BY <1>3, <1>10, <1>13, Zenon

\* Where an argument ends, and where the next one starts.
LEMMA ArgEnds ==
  ASSUME NEW q \in Seq(1..255), NEW name \in Seq(1..255), NEW a \in Nat \ {0},
         NEW z \in Nat, ArgAt(q, name, a, z)
  PROVE  /\ z > a /\ z <= Len(q) /\ q[a] = Quote /\ q[z] = Quote
         /\ At(q, a) = Quote /\ At(q, z) = Quote
<1>1. PICK s \in Seq(1..255), w \in Nat :
        /\ s = SqQuoted(name) /\ w = Len(s) /\ w >= 2
        /\ s[1] = Quote /\ s[w] = Quote
  <2>1. /\ SqQuoted(name) \in Seq(1..255)
        /\ Len(SqQuoted(name)) \in Nat /\ Len(SqQuoted(name)) >= 2
        /\ SqQuoted(name)[1] = Quote /\ SqQuoted(name)[Len(SqQuoted(name))] = Quote
    BY QuotedShape
  <2> QED
    BY <2>1, Zenon
<1>2. PICK n \in Nat : n = Len(q)
  BY LenProperties
<1>3. z = a + w - 1 /\ z <= n
  BY <1>1, <1>2, Zenon DEF ArgAt
<1>4. 1 \in 1..w /\ w \in 1..w /\ a + (1 - 1) = a /\ a + (w - 1) = z
  BY <1>1, <1>3
<1>5. \A j \in 1..w : q[a + (j - 1)] = s[j]
  BY <1>1, Zenon DEF ArgAt
<1>6. q[a] = Quote /\ q[z] = Quote
  BY <1>1, <1>4, <1>5, Zenon
<1>7. z > a /\ a <= n
  BY <1>1, <1>3
<1> QED
  BY <1>2, <1>3, <1>6, <1>7 DEF At

LEMMA ClosingRound ==
  ASSUME NEW q \in Seq(1..255), Nul = 0, NEW args \in Seq(Seq(1..255)), NEW p,
         ArgvAt(q, args, p), NEW k \in 1..Len(args)
  PROVE  SqDequoteRound(q, p[k + 1] - 2, TRUE)
           = LastRound(TRUE, IF k = Len(args) THEN 0 ELSE p[k + 1])
<1>1. PICK l \in Nat : l = Len(args) /\ k \in 1..l
  BY LenProperties
<1>2. PICK a \in Nat \ {0}, z \in Nat, b \in Nat \ {0} :
        /\ a = p[k] /\ b = p[k + 1] /\ z = b - 2 /\ ArgAt(q, args[k], a, z)
  <2>1. k + 1 \in 1..(l + 1) /\ k \in 1..(l + 1)
    BY <1>1
  <2>2. p[k] \in Nat \ {0} /\ p[k + 1] \in Nat \ {0}
    BY <1>1, <2>1 DEF ArgvAt
  <2>3. p[k + 1] - 2 \in Nat /\ ArgAt(q, args[k], p[k], p[k + 1] - 2)
    BY Zenon DEF ArgvAt
  <2> QED
    BY <2>2, <2>3, Zenon
<1>3. args[k] \in Seq(1..255)
  BY ElementOfSeq
<1>4. z > a /\ z <= Len(q) /\ At(q, z) = Quote
  BY <1>2, <1>3, ArgEnds, Zenon
<1>5. PICK n \in Nat : n = Len(q) /\ z <= n /\ z \in Nat \ {0}
  BY <1>2, <1>4, LenProperties
<1>6. CASE k = l
  <2>1. b = n + 2
    BY <1>1, <1>2, <1>5, <1>6, Zenon DEF ArgvAt
  <2>2. z = n /\ ~(z + 1 <= n)
    BY <1>2, <2>1
  <2>3. At(q, z + 1) = 0
    BY <1>5, <2>2 DEF At
  <2>4. SqDequoteRound(q, z, TRUE) = LastRound(TRUE, 0)
    BY <1>4, <1>5, <2>3, SqRoundIs, Zenon
  <2> QED
    BY <1>1, <1>2, <1>6, <2>4, Zenon
<1>7. CASE k # l
  <2>1. k + 1 \in 1..l /\ k + 1 # 1
    BY <1>1, <1>7
  <2>2. q[b - 1] = Blank /\ ArgAt(q, args[k + 1], b, p[(k + 1) + 1] - 2)
        /\ p[(k + 1) + 1] - 2 \in Nat
    BY <1>1, <1>2, <2>1, Zenon DEF ArgvAt
  <2>3. args[k + 1] \in Seq(1..255)
    BY <1>1, <2>1, ElementOfSeq
  <2>4. At(q, b) = Quote /\ b < p[(k + 1) + 1] - 2 /\ p[(k + 1) + 1] - 2 <= n
    BY <1>5, <2>2, <2>3, ArgEnds, Zenon
  <2>5. b <= n /\ b = (z + 1) + 1 /\ b - 1 = z + 1
    <3>1. PICK y \in Nat : y = p[(k + 1) + 1] - 2
      BY <2>2
    <3>2. b < y /\ y <= n /\ z = b - 2
      BY <1>2, <2>4, <3>1, Zenon
    <3> HIDE <1>2
    <3> QED
      BY <3>2
  <2>6. z + 1 \in 1..n
    BY <1>5, <2>5
  <2>7. At(q, z + 1) = Blank
    BY <1>5, <2>2, <2>5, <2>6 DEF At
  <2>8. NextArg(q, z + 1) = b
    <3>1. At(q, (z + 1) + 1) \notin Spaces
      BY <2>4, <2>5, SpacesAre
    <3>2. z + 1 \in 1..Len(q)
      BY <1>5, <2>6
    <3> QED
      BY <2>5, <3>1, <3>2, NextArgIs
  <2>9. OutOfQuotes(q, z + 1, TRUE) = LastRound(TRUE, b)
    BY <2>7, <2>8, SpacesAre DEF OutOfQuotes
  <2>10. At(q, z + 1) \notin {0, Backslash}
    BY <2>7 DEF Blank, Backslash
  <2>11. SqDequoteRound(q, z, TRUE) = OutOfQuotes(q, z + 1, TRUE)
    BY <1>4, <1>5, <2>10, SqRoundIs, Zenon
  <2> QED
    BY <1>1, <1>2, <1>7, <2>9, <2>11, Zenon
<1> QED
  BY <1>6, <1>7

LEMMA ReadsOneOf ==
  ASSUME NEW q \in Seq(1..255), Nul = 0, NEW args \in Seq(Seq(1..255)), NEW p,
         ArgvAt(q, args, p), NEW k \in 1..Len(args)
  PROVE  /\ SqDequotedArg(q, p[k]).out = <<args[k]>>
         /\ SqDequotedArg(q, p[k]).then = IF k = Len(args) THEN 0 ELSE p[k + 1]
         /\ SqDequotedArg(q, p[k]).ok = TRUE
<1>1. PICK a \in Nat \ {0}, z \in Nat :
        a = p[k] /\ z = p[k + 1] - 2 /\ ArgAt(q, args[k], a, z)
  <2>1. PICK l \in Nat : l = Len(args) /\ k \in 1..l
    BY LenProperties
  <2>2. k \in 1..(l + 1)
    BY <2>1
  <2>3. p[k] \in Nat \ {0}
    BY <2>1, <2>2 DEF ArgvAt
  <2>4. p[k + 1] - 2 \in Nat /\ ArgAt(q, args[k], p[k], p[k + 1] - 2)
    BY Zenon DEF ArgvAt
  <2> QED
    BY <2>3, <2>4, Zenon
<1>2. PICK b : b = IF k = Len(args) THEN 0 ELSE p[k + 1]
  OBVIOUS
<1>3. SqDequoteRound(q, z, TRUE) = LastRound(TRUE, b)
  BY <1>1, <1>2, ClosingRound, Zenon
<1>4. args[k] \in Seq(1..255)
  BY ElementOfSeq
<1>5. /\ LastRound(TRUE, b).out = <<>> /\ LastRound(TRUE, b).then = 0
      /\ LastRound(TRUE, b).ok = TRUE /\ LastRound(TRUE, b).next = b
  BY DEF LastRound
<1>6. ClosesAt(q, z, TRUE)
  BY <1>3, <1>5, Zenon DEF ClosesAt
<1>7. TRUE \in BOOLEAN
  OBVIOUS
<1>8. PICK step : step = SqDequotedStep(q, a, TRUE)
  OBVIOUS
<1>9. step.out = args[k] /\ step.ok = TRUE /\ step.next = b
  <2>1. PICK name \in Seq(1..255) : name = args[k]
    BY <1>4
  <2>2. ArgAt(q, name, a, z)
    BY <1>1, <2>1
  <2>3. PICK many \in BOOLEAN : many = TRUE
    BY <1>7, Zenon
  <2>4. ClosesAt(q, z, many)
    BY <1>6, <2>3, Zenon
  <2>5. /\ SqDequotedStep(q, a, many).out = name
        /\ SqDequotedStep(q, a, many).ok = SqDequoteRound(q, z, many).ok
        /\ SqDequotedStep(q, a, many).next = SqDequoteRound(q, z, many).next
    BY <2>2, <2>4, ReadsArg, SMTT(60)
  <2> QED
    BY <1>3, <1>5, <1>8, <2>1, <2>3, <2>5, ZenonT(60)
<1>10. SqDequotedArg(q, a)
         = [out |-> IF step.ok THEN <<step.out>> ELSE <<>>, then |-> step.next,
            ok |-> step.ok, next |-> 0]
  BY <1>8, Zenon DEF SqDequotedArg
<1>11. /\ SqDequotedArg(q, a).out = <<args[k]>>
       /\ SqDequotedArg(q, a).then = b /\ SqDequotedArg(q, a).ok = TRUE
  BY <1>9, <1>10
<1> QED
  BY <1>1, <1>2, <1>11, Zenon

ArgvRounds(q) == [i \in 1..(Len(q) + 1) |-> SqDequotedArg(q, i)]

LEMMA ArgvAhead ==
  ASSUME NEW q \in Seq(1..255), Nul = 0
  PROVE  Ahead(ArgvRounds(q), Seq(0..255), Len(q) + 1)
<1>1. PICK n \in Nat : n = Len(q) + 1
  BY LenProperties
<1>2. ASSUME NEW i \in 1..n
      PROVE  /\ SqDequotedArg(q, i) \in [out : Seq(Seq(0..255)), then : 0..n,
                                         ok : BOOLEAN, next : Nat]
             /\ SqDequotedArg(q, i).then = 0 \/ SqDequotedArg(q, i).then > i
  <2>1. PICK step : step = SqDequotedStep(q, i, TRUE)
    OBVIOUS
  <2>2. step \in Ended(0..255) /\ step.next \in {0} \cup (i + 1)..n
    <3>1. TRUE \in BOOLEAN /\ i \in 1..(Len(q) + 1)
      BY <1>1
    <3> QED
      BY <1>1, <2>1, <3>1, SqStepIs, Zenon
  <2>3. step.out \in Seq(0..255) /\ step.ok \in BOOLEAN
    BY <2>2 DEF Ended
  <2> DEFINE S == Seq(0..255)
  <2>4. PICK o \in Seq(S), b \in BOOLEAN, h \in {0} \cup (i + 1)..n :
          o = (IF step.ok THEN <<step.out>> ELSE <<>>) /\ b = step.ok /\ h = step.next
    <3>1. (IF step.ok THEN <<step.out>> ELSE <<>>) \in Seq(S)
      <4>1. step.out \in S
        BY <2>3
      <4> HIDE DEF S
      <4> QED
        BY <4>1
    <3> QED
      BY <2>2, <2>3, <3>1, Zenon
  <2>5. SqDequotedArg(q, i) = [out |-> o, then |-> h, ok |-> b, next |-> 0]
    BY <2>1, <2>4, Zenon DEF SqDequotedArg
  <2>6. /\ [out |-> o, then |-> h, ok |-> b, next |-> 0]
              \in [out : Seq(S), then : 0..n, ok : BOOLEAN, next : Nat]
        /\ [out |-> o, then |-> h, ok |-> b, next |-> 0].then = h
        /\ h = 0 \/ h > i
    <3> HIDE DEF S
    <3> HIDE <2>4
    <3> QED
      OBVIOUS
  <2> QED
    BY <2>4, <2>5, <2>6, Zenon
<1>3. PICK r : r = ArgvRounds(q)
  OBVIOUS
<1>4. r = [i \in 1..n |-> SqDequotedArg(q, i)]
  BY <1>1, <1>3, Zenon DEF ArgvRounds
<1>5. \A i \in 1..n : r[i] = SqDequotedArg(q, i)
  BY <1>4, Zenon
<1>6. r \in [1..n -> [out : Seq(Seq(0..255)), then : 0..n, ok : BOOLEAN, next : Nat]]
  BY <1>2, <1>4
<1>7. \A i \in 1..n : r[i].then = 0 \/ r[i].then > i
  BY <1>2, <1>5, Zenon
<1> QED
  BY <1>1, <1>3, <1>6, <1>7, Zenon DEF Ahead

LEMMA ReadsArgv ==
  ASSUME Nul = 0, NEW args \in Seq(Seq(1..255)), args # <<>>
  PROVE  /\ SqDequotedArgv(Tail(SqQuotedArgv(args))).ok = TRUE
         /\ SqDequotedArgv(Tail(SqQuotedArgv(args))).out = args
<1>0. PICK q \in Seq(1..255) : q = Tail(SqQuotedArgv(args))
  BY ArgvStands, Zenon
<1>1. PICK p : q = Tail(SqQuotedArgv(args)) /\ ArgvAt(q, args, p)
  BY <1>0, ArgvStands, Zenon
<1>2. PICK l \in Nat, h \in Nat : l = Len(args) /\ l = h + 1
  <2>1. PICK n \in Nat : n = Len(args) /\ n # 0
    BY EmptySeq, LenProperties
  <2>2. n - 1 \in Nat /\ n = (n - 1) + 1
    BY <2>1
  <2> QED
    BY <2>1, <2>2, Zenon
<1>3. PICK n \in Nat : n = Len(q) + 1
  BY LenProperties
<1>4. \A k \in 1..l : p[k] \in 1..n
  <2>1. ASSUME NEW k \in 1..l
        PROVE  p[k] \in 1..n
    <3>1. k \in 1..(l + 1) /\ k \in 1..Len(args)
      BY <1>2
    <3>2. p[k] \in Nat \ {0} /\ p[k + 1] - 2 \in Nat
          /\ ArgAt(q, args[k], p[k], p[k + 1] - 2)
      BY <1>1, <1>2, <3>1, Zenon DEF ArgvAt
    <3>3. args[k] \in Seq(1..255)
      BY <3>1, ElementOfSeq
    <3>4. p[k + 1] - 2 > p[k] /\ p[k + 1] - 2 <= Len(q)
      BY <3>2, <3>3, ArgEnds, Zenon
    <3> QED
      BY <1>3, <3>2, <3>4
  <2> QED
    BY <2>1
<1>5. PICK r : r = ArgvRounds(q)
  OBVIOUS
<1>6. \A i \in 1..n : r[i] = SqDequotedArg(q, i)
  BY <1>3, <1>5, Zenon DEF ArgvRounds
<1>7. ASSUME NEW k \in 1..l
      PROVE  /\ r[p[k]].out = <<args[k]>> /\ r[p[k]].ok = TRUE
             /\ r[p[k]].then = IF k = l THEN 0 ELSE p[k + 1]
  <2>1. r[p[k]] = SqDequotedArg(q, p[k])
    BY <1>4, <1>6, Zenon
  <2>2. k \in 1..Len(args)
    BY <1>2
  <2>3. /\ SqDequotedArg(q, p[k]).out = <<args[k]>>
        /\ SqDequotedArg(q, p[k]).then = IF k = Len(args) THEN 0 ELSE p[k + 1]
        /\ SqDequotedArg(q, p[k]).ok = TRUE
    <3>1. ArgvAt(q, args, p)
      BY <1>1
    <3> QED
      BY <2>2, <3>1, ReadsOneOf, ZenonT(60)
  <2> QED
    BY <1>2, <2>1, <2>3, Zenon
<1> DEFINE W == Seq(0..255)
<1>8. Ahead(r, W, n)
  BY <1>1, <1>3, <1>5, ArgvAhead, Zenon
<1>9. args \in Seq(W)
  <2>1. 1..255 \subseteq 0..255
    OBVIOUS
  <2>2. Seq(1..255) \subseteq W
    BY <2>1, SeqMonotonic
  <2> QED
    BY <2>2, SeqMonotonic
<1> HIDE DEF W
<1>10. PICK c \in Seq(W) : Len(c) = h /\ \A k \in 1..h : c[k] = args[k]
  <2>1. ASSUME NEW k \in 1..h
        PROVE  args[k] \in W
    <3>1. k \in 1..Len(args)
      BY <1>2
    <3> QED
      BY <1>9, <3>1, ElementOfSeq
  <2>2. /\ SubSeq(args, 1, h) \in Seq(W)
        /\ Len(SubSeq(args, 1, h)) = IF 1 <= h THEN h - 1 + 1 ELSE 0
        /\ \A k \in 1..(h - 1 + 1) : SubSeq(args, 1, h)[k] = args[1 + k - 1]
    BY <2>1, SubSeqProperties
  <2>3. Len(SubSeq(args, 1, h)) = h
    BY <2>2
  <2>4. \A k \in 1..h : k \in 1..(h - 1 + 1) /\ 1 + k - 1 = k
    OBVIOUS
  <2> QED
    BY <2>2, <2>3, <2>4, Zenon
<1> DEFINE g == [k \in 1..(h + 1) |-> p[k]]
<1>11. \A k \in 1..(h + 1) : g[k] = p[k]
  OBVIOUS
<1>12. g \in [1..(Len(c) + 1) -> 1..n]
  <2>1. \A k \in 1..(h + 1) : p[k] \in 1..n
    BY <1>2, <1>4
  <2> QED
    BY <1>10, <2>1
<1> HIDE DEF g
<1>13. ASSUME NEW k \in 1..h
       PROVE  r[g[k]].out = <<c[k]>> /\ r[g[k]].then = g[k + 1]
  <2>1. k \in 1..l /\ k # l /\ k \in 1..(h + 1) /\ k + 1 \in 1..(h + 1)
    BY <1>2
  <2> QED
    BY <1>7, <1>10, <1>11, <2>1, Zenon
<1>14. Puts(r, c, g, n)
  BY <1>10, <1>12, <1>13, Zenon DEF Puts
<1>15. /\ Scanned(r, g[1]).out = c \o Scanned(r, g[Len(c) + 1]).out
       /\ Scanned(r, g[1]).ok = Scanned(r, g[Len(c) + 1]).ok
  BY <1>8, <1>14, ScannedOver, SMTT(60)
<1>16. g[1] = 1 /\ g[Len(c) + 1] = p[l]
  <2>1. 1 \in 1..(h + 1) /\ h + 1 \in 1..(h + 1)
    OBVIOUS
  <2>2. p[1] = 1
    BY <1>1 DEF ArgvAt
  <2> QED
    BY <1>2, <1>10, <1>11, <2>1, <2>2, Zenon
<1>17. Scanned(r, p[l]).out = <<args[l]>> /\ Scanned(r, p[l]).ok = TRUE
  <2>1. l \in 1..l
    BY <1>2
  <2>2. p[l] \in 1..n /\ r[p[l]].then = 0 /\ r[p[l]].ok = TRUE
        /\ r[p[l]].out = <<args[l]>>
    BY <1>4, <1>7, <2>1, Zenon
  <2>3. Scanned(r, p[l]) = r[p[l]]
    BY <1>8, <2>2, ScannedFrom
  <2> QED
    BY <2>2, <2>3, Zenon
<1>18. c \o <<args[l]>> = args
  <2>1. PICK x \in W : x = args[l]
    <3>1. l \in 1..Len(args)
      BY <1>2
    <3> QED
      BY <1>9, <3>1, ElementOfSeq
  <2>2. /\ <<x>> \in Seq(W) /\ Len(<<x>>) = 1 /\ <<x>>[1] = x
    OBVIOUS
  <2>3. PICK y \in Seq(W) : y = <<x>>
    BY <2>2
  <2>4. /\ c \o y \in Seq(W) /\ Len(c \o y) = Len(c) + Len(y)
        /\ \A i \in 1..Len(c) : (c \o y)[i] = c[i]
        /\ \A j \in 1..Len(y) : (c \o y)[Len(c) + j] = y[j]
    BY ConcatAt
  <2>5. Len(y) = 1 /\ y[1] = x /\ 1 \in 1..1
    BY <2>2, <2>3
  <2>6. Len(c \o y) = l /\ (\A i \in 1..h : (c \o y)[i] = args[i]) /\ (c \o y)[l] = args[l]
    BY <1>2, <1>10, <2>1, <2>4, <2>5, Zenon
  <2>7. ASSUME NEW i \in 1..l
        PROVE  (c \o y)[i] = args[i]
    <3>1. i \in 1..h \/ i = l
      BY <1>2
    <3> QED
      BY <2>6, <3>1, Zenon
  <2>8. c \o y = args
    BY <1>2, <1>9, <2>4, <2>6, <2>7, SeqEqual
  <2> QED
    BY <2>1, <2>3, <2>8, Zenon
<1>19. q # <<>>
  <2>1. 1 \in 1..l
    BY <1>2
  <2>2. p[1] \in 1..n /\ 1 \in 1..Len(args)
    BY <1>2, <1>4, <2>1
  <2>3. args[1] \in Seq(1..255) /\ p[1] = 1 /\ p[1 + 1] - 2 \in Nat
        /\ ArgAt(q, args[1], p[1], p[1 + 1] - 2)
    BY <1>1, <2>2, ElementOfSeq, Zenon DEF ArgvAt
  <2>4. 1 \in Nat \ {0}
    OBVIOUS
  <2>5. p[1 + 1] - 2 > 1 /\ p[1 + 1] - 2 <= Len(q)
    BY <2>3, <2>4, ArgEnds, Zenon
  <2>6. Len(q) # 0
    BY <2>3, <2>5
  <2> QED
    BY <2>6, EmptySeq
<1>20. SqDequotedArgv(q) = Scanned(r, 1)
  BY <1>5, <1>19, Zenon DEF SqDequotedArgv, ArgvRounds
<1> QED
  BY <1>1, <1>15, <1>16, <1>17, <1>18, <1>20, Zenon

-----------------------------------------------------------------------------
(***************************************************************************)
(* A single text that is unwrapped is what sq_quote makes of the result.   *)
(***************************************************************************)
LEMMA SameFlatten == \A ps : Api!FlattenSeq(ps) = FlattenSeq(ps)
  BY DEF FlattenSeq, Api!FlattenSeq

LEMMA ShellCons ==
  ASSUME NEW c \in 1..255, NEW x \in Seq(1..255)
  PROVE  /\ <<c>> \o x \in Seq(1..255)
         /\ FlattenSeq(ShellPieces(<<c>> \o x)) = ShellPiece(c) \o FlattenSeq(ShellPieces(x))
<1> DEFINE V == 1..255
<1>1. Quote \in V /\ Backslash \in V /\ x \in Seq(V) /\ c \in V
  BY DEF Quote, Backslash
<1>2. Seq(V) \subseteq Seq(Cells)
  BY Texts_
<1> HIDE DEF V
<1>3. PICK y \in Seq(V), m \in Nat :
        /\ y = <<c>> \o x /\ m = Len(x) /\ Len(y) = 1 + m /\ y[1] = c
        /\ \A j \in 1..m : y[1 + j] = x[j]
  <2>1. <<c>> \in Seq(V) /\ Len(<<c>>) = 1 /\ <<c>>[1] = c
    BY <1>1
  <2>2. PICK b \in Seq(V) : b = <<c>>
    BY <2>1
  <2>3. /\ b \o x \in Seq(V) /\ Len(b \o x) = Len(b) + Len(x)
        /\ Len(x) \in Nat
        /\ \A i \in 1..Len(b) : (b \o x)[i] = b[i]
        /\ \A j \in 1..Len(x) : (b \o x)[Len(b) + j] = x[j]
    BY <1>1, ConcatAt
  <2>4. Len(b) = 1 /\ b[1] = c /\ 1 \in 1..1
    BY <2>1, <2>2
  <2> QED
    BY <2>2, <2>3, <2>4, Zenon
<1>4. /\ ShellPieces(y) \in Seq(Seq(V)) /\ Len(ShellPieces(y)) = 1 + m
      /\ \A k \in 1..(1 + m) : ShellPieces(y)[k] = ShellPiece(y[k])
  BY <1>1, <1>3, ShellPiecesAre, Zenon
<1>5. /\ ShellPieces(x) \in Seq(Seq(V)) /\ Len(ShellPieces(x)) = m
      /\ \A k \in 1..m : ShellPieces(x)[k] = ShellPiece(x[k])
  BY <1>1, <1>3, ShellPiecesAre, Zenon
<1>6. PICK s \in Seq(V) : s = ShellPiece(c)
  <2>1. ShellPiece(c) \in Seq(V)
    <3>1. <<Quote, Backslash, c, Quote>> \in Seq(V) /\ <<c>> \in Seq(V)
      BY <1>1
    <3> QED
      BY <3>1 DEF ShellPiece
  <2> QED
    BY <2>1
<1>7. PICK f \in Seq(Seq(V)), d \in Seq(Seq(V)), h \in Seq(Seq(V)) :
        f = ShellPieces(y) /\ d = ShellPieces(x) /\ h = <<s>>
        /\ Len(h) = 1 /\ h[1] = s
  <2>1. <<s>> \in Seq(Seq(V)) /\ Len(<<s>>) = 1 /\ <<s>>[1] = s
    OBVIOUS
  <2> QED
    BY <1>4, <1>5, <2>1, Zenon
<1>8. f = h \o d
  <2>1. /\ h \o d \in Seq(Seq(V)) /\ Len(h \o d) = Len(h) + Len(d)
        /\ \A i \in 1..Len(h) : (h \o d)[i] = h[i]
        /\ \A j \in 1..Len(d) : (h \o d)[Len(h) + j] = d[j]
    BY ConcatAt
  <2>2. Len(h \o d) = 1 + m /\ (h \o d)[1] = s /\ \A j \in 1..m : (h \o d)[1 + j] = d[j]
    <3>1. 1 \in 1..1
      OBVIOUS
    <3> QED
      BY <1>5, <1>7, <2>1, <3>1, Zenon
  <2>3. f[1] = s /\ \A j \in 1..m : f[1 + j] = d[j]
    <3>1. 1 \in 1..(1 + m) /\ \A j \in 1..m : 1 + j \in 1..(1 + m)
      OBVIOUS
    <3> QED
      BY <1>3, <1>4, <1>5, <1>6, <1>7, <3>1, Zenon
  <2>4. ASSUME NEW i \in 1..(1 + m)
        PROVE  f[i] = (h \o d)[i]
    <3>1. i = 1 \/ \E j \in 1..m : i = 1 + j
      <4>1. i # 1 => i - 1 \in 1..m /\ i = 1 + (i - 1)
        OBVIOUS
      <4> QED
        BY <4>1, Zenon
    <3> QED
      BY <2>2, <2>3, <3>1, Zenon
  <2>5. Len(f) = 1 + m
    BY <1>4, <1>7, Zenon
  <2> QED
    BY <2>1, <2>2, <2>4, <2>5, SeqEqual
<1>9. Api!FlattenSeq(h \o d) = s \o Api!FlattenSeq(d)
  <2>1. s \in Seq(Cells) /\ d \in Seq(Seq(Cells))
    BY <1>2, SeqMonotonic
  <2> QED
    BY <1>7, <2>1, FlattenCons, Zenon
<1>10. FlattenSeq(f) = s \o FlattenSeq(d)
  BY <1>8, <1>9, SameFlatten, Zenon
<1> QED
  BY <1>3, <1>6, <1>7, <1>10, Zenon DEF V

\* A round within a single text: the last one is at the closing quote.
LEMMA UnwrapRound ==
  ASSUME NEW q \in Seq(1..255), Nul = 0, Bang \notin Range(q), NEW i \in 1..(Len(q) + 1)
  PROVE  LET u == SqDequoteRound(q, i, FALSE)
         IN  \/ u.then = 0 /\ u.ok = FALSE
             \/ u = LastRound(TRUE, 0) /\ i = Len(q) /\ q[i] = Quote
             \/ \E c \in 1..255, t \in 1..(Len(q) + 1) :
                  /\ u = Round(c, t) /\ t = i + Len(ShellPiece(c))
                  /\ \A j \in 1..Len(ShellPiece(c)) : q[i + (j - 1)] = ShellPiece(c)[j]
<1>1. PICK n \in Nat : n = Len(q) /\ i \in 1..(n + 1)
  BY LenProperties
<1>2. i \in Nat \ {0}
  BY <1>1
<1>3. \A k \in Nat \ {0} : At(q, k) # 0 => k \in 1..n /\ At(q, k) = q[k] /\ q[k] \in 1..255
  BY <1>1, AtIs
<1>4. \A k \in 1..n : q[k] # Bang
  <2>1. DOMAIN q = 1..n
    BY <1>1, LenProperties
  <2> QED
    BY <2>1 DEF Range
<1>5. LastRound(FALSE, 0).then = 0 /\ LastRound(FALSE, 0).ok = FALSE
  BY DEF LastRound
<1>6. CASE At(q, i) = 0
  BY <1>2, <1>5, <1>6, SqRoundIs, Zenon
<1>7. CASE At(q, i) \notin {0, Quote}
  <2>1. SqDequoteRound(q, i, FALSE) = Round(q[i], i + 1)
    BY <1>2, <1>7, SqRoundIs, Zenon
  <2>2. PICK c \in 1..255 : c = q[i] /\ c # Quote /\ c # Bang /\ i \in 1..n
    BY <1>2, <1>3, <1>4, <1>7
  <2>3. ShellPiece(c) = <<c>> /\ Len(<<c>>) = 1 /\ <<c>>[1] = c
    BY <2>2 DEF ShellPiece, NeedBsQuote
  <2>4. i + 1 \in 1..(n + 1)
    BY <2>2
  <2>5. ASSUME NEW j \in 1..1
        PROVE  q[i + (j - 1)] = ShellPiece(c)[j]
    <3>1. j = 1 /\ i + (j - 1) = i
      BY <1>1
    <3> QED
      BY <2>2, <2>3, <3>1, Zenon
  <2> QED
    BY <1>1, <2>1, <2>2, <2>3, <2>4, <2>5, Zenon
<1>8. CASE At(q, i) = Quote
  <2>1. i \in 1..n /\ q[i] = Quote
    BY <1>2, <1>3, <1>8 DEF Quote
  <2>2. \A k : OutOfQuotes(q, k, FALSE) = LastRound(FALSE, 0)
    BY DEF OutOfQuotes
  <2>3. CASE At(q, i + 1) = 0
    <3>1. SqDequoteRound(q, i, FALSE) = LastRound(TRUE, 0)
      BY <1>2, <1>8, <2>3, SqRoundIs, Zenon
    <3>2. i = n
      <4>1. i + 1 \notin 1..Len(q)
        <5>1. i + 1 \in Nat \ {0}
          BY <1>2
        <5> QED
          BY <2>3, <5>1, AtIs
      <4> QED
        BY <1>1, <2>1, <4>1
    <3> QED
      BY <1>1, <2>1, <3>1, <3>2, Zenon
  <2>4. CASE At(q, i + 1) \notin {0, Backslash}
    BY <1>2, <1>5, <1>8, <2>2, <2>4, SqRoundIs, Zenon
  <2>5. CASE At(q, i + 1) = Backslash
    <3>1. CASE ~NeedBsQuote(At(q, i + 2))
      BY <1>2, <1>5, <1>8, <2>2, <2>5, <3>1, SqRoundIs, Zenon
    <3>2. CASE NeedBsQuote(At(q, i + 2)) /\ At(q, i + 3) # Quote
      BY <1>2, <1>5, <1>8, <2>2, <2>5, <3>2, SqRoundIs, Zenon
    <3>3. CASE NeedBsQuote(At(q, i + 2)) /\ At(q, i + 3) = Quote
      <4>1. SqDequoteRound(q, i, FALSE) = Round(q[i + 2], i + 4)
        BY <1>2, <1>8, <2>5, <3>3, SqRoundIs, Zenon
      <4>2. i + 1 \in Nat \ {0} /\ i + 2 \in Nat \ {0} /\ i + 3 \in Nat \ {0}
        BY <1>2
      <4>3. At(q, i + 2) \in {Quote, Bang}
        BY <3>3 DEF NeedBsQuote
      <4>4. Quote # 0 /\ Bang # 0 /\ Backslash # 0
        BY DEF Quote, Bang, Backslash
      <4>5. /\ q[i + 1] = Backslash /\ q[i + 3] = Quote
            /\ i + 3 \in 1..n /\ i + 2 \in 1..n
            /\ q[i + 2] \in {Quote, Bang} /\ q[i + 2] \in 1..255
        BY <1>3, <2>5, <3>3, <4>2, <4>3, <4>4, Zenon
      <4>6. PICK c \in 1..255 : c = q[i + 2] /\ NeedBsQuote(c)
        BY <4>5 DEF NeedBsQuote
      <4>7. /\ ShellPiece(c) = <<Quote, Backslash, c, Quote>>
            /\ <<Quote, Backslash, c, Quote>>[1] = Quote
            /\ <<Quote, Backslash, c, Quote>>[2] = Backslash
            /\ <<Quote, Backslash, c, Quote>>[3] = c
            /\ <<Quote, Backslash, c, Quote>>[4] = Quote
            /\ Len(<<Quote, Backslash, c, Quote>>) = 4
        BY <4>6 DEF ShellPiece
      <4>8. i + 4 \in 1..(n + 1)
        BY <1>1, <4>5
      <4>9. ASSUME NEW j \in 1..4
            PROVE  q[i + (j - 1)] = ShellPiece(c)[j]
        <5>1. \/ j = 1 /\ i + (j - 1) = i
              \/ j = 2 /\ i + (j - 1) = i + 1
              \/ j = 3 /\ i + (j - 1) = i + 2
              \/ j = 4 /\ i + (j - 1) = i + 3
          BY <1>1
        <5> QED
          BY <2>1, <4>5, <4>6, <4>7, <5>1, Zenon
      <4> QED
        BY <1>1, <4>1, <4>6, <4>7, <4>8, <4>9, Zenon
    <3> QED
      BY <3>1, <3>2, <3>3
  <2> QED
    BY <2>3, <2>4, <2>5
<1> QED
  BY <1>6, <1>7, <1>8

\* From the position on, the text is what sq_quote writes for what was read.
Unwraps(q, i, x) ==
  /\ x \in Seq(1..255)
  /\ SubSeq(q, i, Len(q)) = FlattenSeq(ShellPieces(x)) \o <<Quote>>

LEMMA UnwrapStep ==
  ASSUME NEW q \in Seq(1..255), NEW i \in 1..Len(q), NEW c \in 1..255,
         NEW t \in 1..(Len(q) + 1), t = i + Len(ShellPiece(c)),
         \A j \in 1..Len(ShellPiece(c)) : q[i + (j - 1)] = ShellPiece(c)[j],
         NEW x, Unwraps(q, t, x)
  PROVE  Unwraps(q, i, <<c>> \o x)
<1> DEFINE V == 1..255
<1>1. Quote \in V /\ Backslash \in V /\ x \in Seq(V) /\ c \in V /\ q \in Seq(V)
  BY DEF Quote, Backslash, Unwraps
<1> HIDE DEF V
<1>2. PICK s \in Seq(V), w \in Nat : s = ShellPiece(c) /\ w = Len(s)
  <2>1. <<Quote, Backslash, c, Quote>> \in Seq(V) /\ <<c>> \in Seq(V)
    BY <1>1
  <2>2. ShellPiece(c) \in Seq(V)
    BY <2>1 DEF ShellPiece
  <2>3. Len(ShellPiece(c)) \in Nat
    BY <2>2, LenProperties
  <2> QED
    BY <2>2, <2>3, Zenon
<1>3. PICK n \in Nat : n = Len(q) /\ i \in 1..n /\ t \in 1..(n + 1) /\ t = i + w
  BY <1>2, LenProperties, Zenon
<1>4. PICK f \in Seq(V), h \in Seq(V) : f = FlattenSeq(ShellPieces(x)) /\ h = <<Quote>>
  <2>1. FlattenSeq(ShellPieces(x)) \in Seq(V)
    BY <1>1, ShellPiecesAre, FlattenHolds
  <2>2. <<Quote>> \in Seq(V)
    BY <1>1
  <2> QED
    BY <2>1, <2>2
<1>5. SubSeq(q, i, t - 1) = s
  <2>1. i \in 1..(Len(q) + 1) /\ t - 1 \in (i - 1)..Len(q)
    BY <1>3
  <2>2. /\ SubSeq(q, i, t - 1) \in Seq(V)
        /\ Len(SubSeq(q, i, t - 1)) = (t - 1) - i + 1
        /\ \A m \in 1..((t - 1) - i + 1) : SubSeq(q, i, t - 1)[m] = q[i + m - 1]
    BY <1>1, <2>1, Parts
  <2>3. (t - 1) - i + 1 = w
    BY <1>3
  <2>4. \A m \in 1..w : i + m - 1 = i + (m - 1)
    BY <1>3
  <2>5. \A m \in 1..w : SubSeq(q, i, t - 1)[m] = s[m]
    BY <1>2, <2>2, <2>3, <2>4, Zenon
  <2> QED
    BY <1>2, <2>2, <2>3, <2>5, SeqEqual
<1>6. SubSeq(q, t, n) = f \o h
  BY <1>3, <1>4, Zenon DEF Unwraps
<1>7. SubSeq(q, i, n) = s \o (f \o h)
  <2>1. i \in 1..(Len(q) + 1) /\ t - 1 \in (i - 1)..Len(q) /\ Len(q) \in (t - 1)..Len(q)
        /\ (t - 1) + 1 = t
    BY <1>3
  <2>2. SubSeq(q, i, t - 1) \o SubSeq(q, (t - 1) + 1, Len(q)) = SubSeq(q, i, Len(q))
    BY <1>1, <2>1, ConcatAdjacentSubSeq
  <2> QED
    BY <1>3, <1>5, <1>6, <2>1, <2>2, Zenon
<1>8. (s \o f) \o h = s \o (f \o h)
  BY ConcatAssociative, SMTT(40)
<1>9. <<c>> \o x \in Seq(1..255) /\ FlattenSeq(ShellPieces(<<c>> \o x)) = s \o f
  BY <1>1, <1>2, <1>4, ShellCons, Zenon DEF V
<1> QED
  BY <1>3, <1>4, <1>7, <1>8, <1>9, Zenon DEF Unwraps

LEMMA UnwrapsFrom ==
  ASSUME NEW q \in Seq(1..255), Nul = 0, Bang \notin Range(q)
  PROVE  \A i \in 1..(Len(q) + 1) :
           Scanned(SqRounds(q, FALSE), i).ok
             => Unwraps(q, i, Scanned(SqRounds(q, FALSE), i).out)
<1> DEFINE r == SqRounds(q, FALSE)
<1>1. PICK n \in Nat : n = Len(q) /\ r = SqRounds(q, FALSE)
  BY LenProperties
<1> HIDE DEF r
<1>2. /\ Ahead(r, 0..255, n + 1)
      /\ \A i \in 1..(n + 1) : r[i] = SqDequoteRound(q, i, FALSE)
  <2>1. FALSE \in BOOLEAN
    OBVIOUS
  <2> QED
    BY <1>1, <2>1, SqAhead, Zenon
<1> DEFINE Good(i) == Scanned(r, i).ok => Unwraps(q, i, Scanned(r, i).out)
<1>3. ASSUME NEW i \in 1..(n + 1),
             \A t \in 1..(n + 1) : t > i => Good(t)
      PROVE  Good(i)
  <2>1. Scanned(r, i) =
          IF r[i].then = 0 THEN r[i]
          ELSE [out |-> r[i].out \o Scanned(r, r[i].then).out, then |-> 0,
                ok |-> Scanned(r, r[i].then).ok, next |-> Scanned(r, r[i].then).next]
    <3>1. n + 1 \in Nat
      BY <1>1
    <3> QED
      BY <1>2, <3>1, ScannedFrom, Zenon
  <2>2. \/ r[i].then = 0 /\ r[i].ok = FALSE
        \/ r[i] = LastRound(TRUE, 0) /\ i = n /\ q[i] = Quote
        \/ \E c \in 1..255, t \in 1..(n + 1) :
             /\ r[i] = Round(c, t) /\ t = i + Len(ShellPiece(c))
             /\ \A j \in 1..Len(ShellPiece(c)) : q[i + (j - 1)] = ShellPiece(c)[j]
    <3>1. i \in 1..(Len(q) + 1)
      BY <1>1
    <3>2. LET u == SqDequoteRound(q, i, FALSE)
          IN  \/ u.then = 0 /\ u.ok = FALSE
              \/ u = LastRound(TRUE, 0) /\ i = Len(q) /\ q[i] = Quote
              \/ \E c \in 1..255, t \in 1..(Len(q) + 1) :
                   /\ u = Round(c, t) /\ t = i + Len(ShellPiece(c))
                   /\ \A j \in 1..Len(ShellPiece(c)) : q[i + (j - 1)] = ShellPiece(c)[j]
      BY <3>1, UnwrapRound, ZenonT(60)
    <3> QED
      BY <1>1, <1>2, <3>2, Zenon
  <2>3. CASE r[i].then = 0 /\ r[i].ok = FALSE
    BY <2>1, <2>3, Zenon
  <2>4. CASE r[i] = LastRound(TRUE, 0) /\ i = n /\ q[i] = Quote
    <3>1. r[i].then = 0 /\ r[i].out = <<>>
      BY <2>4 DEF LastRound
    <3>2. Scanned(r, i).out = <<>>
      BY <2>1, <3>1, Zenon
    <3>3. SubSeq(q, n, n) = <<Quote>>
      <4>1. n \in 1..Len(q) /\ n \in n..Len(q) /\ n + 1 > n
        BY <1>1, <1>3, <2>4
      <4>2. SubSeq(q, n, n) = <<q[n]>> \o SubSeq(q, n + 1, n)
        BY <4>1, SubSeqRecursiveFirst
      <4>3. SubSeq(q, n + 1, n) = <<>>
        BY <4>1, SubSeqEmpty
      <4>4. <<Quote>> \in Seq(1..255)
        BY DEF Quote
      <4> QED
        BY <2>4, <4>2, <4>3, <4>4, ConcatEmptySeq, Zenon
    <3>4. FlattenSeq(ShellPieces(<<>>)) \o <<Quote>> = <<Quote>>
      <4>1. ShellPieces(<<>>) = <<>>
        BY DEF ShellPieces
      <4>2. FlattenSeq(<<>>) = <<>>
        BY DEF FlattenSeq
      <4>3. <<Quote>> \in Seq(1..255)
        BY DEF Quote
      <4> QED
        BY <4>1, <4>2, <4>3, ConcatEmptySeq, Zenon
    <3>5. <<>> \in Seq(1..255)
      BY EmptySeq
    <3> QED
      BY <1>1, <2>4, <3>2, <3>3, <3>4, <3>5, Zenon DEF Unwraps
  <2>5. CASE \E c \in 1..255, t \in 1..(n + 1) :
               /\ r[i] = Round(c, t) /\ t = i + Len(ShellPiece(c))
               /\ \A j \in 1..Len(ShellPiece(c)) : q[i + (j - 1)] = ShellPiece(c)[j]
    <3>1. PICK c \in 1..255, t \in 1..(n + 1) :
            /\ r[i] = Round(c, t) /\ t = i + Len(ShellPiece(c))
            /\ \A j \in 1..Len(ShellPiece(c)) : q[i + (j - 1)] = ShellPiece(c)[j]
      BY <2>5
    <3>2. r[i].out = <<c>> /\ r[i].then = t
      BY <3>1 DEF Round
    <3>3. t # 0
      BY <1>1
    <3>4. t > i
      <4>1. r[i].then = 0 \/ r[i].then > i
        BY <1>2, Zenon DEF Ahead
      <4> QED
        BY <3>2, <3>3, <4>1
    <3>5. /\ Scanned(r, i).out = <<c>> \o Scanned(r, t).out
          /\ Scanned(r, i).ok = Scanned(r, t).ok
      <4>1. Scanned(r, i) = [out |-> r[i].out \o Scanned(r, t).out, then |-> 0,
                             ok |-> Scanned(r, t).ok, next |-> Scanned(r, t).next]
        BY <2>1, <3>2, <3>3, Zenon
      <4> QED
        BY <3>2, <4>1
    <3>6. i \in 1..Len(q) /\ t \in 1..(Len(q) + 1)
      BY <1>1, <3>4
    <3>7. ASSUME Scanned(r, i).ok
          PROVE  Unwraps(q, i, Scanned(r, i).out)
      <4>1. Unwraps(q, t, Scanned(r, t).out)
        BY <1>3, <3>4, <3>5, <3>7, Zenon
      <4>2. Unwraps(q, i, <<c>> \o Scanned(r, t).out)
        BY <3>1, <3>6, <4>1, UnwrapStep, Zenon
      <4> QED
        BY <3>5, <4>2, Zenon
    <3> QED
      BY <3>7
  <2> QED
    BY <2>2, <2>3, <2>4, <2>5
<1> HIDE DEF Good
<1>4. \A i \in 1..(n + 1) : Good(i)
  <2> DEFINE T == {d \in 0..n : ~Good(n + 1 - d)}
  <2>1. T = {}
    <3>1. SUFFICES ASSUME T # {}
                   PROVE  FALSE
      OBVIOUS
    <3>2. PICK d \in T : \A k \in T : d <= k
      <4>1. T \in SUBSET Nat
        OBVIOUS
      <4> HIDE DEF T
      <4> QED
        BY <3>1, <4>1, Least
    <3>3. PICK i \in 1..(n + 1) : i = n + 1 - d
      BY <1>1
    <3>4. ~Good(i)
      BY <3>3
    <3>5. ASSUME NEW t \in 1..(n + 1), t > i
          PROVE  Good(t)
      <4>1. n + 1 - t \in 0..n /\ n + 1 - (n + 1 - t) = t /\ ~(d <= n + 1 - t)
        BY <1>1, <3>3, <3>5
      <4>2. n + 1 - t \notin T
        BY <3>2, <4>1, Zenon
      <4> QED
        BY <4>1, <4>2
    <3> QED
      BY <1>3, <3>4, <3>5, Zenon
  <2>2. ASSUME NEW k \in 1..(n + 1)
        PROVE  Good(k)
    <3>1. n + 1 - k \in 0..n /\ n + 1 - (n + 1 - k) = k
      BY <1>1
    <3> QED
      BY <2>1, <3>1
  <2> QED
    BY <2>2
<1> QED
  BY <1>1, <1>4, Zenon DEF Good

LEMMA UnwrapsWhole ==
  ASSUME NEW q \in Seq(1..255), Nul = 0, Bang \notin Range(q),
         SqDequotedStep(q, 1, FALSE).ok
  PROVE  q = SqQuoted(SqDequotedStep(q, 1, FALSE).out)
<1>1. PICK n \in Nat : n = Len(q)
  BY LenProperties
<1>2. At(q, 1) = Quote
  <2>1. LastRound(FALSE, 0).ok = FALSE
    BY DEF LastRound
  <2> QED
    BY <2>1, Zenon DEF SqDequotedStep
<1>3. 1 \in 1..n /\ q[1] = Quote
  <2>1. At(q, 1) # 0 /\ 1 \in Nat \ {0}
    BY <1>2 DEF Quote
  <2> QED
    BY <1>1, <1>2, <2>1, AtIs
<1>4. PICK x : x = Scanned(SqRounds(q, FALSE), 1 + 1).out
  OBVIOUS
<1>5. SqDequotedStep(q, 1, FALSE) = Scanned(SqRounds(q, FALSE), 1 + 1)
  <2>1. FALSE \in BOOLEAN /\ 1 \in 1..(Len(q) + 1)
    BY <1>1
  <2> QED
    BY <1>2, <2>1, SqStepIs, Zenon
<1>6. Unwraps(q, 2, x)
  <2>1. 1 + 1 \in 1..(Len(q) + 1) /\ 1 + 1 = 2
    BY <1>1, <1>3
  <2>2. Scanned(SqRounds(q, FALSE), 1 + 1).ok
    BY <1>5, Zenon
  <2> QED
    BY <1>4, <2>1, <2>2, UnwrapsFrom, Zenon
<1> DEFINE V == 1..255
<1>7. q \in Seq(V) /\ x \in Seq(V) /\ Quote \in V /\ Backslash \in V
  BY <1>6 DEF Unwraps, Quote, Backslash
<1> HIDE DEF V
<1>8. PICK f \in Seq(V), h \in Seq(V) : f = FlattenSeq(ShellPieces(x)) /\ h = <<Quote>>
  <2>1. FlattenSeq(ShellPieces(x)) \in Seq(V)
    BY <1>7, ShellPiecesAre, FlattenHolds
  <2>2. <<Quote>> \in Seq(V)
    BY <1>7
  <2> QED
    BY <2>1, <2>2
<1>9. SubSeq(q, 1, n) = <<q[1]>> \o SubSeq(q, 1 + 1, n)
  <2>1. 1 \in 1..Len(q) /\ n \in 1..Len(q)
    BY <1>1, <1>3
  <2> QED
    BY <1>7, <2>1, SubSeqRecursiveFirst
<1>10. SubSeq(q, 2, n) = f \o h
  BY <1>1, <1>6, <1>8, Zenon DEF Unwraps
<1>11. q = h \o (f \o h)
  <2>1. SubSeq(q, 1, n) = q /\ 1 + 1 = 2
    BY <1>1, <1>7, SubSeqFull
  <2> QED
    BY <1>3, <1>8, <1>9, <1>10, <2>1, Zenon
<1>12. (h \o f) \o h = h \o (f \o h)
  BY ConcatAssociative
<1>13. SqQuoted(x) = (h \o f) \o h
  BY <1>8, SqQuotedShape, Zenon
<1> QED
  BY <1>4, <1>5, <1>11, <1>12, <1>13, Zenon

\* What a reader relies on, of one call.
ReadsShell(fn, of, ok, gives) ==
  /\ fn = "argv" /\ of # <<>> =>
       LET read == SqDequotedArgv(Tail(gives))
       IN  read.ok /\ read.out = of
  /\ fn = "dequote" /\ ok /\ Bang \notin Range(of) => of = SqQuoted(gives[1])

(***************************************************************************)
(* Arguments quoted for the shell are read back one by one, and a single   *)
(* text is unwrapped only if sq_quote makes it of the result: quote.c's    *)
(* sq_quote_argv, sq_dequote and sq_dequote_to_argv, whatever the          *)
(* arguments and the texts are.                                            *)
(***************************************************************************)
THEOREM ShellIsReadBack == QuoteSpec => []ShellReadsBack
<1> DEFINE Inv == ReadsShell(quoted.fn, quoted.of, quoted.ok, quoted.gives)
<1>1. Nul = 0 /\ ShellTexts \subseteq Seq(1..255) /\ Lists \subseteq Seq(Seq(1..255))
  BY QuoteAssumption
<1>2. StrbufInit /\ quoted = NothingQuoted => Inv
  BY DEF NothingQuoted, ReadsShell
<1>3. Inv /\ [(StrbufNext /\ UNCHANGED quoted) \/ QuoteNext]_quoteVars => Inv'
  <2> SUFFICES ASSUME Inv, [(StrbufNext /\ UNCHANGED quoted) \/ QuoteNext]_quoteVars
               PROVE  Inv'
    OBVIOUS
  <2>1. ASSUME UNCHANGED quoted
        PROVE  Inv'
    BY <2>1
  <2>2. ASSUME quoted'.fn \notin {"argv", "dequote"}
        PROVE  Inv'
    BY <2>2 DEF ReadsShell
  <2>3. ASSUME NEW name \in Names,
               QuoteCStyle(name) \/ \E path \in Names : QuoteTwoCStyle(name, path)
        PROVE  Inv'
    <3>1. ASSUME QuoteCStyle(name)
          PROVE  quoted'.fn = "c"
      BY <3>1 DEF QuoteCStyle, Quoted
    <3>2. ASSUME NEW path \in Names, QuoteTwoCStyle(name, path)
          PROVE  quoted'.fn = "two"
      BY <3>2 DEF QuoteTwoCStyle, Quoted
    <3> QED
      BY <2>2, <2>3, <3>1, <3>2
  <2>4. ASSUME NEW q \in Quotations, UnquoteCStyle(q)
        PROVE  Inv'
    <3>1. quoted'.fn = "unquote"
      BY <2>4 DEF UnquoteCStyle, Quoted
    <3> QED
      BY <2>2, <3>1
  <2>5. ASSUME NEW in \in Files, NEW prefix \in Directories, QuotePathRelative(in, prefix)
        PROVE  Inv'
    <3>1. quoted'.fn = "relative"
      BY <2>5 DEF QuotePathRelative, Quoted
    <3> QED
      BY <2>2, <3>1
  <2>6. ASSUME NEW args \in Lists, NEW maxlen \in {0, MaxLen}, SqQuoteArgv(args, maxlen)
        PROVE  Inv'
    <3>1. CASE UNCHANGED quoted
      BY <2>1, <3>1
    <3>2. CASE quoted' = Quoted("argv", args, <<>>, TRUE, SqQuotedArgv(args))
      <4>1. /\ quoted'.fn = "argv" /\ quoted'.of = args
            /\ quoted'.gives = SqQuotedArgv(args)
        BY <3>2 DEF Quoted
      <4>2. ASSUME args # <<>>
            PROVE  /\ SqDequotedArgv(Tail(SqQuotedArgv(args))).ok
                   /\ SqDequotedArgv(Tail(SqQuotedArgv(args))).out = args
        <5>1. args \in Seq(Seq(1..255))
          BY <1>1
        <5>2. SqDequotedArgv(Tail(SqQuotedArgv(args))).ok = TRUE
          BY <1>1, <4>2, <5>1, ReadsArgv, Zenon
        <5>3. SqDequotedArgv(Tail(SqQuotedArgv(args))).out = args
          BY <1>1, <4>2, <5>1, ReadsArgv, Zenon
        <5> QED
          BY <5>2, <5>3, Zenon
      <4>3. quoted'.fn # "dequote"
        BY <4>1
      <4> QED
        BY <4>1, <4>2, <4>3, Zenon DEF ReadsShell
    <3>3. UNCHANGED quoted \/ quoted' = Quoted("argv", args, <<>>, TRUE, SqQuotedArgv(args))
      BY <2>6, Zenon DEF SqQuoteArgv
    <3> QED
      BY <3>1, <3>2, <3>3
  <2>7. ASSUME NEW q \in ShellTexts, SqDequote(q)
        PROVE  Inv'
    <3>1. PICK step : step = SqDequotedStep(q, 1, FALSE)
      OBVIOUS
    <3>2. quoted' = Quoted("dequote", q, <<>>, step.ok, <<step.out>>)
      BY <2>7, <3>1, Zenon DEF SqDequote
    <3>3. /\ quoted'.fn = "dequote" /\ quoted'.of = q /\ quoted'.ok = step.ok
          /\ quoted'.gives[1] = step.out
      BY <3>2 DEF Quoted
    <3>4. ASSUME step.ok, Bang \notin Range(q)
          PROVE  q = SqQuoted(step.out)
      <4>1. q \in Seq(1..255)
        BY <1>1
      <4> QED
        BY <1>1, <3>1, <3>4, <4>1, UnwrapsWhole, Zenon
    <3>5. quoted'.fn # "argv"
      BY <3>3
    <3> QED
      BY <3>3, <3>4, <3>5, Zenon DEF ReadsShell
  <2>8. ASSUME NEW q \in ShellTexts, SqDequoteToArgv(q)
        PROVE  Inv'
    <3>1. quoted'.fn = "dequote_argv"
      BY <2>8 DEF SqDequoteToArgv, Quoted
    <3> QED
      BY <2>2, <3>1
  <2> HIDE DEF Inv
  <2> QED
    BY <2>1, <2>3, <2>4, <2>5, <2>6, <2>7, <2>8 DEF QuoteNext, quoteVars
<1>4. Inv => ShellReadsBack
  BY Zenon DEF ShellReadsBack, ReadsShell
<1> QED
  BY <1>2, <1>3, <1>4, PTL DEF QuoteSpec
-----------------------------------------------------------------------------
(***************************************************************************)
(* Walks.  What is said of a walk is said of the function of its places.   *)
(***************************************************************************)
Walks(f, at, t, n) ==
  /\ f[0] = at
  /\ \A k \in 1..n : f[k] = Onward(f[k - 1], t[k])

LEMMA WalkedIs ==
  ASSUME NEW at, NEW t, NEW n \in Nat, Len(t) = n
  PROVE  \E f : Walks(f, at, t, n) /\ Walked(at, t) = f[n]
<1> DEFINE Is(f, m) == f = [k \in 0..m |-> IF k = 0 THEN at ELSE Onward(f[k - 1], t[k])]
           T == {m \in Nat : ~ \E f : Is(f, m)}
<1>1. T = {}
  <2>1. SUFFICES ASSUME T # {}
                 PROVE  FALSE
    OBVIOUS
  <2>2. PICK m \in T : \A k \in T : m <= k
    <3>1. T \in SUBSET Nat
      OBVIOUS
    <3> HIDE DEF T
    <3> QED
      BY <2>1, <3>1, Least
  <2>3. m \in Nat /\ ~ \E f : Is(f, m)
    OBVIOUS
  <2>4. CASE m = 0
    <3>1. Is([k \in 0..0 |-> at], 0)
      OBVIOUS
    <3> QED
      BY <2>3, <2>4, <3>1
  <2>5. CASE m # 0
    <3>1. m - 1 \in Nat /\ ~(m <= m - 1)
      BY <2>3, <2>5
    <3>2. m - 1 \notin T
      BY <2>2, <3>1, Zenon
    <3>3. PICK f : Is(f, m - 1)
      BY <3>1, <3>2
    <3> DEFINE h == [k \in 0..m |-> IF k < m THEN f[k] ELSE Onward(f[m - 1], t[m])]
    <3>4. ASSUME NEW k \in 0..m
          PROVE  h[k] = IF k = 0 THEN at ELSE Onward(h[k - 1], t[k])
      <4>1. CASE k < m
        <5>1. k \in 0..(m - 1) /\ h[k] = f[k]
          BY <2>3, <4>1
        <5>2. f[k] = IF k = 0 THEN at ELSE Onward(f[k - 1], t[k])
          BY <3>3, <5>1, Zenon
        <5>3. k # 0 => h[k - 1] = f[k - 1]
          BY <2>3, <4>1
        <5> QED
          BY <5>1, <5>2, <5>3
      <4>2. CASE k = m
        <5>1. h[m] = Onward(f[m - 1], t[m]) /\ h[m - 1] = f[m - 1]
          BY <2>3, <2>5
        <5> QED
          BY <2>5, <4>2, <5>1
      <4>3. k < m \/ k = m
        BY <2>3
      <4> QED
        BY <4>1, <4>2, <4>3
    <3>5. DOMAIN h = 0..m /\ h = [k \in DOMAIN h |-> h[k]]
      OBVIOUS
    <3> HIDE DEF h
    <3>6. Is(h, m)
      BY <3>4, <3>5
    <3> HIDE DEF Is
    <3> QED
      BY <2>3, <3>6
  <2> QED
    BY <2>4, <2>5
<1>3. \E f : Is(f, n)
  BY <1>1
<1> DEFINE g == CHOOSE f : Is(f, n)
<1>4. Is(g, n)
  BY <1>3, Zenon
<1>5. Walked(at, t) = g[n]
  BY Zenon DEF Walked
<1> HIDE DEF g
<1>6. ASSUME NEW k \in 0..n
      PROVE  g[k] = IF k = 0 THEN at ELSE Onward(g[k - 1], t[k])
  BY <1>4, Zenon
<1>7. g[0] = at
  BY <1>6
<1>8. ASSUME NEW k \in 1..n
      PROVE  g[k] = Onward(g[k - 1], t[k])
  BY <1>6
<1> QED
  BY <1>5, <1>7, <1>8, Zenon DEF Walks

\* From a on, g walks over the bytes of u, which are those of t.
Follows(g, u, a, t, n) ==
  \A k \in 1..n : g[a + k] = Onward(g[a + k - 1], u[a + k]) /\ u[a + k] = t[k]

\* Two walks over the same bytes from the same place stay together.
LEMMA WalkedTogether ==
  ASSUME NEW f, NEW g, NEW at, NEW a \in Nat, NEW n \in Nat, NEW t, NEW u,
         Walks(f, at, t, n), g[a] = at, Follows(g, u, a, t, n),
         NEW k \in 0..n, NEW j, j = a + k
  PROVE  f[k] = g[j]
<1> DEFINE T == {i \in Nat : i <= n /\ f[i] # g[a + i]}
<1>1. SUFFICES ASSUME T # {}
               PROVE  FALSE
  OBVIOUS
<1>2. PICK m \in T : \A i \in T : m <= i
  <2>1. T \in SUBSET Nat
    OBVIOUS
  <2> HIDE DEF T
  <2> QED
    BY <1>1, <2>1, Least
<1>3. m \in Nat /\ m <= n /\ f[m] # g[a + m]
  OBVIOUS
<1>4. m # 0
  <2>1. a + 0 = a /\ f[0] = g[a]
    BY DEF Walks
  <2> QED
    BY <1>3, <2>1
<1>5. m - 1 \in Nat /\ ~(m <= m - 1) /\ m - 1 <= n /\ m \in 1..n /\ a + (m - 1) = a + m - 1
  BY <1>3, <1>4
<1>6. m - 1 \notin T
  BY <1>2, <1>5, Zenon
<1>7. f[m - 1] = g[a + m - 1]
  <2>1. f[m - 1] = g[a + (m - 1)]
    BY <1>5, <1>6
  <2> QED
    BY <1>5, <2>1, Zenon
<1>8. f[m] = Onward(f[m - 1], t[m]) /\ g[a + m] = Onward(g[a + m - 1], t[m])
  BY <1>5, Zenon DEF Walks, Follows
<1> QED
  BY <1>3, <1>7, <1>8, Zenon

LEMMA WalkedAlike ==
  ASSUME NEW f, NEW g, NEW at, NEW n \in Nat, NEW t, NEW u,
         Walks(f, at, t, n), Walks(g, at, u, n), \A k \in 1..n : u[k] = t[k]
  PROVE  f[n] = g[n]
<1>1. PICK o, j \in Nat : o = 0 /\ j = n
  OBVIOUS
<1>2. ASSUME NEW k \in 1..n
      PROVE  g[o + k] = Onward(g[o + k - 1], u[o + k]) /\ u[o + k] = t[k]
  <2>1. o + k = k
    BY <1>1
  <2>2. g[k] = Onward(g[k - 1], u[k]) /\ u[k] = t[k]
    BY DEF Walks
  <2> QED
    BY <2>1, <2>2
<1>3. Walks(f, at, t, n) /\ g[o] = at /\ Follows(g, u, o, t, n)
  <2>1. g[o] = at
    BY <1>1 DEF Walks
  <2> QED
    BY <1>2, <2>1, Zenon DEF Follows
<1>4. n \in 0..n /\ j = o + n
  BY <1>1
<1>5. f[n] = g[j]
  <2> HIDE <1>1
  <2> QED
    BY <1>3, <1>4, WalkedTogether, SMTT(60)
<1> QED
  BY <1>1, <1>5

\* A path is walked piece by piece.
LEMMA WalkedOn ==
  ASSUME NEW at, NEW x \in Seq(1..255), NEW y \in Seq(1..255)
  PROVE  Walked(at, x \o y) = Walked(Walked(at, x), y)
<1>1. PICK m, n \in Nat : m = Len(x) /\ n = Len(y)
  BY LenProperties
<1>2. PICK z : z = x \o y
  OBVIOUS
<1>3. /\ Len(z) = m + n
      /\ \A i \in 1..m : z[i] = x[i]
      /\ \A j \in 1..n : z[m + j] = y[j]
  BY <1>1, <1>2, ConcatAt
<1>4. PICK l \in Nat : l = m + n /\ Len(z) = l /\ Len(x) = m /\ Len(y) = n
  BY <1>1, <1>3
<1>5. PICK f : Walks(f, at, x, m) /\ Walked(at, x) = f[m]
  BY <1>4, WalkedIs, Zenon
<1>6. PICK h : Walks(h, at, z, l) /\ Walked(at, z) = h[l]
  <2>1. Len(z) = l
    BY <1>4
  <2> QED
    BY <2>1, WalkedIs, Zenon
<1>7. PICK to : to = f[m]
  OBVIOUS
<1>8. PICK g : Walks(g, to, y, n) /\ Walked(to, y) = g[n]
  BY <1>4, WalkedIs, Zenon
<1>9. h[0] = at /\ \A k \in 1..l : h[k] = Onward(h[k - 1], z[k])
  BY <1>6, Zenon DEF Walks
<1>10. to = h[m]
  <2>1. \A k \in 1..m : k \in 1..l
    BY <1>4
  <2>2. Walks(h, at, z, m)
    BY <1>9, <2>1 DEF Walks
  <2> QED
    BY <1>3, <1>5, <1>7, <2>2, WalkedAlike, Zenon
<1>11. g[n] = h[l]
  <2>1. ASSUME NEW k \in 1..n
        PROVE  h[m + k] = Onward(h[m + k - 1], z[m + k]) /\ z[m + k] = y[k]
    <3>1. m + k \in 1..l
      BY <1>4
    <3> QED
      BY <1>3, <1>9, <3>1
  <2>2. Follows(h, z, m, y, n)
    BY <2>1, Zenon DEF Follows
  <2>3. n \in 0..n
    OBVIOUS
  <2> QED
    BY <1>4, <1>8, <1>10, <2>2, <2>3, WalkedTogether, SMTT(60)
<1> QED
  BY <1>2, <1>5, <1>6, <1>7, <1>8, <1>11, Zenon

LEMMA EnterIs ==
  ASSUME NEW dir \in Seq(Seq(1..255)), NEW name \in Seq(1..255)
  PROVE  /\ Enter(dir, name) \in Seq(Seq(1..255))
         /\ Enter(dir, <<>>) = dir
         /\ Enter(dir, Here) = dir
         /\ Enter(dir, Above) = SubSeq(dir, 1, Len(dir) - 1)
         /\ name \notin {<<>>, Here, Above} => Enter(dir, name) = Append(dir, name)
<1>1. Len(Above) = 2 /\ Len(Here) = 1 /\ Len(<<>>) = 0
  BY DEF Above, Here
<1>2. Above # Here /\ Above # <<>> /\ Here # <<>>
  BY DEF Above, Here
<1>3. PICK n \in Nat : n = Len(dir)
  BY LenProperties
<1>4. SubSeq(dir, 1, n - 1) \in Seq(Seq(1..255))
  <2>1. CASE n = 0
    <3>1. n - 1 < 1 /\ 1 \in Int /\ n - 1 \in Int
      BY <2>1
    <3>2. SubSeq(dir, 1, n - 1) = <<>>
      BY <3>1, SubSeqEmpty
    <3> QED
      BY <3>2, EmptySeq
  <2>2. CASE n # 0
    <3>1. 1 \in 1..(n + 1) /\ n - 1 \in (1 - 1)..n
      BY <2>2
    <3> QED
      BY <1>3, <3>1, Parts
  <2> QED
    BY <2>1, <2>2
<1>5. Append(dir, name) \in Seq(Seq(1..255))
  BY AppendProperties
<1>6. Enter(dir, Above) = SubSeq(dir, 1, Len(dir) - 1)
  BY <1>2, Zenon DEF Enter, Front
<1>7. Enter(dir, <<>>) = dir
  BY <1>2, Zenon DEF Enter
<1>8. Enter(dir, Here) = dir
  BY <1>2, Zenon DEF Enter
<1>9. ASSUME name \notin {<<>>, Here, Above}
      PROVE  Enter(dir, name) = Append(dir, name)
  <2>1. name # Above /\ name # Here /\ name # <<>>
    BY <1>9
  <2> QED
    BY <2>1, Zenon DEF Enter
<1>10. Enter(dir, name) \in Seq(Seq(1..255))
  <2>1. CASE name = Above
    BY <1>3, <1>4, <1>6, <2>1, Zenon
  <2>2. CASE name = Here \/ name = <<>>
    BY <1>7, <1>8, <2>2, Zenon
  <2>3. CASE name \notin {<<>>, Here, Above}
    BY <1>5, <1>9, <2>3, Zenon
  <2>4. name = Above \/ name = Here \/ name = <<>> \/ name \notin {<<>>, Here, Above}
    OBVIOUS
  <2> QED
    BY <2>1, <2>2, <2>3, <2>4
<1> QED
  BY <1>6, <1>7, <1>8, <1>9, <1>10

\* After k bytes of t, the name being read started behind the last slash.
NameFrom(name, t, k) ==
  \E s \in 1..(k + 1) : /\ s = 1 \/ t[s - 1] = Slash
                        /\ \A i \in s..k : t[i] # Slash
                        /\ name = SubSeq(t, s, k)
PlaceAt(at, t, k) ==
  at.dir \in Seq(Seq(1..255)) /\ at.name \in Seq(1..255) /\ NameFrom(at.name, t, k)

LEMMA PlacesAre ==
  ASSUME NEW f, NEW dir \in Seq(Seq(1..255)), NEW t \in Seq(1..255), NEW n \in Nat,
         Len(t) = n, Walks(f, In(dir, <<>>), t, n), NEW k \in 0..n
  PROVE  PlaceAt(f[k], t, k)
<1> DEFINE T == {i \in Nat : i <= n /\ ~PlaceAt(f[i], t, i)}
<1>1. SUFFICES ASSUME T # {}
               PROVE  FALSE
  OBVIOUS
<1>2. PICK m \in T : \A i \in T : m <= i
  <2>1. T \in SUBSET Nat
    OBVIOUS
  <2> HIDE DEF T
  <2> QED
    BY <1>1, <2>1, Least
<1>3. m \in Nat /\ m <= n /\ ~PlaceAt(f[m], t, m)
  OBVIOUS
<1>4. CASE m = 0
  <2>1. f[0].dir = dir /\ f[0].name = <<>>
    BY DEF Walks, In
  <2>2. SubSeq(t, 1, 0) = <<>>
    BY SubSeqEmpty
  <2>3. NameFrom(<<>>, t, 0)
    BY <2>2 DEF NameFrom
  <2>4. <<>> \in Seq(1..255)
    BY EmptySeq
  <2> QED
    BY <1>3, <1>4, <2>1, <2>3, <2>4, Zenon DEF PlaceAt
<1>5. CASE m # 0
  <2>1. m - 1 \in Nat /\ ~(m <= m - 1) /\ m - 1 <= n /\ m \in 1..n
    BY <1>3, <1>5
  <2>2. m - 1 \notin T
    BY <1>2, <2>1, Zenon
  <2>3. PlaceAt(f[m - 1], t, m - 1)
    BY <2>1, <2>2
  <2>4. PICK d \in Seq(Seq(1..255)), x \in Seq(1..255) :
          f[m - 1].dir = d /\ f[m - 1].name = x /\ NameFrom(x, t, m - 1)
    BY <2>3, Zenon DEF PlaceAt
  <2>5. f[m] = Onward(f[m - 1], t[m])
    BY <2>1, Zenon DEF Walks
  <2>6. CASE t[m] = Slash
    <3>1. f[m].dir = Enter(d, x) /\ f[m].name = <<>>
      BY <2>4, <2>5, <2>6 DEF Onward, In
    <3>2. Enter(d, x) \in Seq(Seq(1..255))
      BY EnterIs
    <3>3. SubSeq(t, m + 1, m) = <<>>
      BY <1>3, SubSeqEmpty
    <3>4. NameFrom(<<>>, t, m)
      <4>1. m + 1 \in 1..(m + 1) /\ (m + 1) - 1 = m /\ \A i \in (m + 1)..m : FALSE
        BY <1>3
      <4> QED
        BY <2>6, <3>3, <4>1 DEF NameFrom
    <3>5. <<>> \in Seq(1..255)
      BY EmptySeq
    <3> QED
      BY <1>3, <3>1, <3>2, <3>4, <3>5, Zenon DEF PlaceAt
  <2>7. CASE t[m] # Slash
    <3>1. f[m].dir = d /\ f[m].name = Append(x, t[m])
      BY <2>4, <2>5, <2>7 DEF Onward, In
    <3>2. t[m] \in 1..255
      BY <2>1, ElementOfSeq
    <3>3. Append(x, t[m]) \in Seq(1..255)
      BY <3>2, AppendProperties
    <3>4. PICK s \in 1..m : /\ s = 1 \/ t[s - 1] = Slash
                            /\ \A i \in s..(m - 1) : t[i] # Slash
                            /\ x = SubSeq(t, s, m - 1)
      <4>1. (m - 1) + 1 = m
        BY <1>3
      <4> QED
        BY <2>4, <4>1 DEF NameFrom
    <3>5. SubSeq(t, s, m) = Append(x, t[m])
      <4>1. s \in 1..n /\ m \in s..n
        BY <1>3
      <4>2. SubSeq(t, s, m) = SubSeq(t, s, m - 1) \o <<t[m]>>
        BY <4>1, SubSeqRecursiveSecond
      <4>3. Append(x, t[m]) = x \o <<t[m]>>
        BY <3>2, AppendIsConcat
      <4> QED
        BY <3>4, <4>2, <4>3
    <3>6. NameFrom(Append(x, t[m]), t, m)
      <4>1. \A i \in s..m : t[i] # Slash
        <5>1. \A i \in s..m : i \in s..(m - 1) \/ i = m
          BY <1>3
        <5> QED
          BY <2>7, <3>4, <5>1
      <4>2. s \in 1..(m + 1)
        BY <1>3
      <4> QED
        BY <3>4, <3>5, <4>1, <4>2 DEF NameFrom
    <3> QED
      BY <1>3, <3>1, <3>3, <3>6, Zenon DEF PlaceAt
  <2> QED
    BY <2>6, <2>7
<1> QED
  BY <1>4, <1>5

\* What the names . and .. do, with the slash behind them.
LEMMA DotsAre ==
  ASSUME NEW dir \in Seq(Seq(1..255)), NEW at, at = In(dir, <<>>)
  PROVE  /\ Walked(at, <<>>) = at
         /\ Walked(at, <<46, Slash>>) = at
         /\ Walked(at, <<46, 46, Slash>>) = In(SubSeq(dir, 1, Len(dir) - 1), <<>>)
<1>1. at.dir = dir /\ at.name = <<>>
  BY DEF In
<1>2. ASSUME NEW f, f[0] = at, f[1] = Onward(f[0], 46)
      PROVE  f[1].dir = dir /\ f[1].name = Here
  <2>1. Append(<<>>, 46) = Here
    BY DEF Here
  <2> QED
    BY <1>1, <1>2, <2>1 DEF Onward, In, Slash
<1>3. <<>> \in Seq(1..255)
  BY EmptySeq
<1>4. Walked(at, <<>>) = at
  <2>1. Len(<<>>) = 0 /\ 0 \in Nat
    OBVIOUS
  <2>2. PICK f : Walks(f, at, <<>>, 0) /\ Walked(at, <<>>) = f[0]
    BY <2>1, WalkedIs, Zenon
  <2> QED
    BY <2>2 DEF Walks
<1>5. Walked(at, <<46, Slash>>) = In(dir, <<>>)
  <2> DEFINE t == <<46, Slash>>
  <2>1. Len(t) = 2 /\ 2 \in Nat /\ t[1] = 46 /\ t[2] = Slash
    OBVIOUS
  <2> HIDE DEF t
  <2>2. PICK f : Walks(f, at, t, 2) /\ Walked(at, t) = f[2]
    <3>1. Len(t) = 2 /\ 2 \in Nat
      BY <2>1
    <3> QED
      BY <3>1, WalkedIs, Zenon
  <2>3. f[0] = at /\ f[1] = Onward(f[0], t[1]) /\ f[2] = Onward(f[1], t[2])
    BY <2>2 DEF Walks
  <2>4. f[1].dir = dir /\ f[1].name = Here
    BY <1>2, <2>1, <2>3
  <2>5. f[2] = In(Enter(dir, Here), <<>>)
    BY <2>1, <2>3, <2>4, Zenon DEF Onward
  <2>6. Enter(dir, Here) = dir
    BY <1>3, EnterIs
  <2> QED
    BY <2>2, <2>5, <2>6, Zenon DEF t
<1>6. Walked(at, <<46, 46, Slash>>) = In(SubSeq(dir, 1, Len(dir) - 1), <<>>)
  <2> DEFINE t == <<46, 46, Slash>>
  <2>1. Len(t) = 3 /\ 3 \in Nat /\ t[1] = 46 /\ t[2] = 46 /\ t[3] = Slash
    OBVIOUS
  <2> HIDE DEF t
  <2>2. PICK f : Walks(f, at, t, 3) /\ Walked(at, t) = f[3]
    <3>1. Len(t) = 3 /\ 3 \in Nat
      BY <2>1
    <3> QED
      BY <3>1, WalkedIs, Zenon
  <2>3. /\ f[0] = at /\ f[1] = Onward(f[0], t[1]) /\ f[2] = Onward(f[1], t[2])
        /\ f[3] = Onward(f[2], t[3])
    BY <2>2 DEF Walks
  <2>4. f[1].dir = dir /\ f[1].name = Here
    BY <1>2, <2>1, <2>3
  <2>5. f[2].dir = dir /\ f[2].name = Above
    <3>1. Append(Here, 46) = Above
      <4>1. PICK x \in Seq(Nat), y \in Seq(Nat) : x = Append(Here, 46) /\ y = Above
        <5>1. Here \in Seq(Nat) /\ Above \in Seq(Nat) /\ 46 \in Nat
          BY DEF Here, Above
        <5>2. Append(Here, 46) \in Seq(Nat)
          BY <5>1, AppendProperties
        <5> QED
          BY <5>1, <5>2, Zenon
      <4>2. Len(x) = 2 /\ Len(y) = 2 /\ x[1] = y[1] /\ x[2] = y[2]
        BY <4>1 DEF Here, Above
      <4>3. \A i \in 1..2 : i = 1 \/ i = 2
        OBVIOUS
      <4>4. x = y
        BY <4>2, <4>3, SeqEqual
      <4> QED
        BY <4>1, <4>4
    <3>2. f[2] = In(dir, Append(Here, 46))
      <4>1. 46 # Slash
        BY DEF Slash
      <4> QED
        BY <2>1, <2>3, <2>4, <4>1, Zenon DEF Onward
    <3> QED
      BY <3>1, <3>2 DEF In
  <2>6. f[3] = In(Enter(dir, Above), <<>>)
    BY <2>1, <2>3, <2>5, Zenon DEF Onward
  <2>7. Enter(dir, Above) = SubSeq(dir, 1, Len(dir) - 1)
    BY <1>3, EnterIs
  <2> QED
    BY <2>2, <2>6, <2>7, Zenon DEF t
<1> QED
  BY <1>4, <1>5, <1>6

\* A slash of a clean path ends the name of a directory.
LEMMA GoesDown ==
  ASSUME NEW f, NEW t \in Seq(1..255), NEW n \in Nat, Clean(t),
         Len(t) = n, Walks(f, In(<<>>, <<>>), t, n), NEW k \in 1..n
  PROVE  /\ t[k] = Slash => f[k].dir = Append(f[k - 1].dir, f[k - 1].name)
         /\ t[k] # Slash => f[k].dir = f[k - 1].dir
<1>1. k - 1 \in 0..n /\ (k - 1) + 1 = k
  OBVIOUS
<1>2. PlaceAt(f[k - 1], t, k - 1)
  <2>1. <<>> \in Seq(Seq(1..255))
    BY EmptySeq
  <2> QED
    BY <1>1, <2>1, PlacesAre, Zenon
<1>3. PICK d \in Seq(Seq(1..255)), x \in Seq(1..255) :
        f[k - 1].dir = d /\ f[k - 1].name = x /\ NameFrom(x, t, k - 1)
  BY <1>2, Zenon DEF PlaceAt
<1>4. f[k] = Onward(f[k - 1], t[k])
  BY Zenon DEF Walks
<1>5. ASSUME t[k] # Slash
      PROVE  f[k].dir = d
  BY <1>3, <1>4, <1>5 DEF Onward, In
<1>6. ASSUME t[k] = Slash
      PROVE  f[k].dir = Append(d, x)
  <2>1. f[k].dir = Enter(d, x)
    BY <1>3, <1>4, <1>6 DEF Onward, In
  <2>2. PICK s \in 1..k : /\ s = 1 \/ t[s - 1] = Slash
                          /\ \A i \in s..(k - 1) : t[i] # Slash
                          /\ x = SubSeq(t, s, k - 1)
    BY <1>1, <1>3 DEF NameFrom
  <2>3. NameAt(t, s, k - 1)
    BY <1>1, <1>6, <2>2 DEF NameAt
  <2>4. s \in DOMAIN t /\ k - 1 \in (s - 1)..Len(t)
    <3>1. DOMAIN t = 1..n
      BY LenProperties
    <3> QED
      BY <3>1
  <2>5. x \notin {<<>>, Here, Above}
    BY <2>2, <2>3, <2>4, Zenon DEF Clean
  <2> QED
    BY <2>1, <2>5, EnterIs, Zenon
<1> QED
  BY <1>3, <1>5, <1>6, Zenon

\* From the directory reached after i bytes on, the walk stays below it.
StartsWith(x, y) == Len(y) <= Len(x) /\ \A j \in 1..Len(y) : x[j] = y[j]

LEMMA StaysBelow ==
  ASSUME NEW f, NEW t \in Seq(1..255), NEW n \in Nat, Clean(t),
         Len(t) = n, Walks(f, In(<<>>, <<>>), t, n), NEW i \in 0..n, NEW k \in i..n
  PROVE  StartsWith(f[k].dir, f[i].dir)
<1> DEFINE T == {h \in Nat : i <= h /\ h <= n /\ ~StartsWith(f[h].dir, f[i].dir)}
<1>1. SUFFICES ASSUME T # {}
               PROVE  FALSE
  OBVIOUS
<1>2. PICK m \in T : \A h \in T : m <= h
  <2>1. T \in SUBSET Nat
    OBVIOUS
  <2> HIDE DEF T
  <2> QED
    BY <1>1, <2>1, Least
<1>3. m \in Nat /\ i <= m /\ m <= n /\ ~StartsWith(f[m].dir, f[i].dir)
  OBVIOUS
<1>4. ASSUME NEW h \in 0..n
      PROVE  /\ f[h].dir \in Seq(Seq(1..255)) /\ f[h].name \in Seq(1..255)
             /\ Len(f[h].dir) \in Nat
  <2>1. <<>> \in Seq(Seq(1..255))
    BY EmptySeq
  <2>2. PlaceAt(f[h], t, h)
    BY <2>1, PlacesAre, Zenon
  <2> QED
    BY <2>2, LenProperties DEF PlaceAt
<1>5. m # i
  <2>1. Len(f[i].dir) \in Nat
    BY <1>4
  <2>2. StartsWith(f[i].dir, f[i].dir)
    BY <2>1 DEF StartsWith
  <2> QED
    BY <1>3, <2>2
<1>6. m - 1 \in Nat /\ ~(m <= m - 1) /\ i <= m - 1 /\ m - 1 <= n /\ m \in 1..n
      /\ m - 1 \in 0..n
  BY <1>3, <1>5
<1>7. m - 1 \notin T
  BY <1>2, <1>6, Zenon
<1>8. StartsWith(f[m - 1].dir, f[i].dir)
  BY <1>6, <1>7
<1>9. PICK d \in Seq(Seq(1..255)), x \in Seq(1..255), c \in Seq(Seq(1..255)) :
        f[m - 1].dir = d /\ f[m - 1].name = x /\ f[i].dir = c /\ Len(c) \in Nat
  <2>1. i \in 0..n
    OBVIOUS
  <2> QED
    BY <1>4, <1>6, <2>1, Zenon
<1>10. CASE t[m] = Slash
  <2>1. f[m].dir = Append(d, x)
    BY <1>6, <1>9, <1>10, GoesDown, Zenon
  <2>2. PICK e : e = Append(d, x) /\ Len(e) = Len(d) + 1 /\ Len(d) \in Nat
                 /\ \A j \in 1..Len(d) : e[j] = d[j]
    <3>1. Len(Append(d, x)) = Len(d) + 1 /\ \A j \in 1..Len(d) : Append(d, x)[j] = d[j]
      BY AppendProperties
    <3>2. Len(d) \in Nat
      BY LenProperties
    <3> QED
      BY <3>1, <3>2, Zenon
  <2>3. StartsWith(e, c)
    <3>1. Len(c) <= Len(d) /\ \A j \in 1..Len(c) : d[j] = c[j]
      BY <1>8, <1>9 DEF StartsWith
    <3>2. \A j \in 1..Len(c) : j \in 1..Len(d)
      BY <1>9, <2>2, <3>1
    <3>3. Len(c) <= Len(e)
      BY <1>9, <2>2, <3>1
    <3> QED
      BY <2>2, <3>1, <3>2, <3>3 DEF StartsWith
  <2> QED
    BY <1>3, <1>9, <2>1, <2>2, <2>3, Zenon
<1>11. CASE t[m] # Slash
  <2>1. f[m].dir = f[m - 1].dir
    BY <1>6, <1>11, GoesDown, Zenon
  <2> QED
    BY <1>3, <1>8, <2>1, Zenon
<1> QED
  BY <1>10, <1>11

\* The steps up are put together one by one.
StepUp(d, i) == IF d[i] = Slash THEN <<46, 46, Slash>> ELSE <<>>

LEMMA StepsUpFrom ==
  ASSUME NEW d \in Seq(1..255), NEW n \in Nat, Len(d) = n
  PROVE  \E e : /\ e[0] = <<>> /\ e[n] = StepsUp(d)
                /\ \A i \in 1..n : e[i] = e[i - 1] \o StepUp(d, i)
<1> DEFINE ps == [k \in 1..n |-> StepUp(d, k)]
<1>1. StepsUp(d) = FlattenSeq(ps)
  <2>1. DOMAIN d = 1..n
    BY LenProperties
  <2> QED
    BY <2>1, Zenon DEF StepsUp, StepUp
<1>2. Len(ps) = n
  <2>1. ps \in [1..n -> {<<46, 46, Slash>>, <<>>}]
    BY DEF StepUp
  <2> HIDE DEF ps
  <2>2. ps \in Seq({<<46, 46, Slash>>, <<>>})
    BY <2>1
  <2> QED
    BY <2>1, <2>2, LenProperties
<1>3. \A i \in 1..n : ps[i] = StepUp(d, i)
  OBVIOUS
<1> HIDE DEF ps
<1>4. CASE n = 0
  <2>1. FlattenSeq(ps) = <<>>
    <3>1. ps = <<>>
      BY <1>2, <1>4 DEF ps
    <3> QED
      BY <3>1 DEF FlattenSeq
  <2> DEFINE e == [i \in {0} |-> <<>>]
  <2>2. e[0] = <<>> /\ e[n] = StepsUp(d) /\ \A i \in 1..n : FALSE
    BY <1>1, <1>4, <2>1
  <2> QED
    BY <2>2
<1>5. CASE n # 0
  <2>1. PICK f : Joined(f, ps) /\ FlattenSeq(ps) = f[n]
    <3>1. Len(ps) \in Nat /\ Len(ps) # 0
      BY <1>2, <1>5
    <3> QED
      BY <1>2, <3>1, FlattenIsJoined, SameFlatten
  <2>2. \A i \in 1..n : f[i] = IF i = 1 THEN ps[i] ELSE f[i - 1] \o ps[i]
    BY <1>2, <2>1 DEF Joined
  <2> DEFINE e == [i \in 0..n |-> IF i = 0 THEN <<>> ELSE f[i]]
  <2>3. e[0] = <<>> /\ e[n] = StepsUp(d)
    BY <1>1, <1>5, <2>1
  <2>4. ASSUME NEW i \in 1..n
        PROVE  e[i] = e[i - 1] \o StepUp(d, i)
    <3>1. e[i] = f[i] /\ e[i - 1] = IF i = 1 THEN <<>> ELSE f[i - 1]
      OBVIOUS
    <3>2. StepUp(d, i) \in Seq(1..255)
      <4>1. <<46, 46, Slash>> \in Seq(1..255) /\ <<>> \in Seq(1..255)
        BY DEF Slash
      <4> QED
        BY <4>1, Zenon DEF StepUp
    <3>3. <<>> \o StepUp(d, i) = StepUp(d, i)
      BY <3>2, ConcatEmptySeq
    <3> HIDE DEF e
    <3> QED
      BY <1>3, <2>2, <3>1, <3>3
  <2> QED
    BY <2>3, <2>4
<1> QED
  BY <1>4, <1>5

\* s counts the slashes of d, which go up from dir with l names to b of them.
Counts(s, d, n, dir, l, b) ==
  /\ s \in [0..n -> Nat] /\ Len(d) = n /\ Len(dir) = l /\ b = l - s[n]
  /\ s[0] = 0
  /\ \A k \in 1..n : s[k] = IF d[k] = Slash THEN s[k - 1] + 1 ELSE s[k - 1]
  /\ \A k \in 0..n : s[k] <= l

LeadsUp(dir, d, b) == Walked(In(dir, <<>>), StepsUp(d)) = In(SubSeq(dir, 1, b), <<>>)

\* Going up as often as d has slashes takes that many names away.
LEMMA GoesUp ==
  ASSUME NEW d \in Seq(1..255), NEW n \in Nat, NEW s,
         NEW dir \in Seq(Seq(1..255)), NEW l \in Nat, NEW b, Counts(s, d, n, dir, l, b)
  PROVE  LeadsUp(dir, d, b)
<1>0. s \in [0..n -> Nat] /\ Len(d) = n /\ Len(dir) = l /\ b = l - s[n] /\ \A k \in 0..n : s[k] <= l
  BY DEF Counts
<1>1. PICK e : /\ e[0] = <<>> /\ e[n] = StepsUp(d)
               /\ \A i \in 1..n : e[i] = e[i - 1] \o StepUp(d, i)
  BY <1>0, StepsUpFrom, Zenon
<1> DEFINE Up(i) == /\ e[i] \in Seq(1..255)
                    /\ Walked(In(dir, <<>>), e[i]) = In(SubSeq(dir, 1, l - s[i]), <<>>)
           T == {i \in Nat : i <= n /\ ~Up(i)}
<1>2. Up(0)
  <2>1. SubSeq(dir, 1, l - s[0]) = dir
    <3>1. l - 0 = l /\ s[0] = 0
      BY DEF Counts
    <3>2. SubSeq(dir, 1, l) = dir
      BY <1>0, SubSeqFull
    <3> QED
      BY <3>1, <3>2
  <2>2. Walked(In(dir, <<>>), <<>>) = In(dir, <<>>)
    BY DotsAre
  <2>3. <<>> \in Seq(1..255)
    BY EmptySeq
  <2> QED
    BY <1>1, <2>1, <2>2, <2>3, Zenon
<1>3. T = {}
  <2>1. SUFFICES ASSUME T # {}
                 PROVE  FALSE
    OBVIOUS
  <2>2. PICK m \in T : \A i \in T : m <= i
    <3>1. T \in SUBSET Nat
      OBVIOUS
    <3> HIDE DEF T
    <3> QED
      BY <2>1, <3>1, Least
  <2>3. m \in Nat /\ m <= n /\ ~Up(m)
    OBVIOUS
  <2>4. m # 0
    BY <1>2, <2>3
  <2>5. m - 1 \in Nat /\ ~(m <= m - 1) /\ m - 1 <= n /\ m \in 1..n /\ m - 1 \in 0..n
    BY <2>3, <2>4
  <2>6. m - 1 \notin T
    BY <2>2, <2>5, Zenon
  <2>7. Up(m - 1)
    <3> HIDE DEF Up
    <3> QED
      BY <2>5, <2>6
  <2> HIDE DEF T
  <2>8. PICK x \in Seq(1..255), a \in Nat :
          /\ x = e[m - 1] /\ a = l - s[m - 1] /\ a <= l
          /\ Walked(In(dir, <<>>), x) = In(SubSeq(dir, 1, a), <<>>)
    <3>1. s[m - 1] \in Nat /\ s[m - 1] <= l
      BY <1>0, <2>5
    <3>2. l - s[m - 1] \in Nat /\ l - s[m - 1] <= l
      BY <3>1
    <3> QED
      BY <2>7, <3>2, Zenon
  <2>9. e[m] = x \o StepUp(d, m)
    BY <1>1, <2>5, <2>8, Zenon
  <2>10. PICK c \in Seq(Seq(1..255)) :
           c = SubSeq(dir, 1, a) /\ Len(c) = a /\ \A i \in 1..a : c[i] = dir[i]
    <3>1. 1 \in 1..(l + 1) /\ a \in (1 - 1)..l /\ a - 1 + 1 = a /\ \A i \in 1..a : 1 + i - 1 = i
      BY <2>8
    <3>2. /\ SubSeq(dir, 1, a) \in Seq(Seq(1..255)) /\ Len(SubSeq(dir, 1, a)) = a - 1 + 1
          /\ \A i \in 1..(a - 1 + 1) : SubSeq(dir, 1, a)[i] = dir[1 + i - 1]
      BY <1>0, <3>1, Parts
    <3>3. Len(SubSeq(dir, 1, a)) = a /\ \A i \in 1..a : SubSeq(dir, 1, a)[i] = dir[i]
      BY <3>1, <3>2
    <3> QED
      BY <3>2, <3>3, Zenon
  <2>11. CASE d[m] = Slash
    <3>1. PICK u \in Seq(1..255) : u = <<46, 46, Slash>> /\ StepUp(d, m) = u
      <4>1. <<46, 46, Slash>> \in Seq(1..255)
        BY DEF Slash
      <4> QED
        BY <2>11, <4>1, Zenon DEF StepUp
    <3>2. Walked(In(dir, <<>>), x \o u) = In(SubSeq(c, 1, a - 1), <<>>)
      <4>1. Walked(In(dir, <<>>), x \o u) = Walked(In(c, <<>>), u)
        <5>1. Walked(In(dir, <<>>), x \o u) = Walked(Walked(In(dir, <<>>), x), u)
          BY WalkedOn
        <5> QED
          BY <2>8, <2>10, <5>1, Zenon
      <4>2. Walked(In(c, <<>>), u) = In(SubSeq(c, 1, Len(c) - 1), <<>>)
        BY <3>1, DotsAre
      <4> QED
        BY <2>10, <4>1, <4>2, Zenon
    <3>3. a - 1 \in Nat /\ a - 1 = l - s[m] /\ a # 0
      <4>1. s[m] = s[m - 1] + 1 /\ s[m - 1] \in Nat /\ s[m] \in Nat /\ s[m] <= l
        BY <1>0, <2>5, <2>11 DEF Counts
      <4>2. PICK y, z \in Nat : y = s[m - 1] /\ z = s[m]
        BY <4>1, Zenon
      <4>3. a = l - y /\ z = y + 1 /\ z <= l
        BY <2>8, <4>1, <4>2, Zenon
      <4>4. a - 1 \in Nat /\ a - 1 = l - z /\ a # 0
        <5> HIDE <4>2
        <5> QED
          BY <4>3
      <4> QED
        BY <4>2, <4>4, Zenon
    <3>4. SubSeq(c, 1, a - 1) = SubSeq(dir, 1, a - 1)
      <4>1. 1 \in 1..(l + 1) /\ 1 \in 1..(a + 1) /\ a - 1 \in (1 - 1)..l /\ a - 1 \in (1 - 1)..a
            /\ (a - 1) - 1 + 1 = a - 1 /\ \A i \in 1..(a - 1) : 1 + i - 1 = i /\ i \in 1..a
        <5>1. a <= l
          BY <2>8, Zenon
        <5> QED
          BY <3>3, <5>1
      <4>2. PICK y \in Seq(Seq(1..255)), z \in Seq(Seq(1..255)) :
              /\ y = SubSeq(c, 1, a - 1) /\ z = SubSeq(dir, 1, a - 1)
              /\ Len(y) = a - 1 /\ Len(z) = a - 1
              /\ \A i \in 1..(a - 1) : y[i] = c[i] /\ z[i] = dir[i]
        <5>1. /\ SubSeq(c, 1, a - 1) \in Seq(Seq(1..255))
              /\ Len(SubSeq(c, 1, a - 1)) = (a - 1) - 1 + 1
              /\ \A i \in 1..((a - 1) - 1 + 1) : SubSeq(c, 1, a - 1)[i] = c[1 + i - 1]
          BY <2>10, <4>1, Parts
        <5>2. /\ SubSeq(dir, 1, a - 1) \in Seq(Seq(1..255))
              /\ Len(SubSeq(dir, 1, a - 1)) = (a - 1) - 1 + 1
              /\ \A i \in 1..((a - 1) - 1 + 1) : SubSeq(dir, 1, a - 1)[i] = dir[1 + i - 1]
          BY <1>0, <4>1, Parts
        <5>3. /\ Len(SubSeq(c, 1, a - 1)) = a - 1 /\ Len(SubSeq(dir, 1, a - 1)) = a - 1
              /\ \A i \in 1..(a - 1) : /\ SubSeq(c, 1, a - 1)[i] = c[i]
                                      /\ SubSeq(dir, 1, a - 1)[i] = dir[i]
          BY <4>1, <5>1, <5>2
        <5> QED
          BY <5>1, <5>2, <5>3, Zenon
      <4>3. \A i \in 1..(a - 1) : y[i] = z[i]
        BY <2>10, <4>1, <4>2
      <4>4. y = z
        BY <4>2, <4>3, SeqEqual
      <4> QED
        BY <4>2, <4>4, Zenon
    <3>5. x \o u \in Seq(1..255)
      BY ConcatAt
    <3>6. Up(m)
      BY <2>9, <3>1, <3>2, <3>3, <3>4, <3>5, Zenon
    <3> QED
      BY <2>3, <3>6
  <2>12. CASE d[m] # Slash
    <3>1. e[m] = x
      <4>1. StepUp(d, m) = <<>>
        BY <2>12, Zenon DEF StepUp
      <4> QED
        BY <2>9, <4>1, ConcatEmptySeq
    <3>2. s[m] = s[m - 1]
      BY <2>5, <2>12 DEF Counts
    <3>3. Up(m)
      BY <2>8, <3>1, <3>2, Zenon
    <3> QED
      BY <2>3, <3>3
  <2> QED
    BY <2>11, <2>12
<1>4. Up(n)
  <2>1. n \notin T
    BY <1>3
  <2> HIDE DEF Up
  <2> QED
    BY <2>1
<1> QED
  BY <1>0, <1>1, <1>4, Zenon DEF LeadsUp

\* Behind a slash, or at the start, no name has been read.
LEMMA BehindSlash ==
  ASSUME NEW f, NEW t \in Seq(1..255), NEW n \in Nat, Len(t) = n,
         Walks(f, In(<<>>, <<>>), t, n), NEW k \in 0..n, k = 0 \/ t[k] = Slash
  PROVE  \E dir \in Seq(Seq(1..255)) : f[k] = In(dir, <<>>) /\ f[k].dir = dir
<1>1. <<>> \in Seq(Seq(1..255))
  BY EmptySeq
<1>2. CASE k = 0
  <2>1. f[k] = In(<<>>, <<>>)
    BY <1>2 DEF Walks
  <2>2. f[k].dir = <<>>
    BY <2>1 DEF In
  <2> QED
    BY <1>1, <2>1, <2>2, Zenon
<1>3. CASE k # 0
  <2>1. k \in 1..n /\ t[k] = Slash
    BY <1>3
  <2>2. f[k] = Onward(f[k - 1], t[k])
    BY <2>1, Zenon DEF Walks
  <2>3. PICK dir : f[k] = In(dir, <<>>)
    BY <2>1, <2>2, Zenon DEF Onward
  <2>4. f[k].dir = dir
    BY <2>3 DEF In
  <2>5. PlaceAt(f[k], t, k)
    BY <1>1, PlacesAre, Zenon
  <2> QED
    BY <2>3, <2>4, <2>5, Zenon DEF PlaceAt
<1> QED
  BY <1>2, <1>3

\* Without a slash the directory stays the same.
LEMMA StaysIn ==
  ASSUME NEW f, NEW t \in Seq(1..255), NEW n \in Nat, Clean(t),
         Len(t) = n, Walks(f, In(<<>>, <<>>), t, n), NEW i \in 0..n, NEW k \in i..n,
         \A j \in (i + 1)..k : t[j] # Slash
  PROVE  f[k].dir = f[i].dir
<1> DEFINE T == {h \in Nat : i <= h /\ h <= k /\ f[h].dir # f[i].dir}
<1>1. SUFFICES ASSUME T # {}
               PROVE  FALSE
  OBVIOUS
<1>2. PICK m \in T : \A h \in T : m <= h
  <2>1. T \in SUBSET Nat
    OBVIOUS
  <2> HIDE DEF T
  <2> QED
    BY <1>1, <2>1, Least
<1>3. m \in Nat /\ i <= m /\ m <= k /\ f[m].dir # f[i].dir
  OBVIOUS
<1>4. m # i
  BY <1>3
<1>5. m - 1 \in Nat /\ ~(m <= m - 1) /\ i <= m - 1 /\ m - 1 <= k /\ m \in 1..n
      /\ m \in (i + 1)..k
  BY <1>3, <1>4
<1>6. m - 1 \notin T
  BY <1>2, <1>5, Zenon
<1>7. f[m - 1].dir = f[i].dir
  BY <1>5, <1>6
<1>8. f[m].dir = f[m - 1].dir
  BY <1>5, GoesDown, Zenon
<1> QED
  BY <1>3, <1>7, <1>8, Zenon

LEMMA RestIs ==
  ASSUME NEW t \in Seq(1..255), NEW i \in 0..Len(t)
  PROVE  \E x \in Seq(1..255), n \in Nat :
           /\ x = SubSeq(t, i + 1, Len(t)) /\ Len(x) = n /\ n = Len(t) - i
           /\ \A k \in 1..n : x[k] = t[i + k]
<1>1. PICK l \in Nat : l = Len(t)
  BY LenProperties
<1>2. PICK n \in Nat : n = l - i
  <2>1. l - i \in Nat
    BY <1>1
  <2> QED
    BY <2>1, Zenon
<1>3. /\ i + 1 \in 1..(l + 1) /\ l \in ((i + 1) - 1)..l /\ l - (i + 1) + 1 = n
      /\ \A k \in 1..n : (i + 1) + k - 1 = i + k
  BY <1>1, <1>2
<1>4. /\ SubSeq(t, i + 1, l) \in Seq(1..255)
      /\ Len(SubSeq(t, i + 1, l)) = l - (i + 1) + 1
      /\ \A k \in 1..(l - (i + 1) + 1) : SubSeq(t, i + 1, l)[k] = t[(i + 1) + k - 1]
  <2>1. i + 1 \in 1..(Len(t) + 1) /\ l \in ((i + 1) - 1)..Len(t)
    BY <1>1, <1>3
  <2> QED
    BY <2>1, Parts
<1>5. Len(SubSeq(t, i + 1, l)) = n /\ \A k \in 1..n : SubSeq(t, i + 1, l)[k] = t[i + k]
  BY <1>3, <1>4
<1> QED
  BY <1>1, <1>2, <1>4, <1>5, Zenon

LEMMA PathLeadsBack ==
  ASSUME NEW in \in Seq(1..255), NEW prefix \in Seq(1..255), Clean(prefix),
         prefix # <<>> => prefix[Len(prefix)] = Slash
  PROVE  /\ LeadsTo(<<>>, prefix) \in Seq(Seq(1..255))
         /\ LeadsTo(LeadsTo(<<>>, prefix), PathRelative(in, prefix)) = LeadsTo(<<>>, in)
<1>0. PICK root : root = In(<<>>, <<>>)
  OBVIOUS
<1>11. Clean(prefix)
  OBVIOUS
<1>1. PICK i \in Nat, off \in Nat : CommonPart(in, prefix, i, off)
  BY PathRelativeIs
<1>2. PICK l \in Nat, p \in Nat :
        /\ l = Len(in) /\ p = Len(prefix) /\ off <= i /\ i <= l /\ i <= p
        /\ \A k \in 1..i : in[k] = prefix[k]
        /\ off = 0 \/ prefix[off] = Slash
        /\ \A k \in (off + 1)..i : prefix[k] # Slash
        /\ PathRelative(in, prefix) = StepsUp(SubSeq(prefix, i + 1, p)) \o SubSeq(in, off + 1, l)
  BY <1>1, LenProperties DEF CommonPart
<1>3. PICK f : Walks(f, root, prefix, p) /\ Walked(root, prefix) = f[p]
  <2>1. Len(prefix) = p
    BY <1>2
  <2> QED
    BY <2>1, WalkedIs, Zenon
<1>4. PICK h : Walks(h, root, in, l) /\ Walked(root, in) = h[l]
  <2>1. Len(in) = l
    BY <1>2
  <2> QED
    BY <2>1, WalkedIs, Zenon
<1>10. Walks(f, In(<<>>, <<>>), prefix, p) /\ Len(prefix) = p
  BY <1>0, <1>2, <1>3
<1>5. PICK C \in Seq(Seq(1..255)) : f[off] = In(C, <<>>) /\ f[off].dir = C
  <2>1. off \in 0..p /\ Len(prefix) = p /\ (off = 0 \/ prefix[off] = Slash)
    BY <1>2
  <2> QED
    BY <1>10, <2>1, BehindSlash
<1>6. PICK D \in Seq(Seq(1..255)) : f[p] = In(D, <<>>) /\ f[p].dir = D
  <2>1. p \in 0..p /\ Len(prefix) = p /\ (p = 0 \/ prefix[p] = Slash)
    <3>1. p # 0 => prefix # <<>>
      BY <1>2
    <3> QED
      BY <1>2, <3>1
  <2>2. PICK q : q \in 0..p /\ q = p /\ (q = 0 \/ prefix[q] = Slash)
    BY <2>1
  <2>3. PICK D \in Seq(Seq(1..255)) : f[q] = In(D, <<>>) /\ f[q].dir = D
    BY <1>10, <2>2, BehindSlash
  <2> QED
    BY <2>2, <2>3, Zenon
<1>7. PICK d \in Seq(1..255), n \in Nat :
        /\ d = SubSeq(prefix, i + 1, p) /\ Len(d) = n /\ n = p - i
        /\ \A k \in 1..n : d[k] = prefix[i + k]
  <2>1. i <= p /\ p = Len(prefix)
    BY <1>2, Zenon
  <2>2. i \in 0..Len(prefix)
    BY <2>1
  <2> QED
    BY <2>1, <2>2, RestIs
<1>12. PICK r \in Seq(1..255), m \in Nat :
        /\ r = SubSeq(in, off + 1, l) /\ Len(r) = m /\ m = l - off
        /\ \A k \in 1..m : r[k] = in[off + k]
  <2>1. off <= i /\ i <= l /\ l = Len(in)
    BY <1>2, Zenon
  <2>2. off \in 0..Len(in)
    BY <2>1
  <2> QED
    BY <2>1, <2>2, RestIs, Zenon
<1>8. f[off] = h[off]
  <2>1. \A k \in 1..off : k \in 1..p /\ k \in 1..l /\ k \in 1..i
    BY <1>2
  <2>2. Walks(f, root, prefix, off) /\ Walks(h, root, in, off)
    BY <1>3, <1>4, <2>1 DEF Walks
  <2>3. \A k \in 1..off : in[k] = prefix[k]
    BY <1>2, <2>1
  <2> QED
    BY <2>2, <2>3, WalkedAlike, Zenon
<1>9. f[i].dir = C
  <2>1. i \in off..p /\ off \in 0..p
    BY <1>2
  <2>2. \A j \in (off + 1)..i : prefix[j] # Slash
    BY <1>2
  <2>3. f[i].dir = f[off].dir
    BY <1>10, <1>11, <2>1, <2>2, StaysIn, Zenon
  <2> QED
    BY <1>5, <2>3, Zenon
<1>13. off <= i /\ i <= l /\ i <= p
  BY <1>2, Zenon
<1>14. ASSUME NEW k \in 0..n
       PROVE  i + k \in i..p /\ i + k \in 0..p /\ p \in (i + k)..p
  BY <1>7, <1>13
<1>15. PICK b \in Nat, c \in Nat : b = Len(C) /\ c = Len(D)
  BY LenProperties
<1>16. ASSUME NEW k \in 0..n
       PROVE  Len(f[i + k].dir) \in Nat /\ b <= Len(f[i + k].dir) /\ Len(f[i + k].dir) <= c
  <2>1. PlaceAt(f[i + k], prefix, i + k)
    <3>1. <<>> \in Seq(Seq(1..255))
      BY EmptySeq
    <3> QED
      BY <1>10, <1>14, <3>1, PlacesAre, Zenon
  <2>2. Len(f[i + k].dir) \in Nat
    BY <2>1, LenProperties DEF PlaceAt
  <2>3. StartsWith(f[i + k].dir, f[i].dir)
    <3>1. i \in 0..p
      BY <1>13
    <3> QED
      BY <1>10, <1>11, <1>14, <3>1, StaysBelow, Zenon
  <2>4. StartsWith(f[p].dir, f[i + k].dir)
    BY <1>10, <1>11, <1>14, StaysBelow, Zenon
  <2>5. b <= Len(f[i + k].dir)
    BY <1>9, <1>15, <2>3, Zenon DEF StartsWith
  <2>6. Len(f[i + k].dir) <= c
    BY <1>6, <1>15, <2>4, Zenon DEF StartsWith
  <2> QED
    BY <2>2, <2>5, <2>6
<1>17. StartsWith(D, C)
  <2>1. i \in 0..p /\ p \in i..p
    BY <1>13
  <2>2. StartsWith(f[p].dir, f[i].dir)
    BY <1>10, <1>11, <2>1, StaysBelow, Zenon
  <2> QED
    BY <1>6, <1>9, <2>2, Zenon
<1>18. PICK s \in [0..n -> Nat] : \A k \in 0..n : s[k] = Len(f[i + k].dir) - b
  <2> DEFINE g == [k \in 0..n |-> Len(f[i + k].dir) - b]
  <2>1. ASSUME NEW k \in 0..n
        PROVE  Len(f[i + k].dir) - b \in Nat
    <3>1. PICK x \in Nat : x = Len(f[i + k].dir) /\ b <= x
      BY <1>16, Zenon
    <3>2. x - b \in Nat
      BY <3>1
    <3> QED
      BY <3>1, <3>2, Zenon
  <2>2. g \in [0..n -> Nat]
    BY <2>1
  <2>3. \A k \in 0..n : g[k] = Len(f[i + k].dir) - b
    OBVIOUS
  <2> HIDE DEF g
  <2> QED
    BY <2>2, <2>3, Zenon
<1>19. s[0] = 0
  <2>1. 0 \in 0..n /\ i + 0 = i
    OBVIOUS
  <2>2. s[0] = b - b
    BY <1>9, <1>15, <1>18, <2>1
  <2> QED
    BY <2>2
<1>20. ASSUME NEW k \in 1..n
       PROVE  s[k] = IF d[k] = Slash THEN s[k - 1] + 1 ELSE s[k - 1]
  <2>1. k \in 0..n /\ k - 1 \in 0..n /\ i + k \in 1..p /\ (i + k) - 1 = i + (k - 1)
    BY <1>7, <1>13
  <2>2. PICK x, y \in Nat : x = Len(f[i + k].dir) /\ y = Len(f[(i + k) - 1].dir)
    <3>1. Len(f[i + k].dir) \in Nat /\ Len(f[i + (k - 1)].dir) \in Nat
      BY <1>16, <2>1
    <3> QED
      BY <2>1, <3>1, Zenon
  <2>3. s[k] = x - b /\ s[k - 1] = y - b
    BY <1>18, <2>1, <2>2
  <2>4. d[k] = prefix[i + k]
    BY <1>7
  <2>5. CASE d[k] = Slash
    <3>1. f[i + k].dir = Append(f[(i + k) - 1].dir, f[(i + k) - 1].name)
      BY <1>10, <1>11, <2>1, <2>4, <2>5, GoesDown, Zenon
    <3>2. PlaceAt(f[(i + k) - 1], prefix, (i + k) - 1)
      <4>1. <<>> \in Seq(Seq(1..255))
        BY EmptySeq
      <4>2. (i + k) - 1 \in 0..p
        BY <2>1
      <4> QED
        BY <1>10, <4>1, <4>2, PlacesAre, Zenon
    <3>3. x = y + 1
      BY <2>2, <3>1, <3>2, AppendProperties DEF PlaceAt
    <3> QED
      BY <2>3, <2>5, <3>3
  <2>6. CASE d[k] # Slash
    <3>1. f[i + k].dir = f[(i + k) - 1].dir
      BY <1>10, <1>11, <2>1, <2>4, <2>6, GoesDown, Zenon
    <3>2. x = y
      BY <2>2, <3>1, Zenon
    <3> QED
      BY <2>3, <2>6, <3>2
  <2> QED
    BY <2>5, <2>6
<1>21. s[n] = c - b /\ b <= c /\ \A k \in 0..n : s[k] <= c
  <2>1. n \in 0..n /\ i + n = p
    BY <1>7, <1>13
  <2>2. s[n] = c - b
    BY <1>6, <1>15, <1>18, <2>1
  <2>3. ASSUME NEW k \in 0..n
        PROVE  s[k] <= c /\ b <= c
    <3>1. PICK x \in Nat : x = Len(f[i + k].dir) /\ b <= x /\ x <= c
      BY <1>16, Zenon
    <3>2. s[k] = x - b
      BY <1>18, <3>1, Zenon
    <3>3. x - b <= c /\ b <= c
      <4>1. x \in Nat /\ b \in Nat /\ c \in Nat /\ b <= x /\ x <= c
        BY <3>1, Zenon
      <4> HIDE <3>1, <3>2
      <4> QED
        BY <4>1
    <3> QED
      BY <3>2, <3>3, Zenon
  <2>4. b <= c
    BY <2>1, <2>3
  <2> QED
    BY <2>2, <2>3, <2>4
<1>22. Walked(In(D, <<>>), StepsUp(d)) = In(C, <<>>)
  <2>1. Len(D) = c
    BY <1>15
  <2>2. Counts(s, d, n, D, c, b)
    <3>1. Len(d) = n
      BY <1>7
    <3>2. b = c - s[n]
      BY <1>21
    <3> QED
      BY <1>18, <1>19, <1>20, <1>21, <2>1, <3>1, <3>2, Zenon DEF Counts
  <2>3. Walked(In(D, <<>>), StepsUp(d)) = In(SubSeq(D, 1, b), <<>>)
    <3>1. LeadsUp(D, d, b)
      BY <2>2, GoesUp, Zenon
    <3> QED
      BY <3>1, Zenon DEF LeadsUp
  <2>4. SubSeq(D, 1, b) = C
    <3>1. 1 \in 1..(Len(D) + 1) /\ b \in (1 - 1)..Len(D) /\ b - 1 + 1 = b
          /\ \A k \in 1..b : 1 + k - 1 = k
      BY <1>15, <1>21
    <3>2. /\ SubSeq(D, 1, b) \in Seq(Seq(1..255)) /\ Len(SubSeq(D, 1, b)) = b - 1 + 1
          /\ \A k \in 1..(b - 1 + 1) : SubSeq(D, 1, b)[k] = D[1 + k - 1]
      BY <3>1, Parts
    <3>3. Len(SubSeq(D, 1, b)) = b /\ \A k \in 1..b : SubSeq(D, 1, b)[k] = D[k]
      BY <3>1, <3>2
    <3>4. Len(C) = b /\ \A k \in 1..b : D[k] = C[k]
      BY <1>15, <1>17 DEF StartsWith
    <3>5. Len(SubSeq(D, 1, b)) = Len(C) /\ \A k \in 1..Len(SubSeq(D, 1, b)) : SubSeq(D, 1, b)[k] = C[k]
      BY <3>3, <3>4
    <3>6. PICK v \in Seq(Seq(1..255)) : v = SubSeq(D, 1, b)
      BY <3>2, Zenon
    <3>7. Len(v) = Len(C) /\ \A k \in 1..Len(v) : v[k] = C[k]
      BY <3>5, <3>6, Zenon
    <3>8. v = C
      BY <3>7, SeqEqual
    <3> QED
      BY <3>6, <3>8
  <2> QED
    BY <2>3, <2>4, Zenon
<1>23. Walked(In(C, <<>>), r) = h[l]
  <2>1. Len(r) = m
    BY <1>12
  <2>2. PICK g : Walks(g, In(C, <<>>), r, m) /\ Walked(In(C, <<>>), r) = g[m]
    BY <2>1, WalkedIs, Zenon
  <2>3. ASSUME NEW k \in 1..m
        PROVE  h[off + k] = Onward(h[off + k - 1], in[off + k]) /\ in[off + k] = r[k]
    <3>1. off + k \in 1..l
      <4>1. m = l - off /\ off <= l
        <5>1. m = l - off
          BY <1>12, Zenon
        <5> QED
          BY <1>13, <5>1
      <4> QED
        BY <4>1
    <3> QED
      BY <1>4, <1>12, <3>1 DEF Walks
  <2>4. Follows(h, in, off, r, m)
    BY <2>3, Zenon DEF Follows
  <2>5. h[off] = In(C, <<>>)
    BY <1>5, <1>8
  <2>6. m \in 0..m /\ l = off + m
    BY <1>12, <1>13
  <2>7. PICK at : at = In(C, <<>>)
    OBVIOUS
  <2>8. Walks(g, at, r, m) /\ h[off] = at /\ Follows(h, in, off, r, m)
    BY <2>2, <2>4, <2>5, <2>7
  <2>9. g[m] = h[l]
    BY <2>6, <2>8, WalkedTogether, SMTT(60)
  <2> QED
    BY <2>2, <2>9
<1>24. PICK u \in Seq(1..255) : u = StepsUp(d)
  <2>1. [k \in DOMAIN d |-> IF d[k] = Slash THEN <<46, 46, Slash>> ELSE <<>>]
          \in Seq(Seq(1..255))
    BY StepsUpPieces
  <2>2. StepsUp(d) \in Seq(1..255)
    BY <2>1, FlattenHolds DEF StepsUp
  <2> QED
    BY <2>2, Zenon
<1>25. Walked(In(D, <<>>), PathRelative(in, prefix)) = h[l]
  <2>1. PathRelative(in, prefix) = u \o r
    BY <1>2, <1>7, <1>12, <1>24, Zenon
  <2>2. Walked(In(D, <<>>), u \o r) = Walked(Walked(In(D, <<>>), u), r)
    BY WalkedOn
  <2> QED
    BY <1>22, <1>23, <1>24, <2>1, <2>2, Zenon
<1>26. LeadsTo(<<>>, prefix) = D
  <2>1. LeadsTo(<<>>, prefix) = Enter(f[p].dir, f[p].name)
    BY <1>0, <1>3, Zenon DEF LeadsTo
  <2>2. f[p].name = <<>>
    BY <1>6 DEF In
  <2>3. Enter(D, <<>>) = D
    <3>1. <<>> \in Seq(1..255)
      BY EmptySeq
    <3> QED
      BY <3>1, EnterIs
  <2> QED
    BY <1>6, <2>1, <2>2, <2>3, Zenon
<1> QED
  BY <1>0, <1>4, <1>25, <1>26, Zenon DEF LeadsTo
(***************************************************************************)
(* A path written relative to a directory leads there from the directory,  *)
(* and so does what quote_path_relative prints instead of nothing.         *)
(***************************************************************************)
ReadsRelative(of, with, gives) ==
  LET read == Unquoted(gives)
      t == IF InQuotes(gives) THEN read.out ELSE gives
  IN  /\ InQuotes(gives) => read.ok
      /\ LeadsTo(LeadsTo(<<>>, with), t) = LeadsTo(<<>>, of)

LEMMA StaysHere ==
  ASSUME NEW dir \in Seq(Seq(1..255))
  PROVE  LeadsTo(dir, <<46, Slash>>) = LeadsTo(dir, <<>>)
<1>1. PICK at : at = In(dir, <<>>)
  OBVIOUS
<1>2. Walked(at, <<46, Slash>>) = Walked(at, <<>>)
  BY <1>1, DotsAre, Zenon
<1> QED
  BY <1>1, <1>2, Zenon DEF LeadsTo

LEMMA RelativeReads ==
  ASSUME Nul = 0, NEW in \in Seq(1..255), NEW prefix \in Seq(1..255), Clean(prefix),
         prefix # <<>> => prefix[Len(prefix)] = Slash,
         NEW rel, rel = CStyle(PathRelative(in, prefix), FALSE)
  PROVE  ReadsRelative(in, prefix, IF rel = <<>> THEN <<46, Slash>> ELSE rel)
<1>1. PICK path \in Seq(1..255), dir \in Seq(Seq(1..255)) :
        /\ path = PathRelative(in, prefix)
        /\ dir = LeadsTo(<<>>, prefix)
        /\ LeadsTo(dir, path) = LeadsTo(<<>>, in)
  <2>1. PathRelative(in, prefix) \in Seq(1..255)
    BY PathRelativeIsText
  <2>2. /\ LeadsTo(<<>>, prefix) \in Seq(Seq(1..255))
        /\ LeadsTo(LeadsTo(<<>>, prefix), PathRelative(in, prefix)) = LeadsTo(<<>>, in)
    BY PathLeadsBack
  <2> QED
    BY <2>1, <2>2, Zenon
<1>2. ReadsBackAs(rel, path)
  <2>1. rel = CStyle(path, FALSE)
    BY <1>1, Zenon
  <2> QED
    BY <2>1, CStyleReads, Zenon
<1>3. /\ InQuotes(rel) => Unquoted(rel).ok /\ Unquoted(rel).out = path
      /\ ~InQuotes(rel) => rel = path
  BY <1>2, Zenon DEF ReadsBackAs
<1>4. CASE rel = <<>>
  <2>1. ~InQuotes(rel) /\ ~InQuotes(<<46, Slash>>)
    <3>1. <<46, Slash>>[1] = 46 /\ 46 # DoubleQuote
      BY DEF DoubleQuote
    <3>2. ~InQuotes(rel)
      BY <1>4, Zenon DEF InQuotes
    <3>3. ~InQuotes(<<46, Slash>>)
      BY <3>1, Zenon DEF InQuotes
    <3> QED
      BY <3>2, <3>3
  <2>2. LeadsTo(dir, <<46, Slash>>) = LeadsTo(<<>>, in)
    BY <1>1, <1>3, <1>4, <2>1, StaysHere, Zenon
  <2> QED
    BY <1>1, <1>4, <2>1, <2>2, Zenon DEF ReadsRelative
<1>5. CASE rel # <<>>
  <2>1. CASE InQuotes(rel)
    BY <1>1, <1>3, <1>5, <2>1, Zenon DEF ReadsRelative
  <2>2. CASE ~InQuotes(rel)
    BY <1>1, <1>3, <1>5, <2>2, Zenon DEF ReadsRelative
  <2> QED
    BY <2>1, <2>2
<1> QED
  BY <1>4, <1>5

(***************************************************************************)
(* What quote_path_relative makes of a path and a directory of the index   *)
(* leads from the directory to where the path leads from the top, however  *)
(* deep the two are, whatever they share and whatever bytes are in them.   *)
(***************************************************************************)
THEOREM RelativeIsLedBack == QuoteSpec => []RelativeLeadsBack
<1> DEFINE Inv == quoted.fn = "relative" =>
                    ReadsRelative(quoted.of, quoted.with, quoted.gives)
<1>1. /\ Nul = 0 /\ Files \subseteq Seq(1..255) /\ Directories \subseteq Seq(1..255)
      /\ \A t \in Directories : Clean(t) /\ (t # <<>> => t[Len(t)] = Slash)
  BY QuoteAssumption, DirectoriesAreClean
<1>2. StrbufInit /\ quoted = NothingQuoted => Inv
  BY DEF NothingQuoted
<1>3. Inv /\ [(StrbufNext /\ UNCHANGED quoted) \/ QuoteNext]_quoteVars => Inv'
  <2> SUFFICES ASSUME Inv, [(StrbufNext /\ UNCHANGED quoted) \/ QuoteNext]_quoteVars
               PROVE  Inv'
    OBVIOUS
  <2>1. ASSUME UNCHANGED quoted
        PROVE  Inv'
    BY <2>1
  <2>2. ASSUME quoted'.fn # "relative"
        PROVE  Inv'
    BY <2>2
  <2>3. ASSUME NEW name \in Names,
               QuoteCStyle(name) \/ \E path \in Names : QuoteTwoCStyle(name, path)
        PROVE  Inv'
    <3>1. CASE QuoteCStyle(name)
      <4>1. quoted'.fn = "c"
        BY <3>1 DEF QuoteCStyle, Quoted
      <4> QED
        BY <2>2, <4>1
    <3>2. ASSUME NEW path \in Names, QuoteTwoCStyle(name, path)
          PROVE  Inv'
      <4>1. quoted'.fn = "two"
        BY <3>2 DEF QuoteTwoCStyle, Quoted
      <4> QED
        BY <2>2, <4>1
    <3> QED
      BY <2>3, <3>1, <3>2
  <2>4. ASSUME NEW q \in Quotations, UnquoteCStyle(q)
        PROVE  Inv'
    <3>1. quoted'.fn = "unquote"
      BY <2>4 DEF UnquoteCStyle, Quoted
    <3> QED
      BY <2>2, <3>1
  <2>5. ASSUME NEW args \in Lists, NEW maxlen \in {0, MaxLen}, SqQuoteArgv(args, maxlen)
        PROVE  Inv'
    <3>1. quoted'.fn = "argv" \/ UNCHANGED quoted
      BY <2>5 DEF SqQuoteArgv, Quoted
    <3> QED
      BY <2>1, <2>2, <3>1
  <2>6. ASSUME NEW q \in ShellTexts, SqDequote(q) \/ SqDequoteToArgv(q)
        PROVE  Inv'
    <3>1. CASE SqDequote(q)
      <4>1. quoted'.fn = "dequote"
        BY <3>1 DEF SqDequote, Quoted
      <4> QED
        BY <2>2, <4>1
    <3>2. CASE SqDequoteToArgv(q)
      <4>1. quoted'.fn = "dequote_argv"
        BY <3>2 DEF SqDequoteToArgv, Quoted
      <4> QED
        BY <2>2, <4>1
    <3> QED
      BY <2>6, <3>1, <3>2
  <2>7. ASSUME NEW in \in Files, NEW prefix \in Directories, QuotePathRelative(in, prefix)
        PROVE  Inv'
    <3>1. PICK rel : rel = CStyle(PathRelative(in, prefix), FALSE)
      OBVIOUS
    <3>2. quoted' = Quoted("relative", in, prefix, TRUE,
                           IF rel = <<>> THEN <<46, Slash>> ELSE rel)
      BY <2>7, <3>1, Zenon DEF QuotePathRelative
    <3>3. /\ quoted'.of = in /\ quoted'.with = prefix
          /\ quoted'.gives = IF rel = <<>> THEN <<46, Slash>> ELSE rel
      BY <3>2 DEF Quoted
    <3>4. ReadsRelative(in, prefix, IF rel = <<>> THEN <<46, Slash>> ELSE rel)
      BY <1>1, <3>1, RelativeReads
    <3> QED
      BY <3>3, <3>4, Zenon
  <2> HIDE DEF Inv
  <2> QED
    BY <2>1, <2>3, <2>4, <2>5, <2>6, <2>7 DEF QuoteNext, quoteVars
<1>4. Inv => RelativeLeadsBack
  BY Zenon DEF RelativeLeadsBack, ReadsRelative
<1> QED
  BY <1>2, <1>3, <1>4, PTL DEF QuoteSpec
=============================================================================
