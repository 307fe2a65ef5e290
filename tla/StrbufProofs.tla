---------------------------- MODULE StrbufProofs ----------------------------
(***************************************************************************)
(* Theorems about the string buffer, for every size of the block, every    *)
(* width of size_t and whatever the callers pass.                          *)
(***************************************************************************)
EXTENDS StrbufProps, RankingProofs, SequenceTheorems

USE StrbufAssumption

-----------------------------------------------------------------------------
(***************************************************************************)
(* A buffer that has room for its text and the terminator.  The one that   *)
(* never grew has the one cell of strbuf_slopbuf.                          *)
(***************************************************************************)
Room(s) == IF s.alloc = 0 THEN 1 ELSE s.alloc
Buffer(s) ==
  /\ s = [alloc |-> s.alloc, len |-> s.len, buf |-> s.buf]
  /\ s.alloc \in Nat /\ s.len \in Nat /\ s.len < Room(s)
  /\ s.buf \in [0..(Room(s) - 1) -> Cells]

LEMMA BuffersAreWellFormed ==
  ASSUME NEW s, Buffer(s)
  PROVE  WellFormed(s)
<1>1. CASE s.alloc = 0
  <2>1. s.len = 0 /\ 0..(Room(s) - 1) = 0..0
    BY <1>1 DEF Buffer, Room
  <2> QED
    BY <1>1, <2>1 DEF Buffer, WellFormed
<1>2. CASE s.alloc # 0
  BY <1>2 DEF Buffer, WellFormed, Room
<1> QED
  BY <1>1, <1>2

\* Assignments to the members of a buffer.
LEMMA LenAssigned ==
  ASSUME NEW s, s = [alloc |-> s.alloc, len |-> s.len, buf |-> s.buf], NEW n
  PROVE  [s EXCEPT !.len = n] = [alloc |-> s.alloc, len |-> n, buf |-> s.buf]
<1>1. PICK a, l, b : s = [alloc |-> a, len |-> l, buf |-> b]
  OBVIOUS
<1>2. DOMAIN s = {"alloc", "len", "buf"} /\ s.alloc = a /\ s.buf = b
  BY <1>1
<1>3. [s EXCEPT !.len = n] = [x \in DOMAIN s |-> IF x = "len" THEN n ELSE s[x]]
  OBVIOUS
<1> QED
  BY <1>2, <1>3

LEMMA SetLenAssigns ==
  ASSUME NEW s, s = [alloc |-> s.alloc, len |-> s.len, buf |-> s.buf], NEW n
  PROVE  SetLen(s, n) =
           [alloc |-> s.alloc, len |-> n,
            buf |-> [i \in DOMAIN s.buf |-> IF i < n THEN s.buf[i]
                                            ELSE IF i = n THEN Nul ELSE Junk]]
<1> DEFINE cells == [i \in DOMAIN s.buf |-> IF i < n THEN s.buf[i]
                                            ELSE IF i = n THEN Nul ELSE Junk]
<1>1. PICK a, l, b : s = [alloc |-> a, len |-> l, buf |-> b]
  OBVIOUS
<1>2. DOMAIN s = {"alloc", "len", "buf"} /\ s.alloc = a /\ s.buf = b
  BY <1>1
<1>3. SetLen(s, n) = [s EXCEPT !.len = n, !.buf = cells]
  BY DEF SetLen
<1> HIDE DEF cells
<1>4. [s EXCEPT !.len = n, !.buf = cells]
        = [x \in DOMAIN s |-> IF x = "buf" THEN cells ELSE IF x = "len" THEN n ELSE s[x]]
  OBVIOUS
<1>5. [s EXCEPT !.len = n, !.buf = cells] = [alloc |-> s.alloc, len |-> n, buf |-> cells]
  BY <1>2, <1>4
<1> QED
  BY <1>3, <1>5 DEF cells

LEMMA FreshBuffer ==
  Buffer(Fresh) /\ Fresh.alloc = 0 /\ Fresh.len = 0 /\ Fresh.buf[0] = Nul
<1>1. [i \in 0..0 |-> Nul] \in [0..0 -> Cells] /\ [i \in 0..0 |-> Nul][0] = Nul
  BY DEF Cells
<1>2. /\ Fresh = [alloc |-> 0, len |-> 0, buf |-> [i \in 0..0 |-> Nul]]
      /\ Fresh.alloc = 0 /\ Fresh.len = 0 /\ Fresh.buf = [i \in 0..0 |-> Nul]
  BY DEF Fresh
<1> QED
  BY <1>1, <1>2 DEF Buffer, Room

LEMMA SetLenBuffer ==
  ASSUME NEW s, Buffer(s), NEW n \in Nat, n < Room(s)
  PROVE  /\ Buffer(SetLen(s, n))
         /\ SetLen(s, n).alloc = s.alloc /\ SetLen(s, n).len = n
         /\ Room(SetLen(s, n)) = Room(s)
         /\ SetLen(s, n).buf[n] = Nul
         /\ \A i \in 0..(n - 1) : SetLen(s, n).buf[i] = s.buf[i]
<1> DEFINE cells == [i \in DOMAIN s.buf |-> IF i < n THEN s.buf[i]
                                            ELSE IF i = n THEN Nul ELSE Junk]
<1>1. SetLen(s, n) = [alloc |-> s.alloc, len |-> n, buf |-> cells]
  BY SetLenAssigns DEF Buffer
<1>2. cells \in [0..(Room(s) - 1) -> Cells]
  BY DEF Buffer, Cells
<1>3. Room(s) \in Nat
  BY DEF Room, Buffer
<1>4. n \in DOMAIN s.buf /\ \A i \in 0..(n - 1) : i \in DOMAIN s.buf
  BY <1>3 DEF Buffer
<1> QED
  BY <1>1, <1>2, <1>3, <1>4 DEF Buffer, Room

LEMMA PutBuffer ==
  ASSUME NEW s, Buffer(s), NEW pos \in Nat, NEW d \in Seq(Cells)
  PROVE  /\ Buffer(Put(s, pos, d))
         /\ Put(s, pos, d).alloc = s.alloc /\ Put(s, pos, d).len = s.len
         /\ Room(Put(s, pos, d)) = Room(s)
         /\ \A i \in 0..(Room(s) - 1) :
              Put(s, pos, d).buf[i] = IF pos <= i /\ i < pos + Len(d) THEN d[i - pos + 1]
                                      ELSE s.buf[i]
<1> DEFINE cells == [i \in DOMAIN s.buf |->
                       IF pos <= i /\ i < pos + Len(d) THEN d[i - pos + 1] ELSE s.buf[i]]
<1>1. Put(s, pos, d) = [alloc |-> s.alloc, len |-> s.len, buf |-> cells]
  BY DEF Put, Buffer
<1>2. Room(s) \in Nat /\ DOMAIN s.buf = 0..(Room(s) - 1)
  BY DEF Room, Buffer
<1>3. ASSUME NEW i \in 0..(Room(s) - 1)
      PROVE  cells[i] \in Cells
  <2>1. CASE pos <= i /\ i < pos + Len(d)
    <3>1. i - pos + 1 \in 1..Len(d)
      BY <1>2, <2>1
    <3> QED
      BY <1>2, <2>1, <3>1, ElementOfSeq
  <2>2. CASE ~(pos <= i /\ i < pos + Len(d))
    BY <1>2, <2>2 DEF Buffer
  <2> QED
    BY <2>1, <2>2
<1>4. cells \in [0..(Room(s) - 1) -> Cells]
  BY <1>2, <1>3
<1> QED
  BY <1>1, <1>2, <1>4 DEF Buffer, Room

LEMMA AllocIsNatural ==
  ASSUME NEW a \in Nat
  PROVE  AllocNr(a) \in Nat
<1>1. \A x \in Nat : x % SizeMod \in Nat
  OBVIOUS
<1>2. PICK x \in Nat : x = (a + Slack) % SizeMod
  BY <1>1
<1>3. PICK y \in Nat : y = (x * 3) % SizeMod
  BY <1>1
<1>4. y \div 2 \in Nat
  OBVIOUS
<1> QED
  BY <1>2, <1>3, <1>4 DEF AllocNr

\* A block whose text may fill it: what strbuf_attach is given.
Block(s) ==
  /\ s = [alloc |-> s.alloc, len |-> s.len, buf |-> s.buf]
  /\ s.alloc \in Nat /\ s.len \in Nat /\ s.len <= s.alloc
  /\ s.buf \in [0..(Room(s) - 1) -> Cells]

LEMMA BufferIsBlock ==
  ASSUME NEW s, Buffer(s)
  PROVE  Block(s)
<1>1. s.len <= s.alloc
  BY DEF Buffer, Room
<1> QED
  BY <1>1 DEF Buffer, Block

LEMMA GrowBlock ==
  ASSUME NEW s, Block(s), NEW extra \in Nat
  PROVE  /\ Buffer(Grow(s, extra))
         /\ Grow(s, extra).len = s.len
         /\ Grow(s, extra).alloc >= s.len + extra + 1
         /\ Grow(s, extra).alloc >= s.alloc
         /\ Room(Grow(s, extra)) = Grow(s, extra).alloc
         /\ \A i \in 0..(s.alloc - 1) : Grow(s, extra).buf[i] = s.buf[i]
<1> DEFINE nr == s.len + extra + 1
           alloc == IF AllocNr(s.alloc) < nr THEN nr ELSE AllocNr(s.alloc)
           cells == [i \in 0..(alloc - 1) |-> IF i < s.alloc THEN s.buf[i] ELSE Junk]
<1>1. s.alloc \in Nat /\ s.len \in Nat /\ nr \in Nat /\ nr > 0
  BY DEF Block
<1>2. CASE nr <= s.alloc
  <2>1. Grow(s, extra) = s
    BY <1>2 DEF Grow
  <2>2. s.alloc # 0 /\ Room(s) = s.alloc /\ s.len < s.alloc
    BY <1>1, <1>2 DEF Room
  <2> QED
    BY <1>1, <1>2, <2>1, <2>2 DEF Block, Buffer
<1>3. CASE nr > s.alloc
  <2>1. Grow(s, extra) = [alloc |-> alloc, len |-> s.len, buf |-> cells]
    BY <1>1, <1>3 DEF Grow
  <2>2. alloc \in Nat /\ alloc >= nr
    <3>1. PICK v \in Nat : v = AllocNr(s.alloc)
      BY <1>1, AllocIsNatural
    <3> QED
      BY <1>1, <3>1
  <2> HIDE DEF alloc
  <2>3. \A i \in 0..(alloc - 1) : cells[i] \in Cells
    BY <1>1, <2>2 DEF Block, Room, Cells
  <2>4. cells \in [0..(alloc - 1) -> Cells]
    BY <2>3
  <2>5. \A i \in 0..(s.alloc - 1) : cells[i] = s.buf[i]
    BY <1>1, <1>3, <2>2
  <2> HIDE DEF cells
  <2> QED
    BY <1>1, <1>3, <2>1, <2>2, <2>4, <2>5 DEF Buffer, Room
<1> QED
  BY <1>1, <1>2, <1>3

LEMMA GrowBuffer ==
  ASSUME NEW s, Buffer(s), NEW extra \in Nat
  PROVE  /\ Buffer(Grow(s, extra))
         /\ Grow(s, extra).len = s.len
         /\ Grow(s, extra).alloc >= s.len + extra + 1
         /\ Grow(s, extra).alloc >= s.alloc
         /\ Room(Grow(s, extra)) = Grow(s, extra).alloc
         /\ \A i \in 0..(s.alloc - 1) : Grow(s, extra).buf[i] = s.buf[i]
BY BufferIsBlock, GrowBlock, Zenon

-----------------------------------------------------------------------------
(***************************************************************************)
(* The text of a buffer, and what a copy behind it makes of it.            *)
(***************************************************************************)
LEMMA BytesAreCells ==
  ASSUME NEW d \in Seq(Bytes)
  PROVE  d \in Seq(Cells)
<1>1. Bytes \subseteq Cells
  BY DEF Cells
<1> QED
  BY <1>1, SeqMonotonic

LEMMA TextIs ==
  ASSUME NEW s, Buffer(s)
  PROVE  /\ Text(s) \in Seq(Cells) /\ Len(Text(s)) = s.len
         /\ \A i \in 1..s.len : Text(s)[i] = s.buf[i - 1]
<1>1. s.len \in Nat /\ \A i \in 1..s.len : s.buf[i - 1] \in Cells
  BY DEF Buffer, Room
<1>2. Text(s) = [i \in 1..s.len |-> s.buf[i - 1]]
  BY DEF Text
<1>3. Text(s) \in [1..s.len -> Cells]
  BY <1>1, <1>2
<1>4. Text(s) \in Seq(Cells)
  BY <1>1, <1>3, SeqDef
<1>5. Len(Text(s)) = s.len
  BY <1>1, <1>3, <1>4, LenProperties
<1> QED
  BY <1>2, <1>4, <1>5

LEMMA TextEquals ==
  ASSUME NEW s, Buffer(s), NEW t \in Seq(Cells), Len(t) = s.len,
         \A i \in 1..s.len : s.buf[i - 1] = t[i]
  PROVE  Text(s) = t
  BY TextIs, SeqEqual

LEMMA Sizes ==
  ASSUME NEW s, Buffer(s)
  PROVE  /\ s.len \in Nat /\ s.alloc \in Nat /\ Room(s) \in Nat
         /\ s.len < Room(s)
         /\ s.alloc # 0 => Room(s) = s.alloc
         /\ s.alloc = 0 => Room(s) = 1 /\ s.len = 0
  BY DEF Buffer, Room

-----------------------------------------------------------------------------
(***************************************************************************)
(* A sequence stands in the block of b from cell pos on.                   *)
(***************************************************************************)
HoldsAt(b, pos, t) ==
  /\ pos + Len(t) <= b.alloc
  /\ \A i \in 0..(Len(t) - 1) : b.buf[pos + i] = t[i + 1]

LEMMA TextHolds ==
  ASSUME NEW s, Buffer(s)
  PROVE  HoldsAt(s, 0, Text(s))
<1>1. s.len \in Nat /\ s.len <= s.alloc
  BY Sizes
<1>2. ASSUME NEW i \in 0..(s.len - 1)
      PROVE  s.buf[0 + i] = Text(s)[i + 1]
  <2>1. i + 1 \in 1..s.len /\ (i + 1) - 1 = i /\ 0 + i = i
    BY <1>1
  <2>2. Text(s)[i + 1] = s.buf[(i + 1) - 1]
    BY <2>1, TextIs
  <2> QED
    BY <2>1, <2>2
<1>3. Len(Text(s)) = s.len
  BY TextIs
<1> QED
  BY <1>1, <1>2, <1>3 DEF HoldsAt

LEMMA GrowHolds ==
  ASSUME NEW s, Block(s), NEW extra \in Nat, NEW pos \in Nat, NEW t \in Seq(Cells),
         HoldsAt(s, pos, t)
  PROVE  HoldsAt(Grow(s, extra), pos, t)
<1> DEFINE g == Grow(s, extra)
<1>1. /\ Buffer(g) /\ g.alloc >= s.alloc
      /\ \A i \in 0..(s.alloc - 1) : g.buf[i] = s.buf[i]
  BY GrowBlock
<1> HIDE DEF g
<1>2. PICK n \in Nat : n = Len(t)
  BY LenProperties
<1>3. s.alloc \in Nat /\ g.alloc \in Nat /\ pos + n <= s.alloc
  BY <1>1, <1>2, Sizes DEF Block, HoldsAt
<1>4. pos + n <= g.alloc
  BY <1>1, <1>3
<1>5. ASSUME NEW i \in 0..(n - 1)
      PROVE  g.buf[pos + i] = t[i + 1]
  <2>1. pos + i \in 0..(s.alloc - 1)
    BY <1>3
  <2>2. g.buf[pos + i] = s.buf[pos + i]
    BY <1>1, <2>1
  <2>3. s.buf[pos + i] = t[i + 1]
    BY <1>2 DEF HoldsAt
  <2> QED
    BY <2>2, <2>3
<1> QED
  BY <1>2, <1>4, <1>5 DEF HoldsAt, g

LEMMA PutHolds ==
  ASSUME NEW s, Buffer(s), NEW pos \in Nat, NEW d \in Seq(Cells), pos + Len(d) <= s.alloc
  PROVE  HoldsAt(Put(s, pos, d), pos, d)
<1> DEFINE p == Put(s, pos, d)
<1>1. p.alloc = s.alloc /\ \A i \in 0..(Room(s) - 1) :
        p.buf[i] = IF pos <= i /\ i < pos + Len(d) THEN d[i - pos + 1] ELSE s.buf[i]
  BY PutBuffer, Zenon
<1> HIDE DEF p
<1>2. PICK n \in Nat : n = Len(d)
  BY LenProperties
<1>3. ASSUME NEW i \in 0..(n - 1)
      PROVE  p.buf[pos + i] = d[i + 1]
  <2>1. PICK j \in Nat : j = pos + i
    OBVIOUS
  <2>2. j \in 0..(Room(s) - 1) /\ pos <= j /\ j < pos + n /\ j - pos + 1 = i + 1
    <3>1. s.alloc \in Nat /\ Room(s) \in Nat /\ s.alloc <= Room(s)
      BY Sizes
    <3>2. j < s.alloc
      BY <1>2, <2>1, <3>1
    <3> QED
      BY <2>1, <3>1, <3>2
  <2>3. p.buf[j] = IF pos <= j /\ j < pos + Len(d) THEN d[j - pos + 1] ELSE s.buf[j]
    BY <1>1, <2>2
  <2>4. p.buf[j] = d[j - pos + 1]
    BY <1>2, <2>2, <2>3
  <2> QED
    BY <2>1, <2>2, <2>4
<1> QED
  BY <1>1, <1>2, <1>3 DEF HoldsAt, p

LEMMA PutLeaves ==
  ASSUME NEW s, Buffer(s), NEW pos \in Nat, NEW d \in Seq(Cells),
         NEW at \in Nat, NEW t \in Seq(Cells), HoldsAt(s, at, t),
         at + Len(t) <= pos \/ pos + Len(d) <= at
  PROVE  HoldsAt(Put(s, pos, d), at, t)
<1> DEFINE p == Put(s, pos, d)
<1>1. p.alloc = s.alloc /\ \A i \in 0..(Room(s) - 1) :
        p.buf[i] = IF pos <= i /\ i < pos + Len(d) THEN d[i - pos + 1] ELSE s.buf[i]
  BY PutBuffer, Zenon
<1> HIDE DEF p
<1>2. PICK n \in Nat : n = Len(t)
  BY LenProperties
<1>3. PICK k \in Nat : k = Len(d)
  BY LenProperties
<1>4. at + n <= s.alloc /\ \A i \in 0..(n - 1) : s.buf[at + i] = t[i + 1]
  BY <1>2 DEF HoldsAt
<1>5. ASSUME NEW i \in 0..(n - 1)
      PROVE  p.buf[at + i] = t[i + 1]
  <2>1. PICK j \in Nat : j = at + i
    OBVIOUS
  <2>2. j \in 0..(Room(s) - 1) /\ ~(pos <= j /\ j < pos + k)
    <3>1. s.alloc \in Nat /\ Room(s) \in Nat /\ s.alloc <= Room(s)
      BY Sizes
    <3>2. j < s.alloc
      BY <1>4, <2>1, <3>1
    <3>3. j < pos \/ pos + k <= j
      BY <1>2, <1>3, <2>1
    <3> QED
      BY <2>1, <3>1, <3>2, <3>3
  <2>3. p.buf[j] = IF pos <= j /\ j < pos + k THEN d[j - pos + 1] ELSE s.buf[j]
    BY <1>1, <1>3, <2>2
  <2>4. p.buf[j] = s.buf[j]
    BY <2>2, <2>3
  <2> QED
    BY <1>4, <2>1, <2>4
<1> QED
  BY <1>1, <1>2, <1>4, <1>5 DEF HoldsAt, p

LEMMA HoldsBoth ==
  ASSUME NEW s, Buffer(s), NEW pos \in Nat, NEW t \in Seq(Cells), NEW d \in Seq(Cells),
         HoldsAt(s, pos, t), HoldsAt(s, pos + Len(t), d)
  PROVE  HoldsAt(s, pos, t \o d)
<1>1. PICK n \in Nat : n = Len(t)
  BY LenProperties
<1>2. PICK k \in Nat : k = Len(d)
  BY LenProperties
<1>3. /\ t \o d \in Seq(Cells)
      /\ Len(t \o d) = Len(t) + Len(d)
      /\ \A i \in 1..Len(t) + Len(d) :
           (t \o d)[i] = IF i <= Len(t) THEN t[i] ELSE d[i - Len(t)]
  BY ConcatProperties, Zenon
<1>4. ASSUME NEW i \in 0..(n + k - 1)
      PROVE  s.buf[pos + i] = (t \o d)[i + 1]
  <2>1. (t \o d)[i + 1] = IF i + 1 <= n THEN t[i + 1] ELSE d[i + 1 - n]
    BY <1>1, <1>2, <1>3
  <2>2. CASE i < n
    BY <1>1, <2>1, <2>2 DEF HoldsAt
  <2>3. CASE i >= n
    <3>1. PICK j \in Nat : i = n + j
      <4>1. i - n \in Nat /\ i = n + (i - n)
        BY <2>3
      <4> QED
        BY <4>1
    <3>2. j \in 0..(k - 1) /\ pos + i = (pos + n) + j /\ i + 1 - n = j + 1 /\ ~(i + 1 <= n)
      BY <3>1
    <3>3. s.buf[(pos + n) + j] = d[j + 1]
      BY <1>1, <1>2, <3>2 DEF HoldsAt
    <3> QED
      BY <2>1, <3>2, <3>3
  <2>4. i < n \/ i >= n
    OBVIOUS
  <2> QED
    BY <2>2, <2>3, <2>4, Zenon
<1>5. pos + (n + k) <= s.alloc
  BY <1>1, <1>2, Sizes DEF HoldsAt
<1>6. Len(t \o d) = n + k
  BY <1>1, <1>2, <1>3
<1>7. /\ pos + Len(t \o d) <= s.alloc
      /\ \A i \in 0..(Len(t \o d) - 1) : s.buf[pos + i] = (t \o d)[i + 1]
  BY <1>4, <1>5, <1>6
<1> QED
  BY <1>7 DEF HoldsAt

(***************************************************************************)
(* What a call leaves behind: the buffer, its text and the terminator.     *)
(***************************************************************************)
Closed(r, t) == Buffer(r) /\ Text(r) = t /\ r.buf[r.len] = Nul

\* r has the cells of b and its text ends at n.
LEMMA HeldText ==
  ASSUME NEW b, NEW r, Buffer(r), NEW t \in Seq(Cells), HoldsAt(b, 0, t), r.len = Len(t),
         \A i \in 0..(Len(t) - 1) : r.buf[i] = b.buf[i]
  PROVE  Text(r) = t
<1>1. PICK n \in Nat : n = Len(t)
  BY LenProperties
<1>2. ASSUME NEW i \in 1..n
      PROVE  r.buf[i - 1] = t[i]
  <2>1. PICK j \in Nat : j = i - 1
    OBVIOUS
  <2>2. j \in 0..(n - 1) /\ 0 + j = j /\ j + 1 = i
    BY <2>1
  <2>3. b.buf[0 + j] = t[j + 1]
    BY <1>1, <2>2 DEF HoldsAt
  <2>4. r.buf[j] = b.buf[j]
    BY <1>1, <2>2
  <2> QED
    BY <2>1, <2>2, <2>3, <2>4
<1> QED
  BY <1>1, <1>2, TextEquals

LEMMA SetLenCloses ==
  ASSUME NEW b, Buffer(b), NEW t \in Seq(Cells), HoldsAt(b, 0, t), Len(t) < Room(b)
  PROVE  Closed(SetLen(b, Len(t)), t) /\ SetLen(b, Len(t)).alloc = b.alloc
<1>1. PICK n \in Nat : n = Len(t)
  BY LenProperties
<1>2. /\ Buffer(SetLen(b, n)) /\ SetLen(b, n).len = n /\ SetLen(b, n).alloc = b.alloc
      /\ SetLen(b, n).buf[n] = Nul
      /\ \A i \in 0..(n - 1) : SetLen(b, n).buf[i] = b.buf[i]
  BY <1>1, SetLenBuffer
<1>3. Text(SetLen(b, n)) = t
  BY <1>1, <1>2, HeldText
<1> QED
  BY <1>1, <1>2, <1>3 DEF Closed

LEMMA Parts ==
  ASSUME NEW S, NEW t \in Seq(S), NEW i \in 1..(Len(t) + 1), NEW j \in (i - 1)..Len(t)
  PROVE  /\ SubSeq(t, i, j) \in Seq(S) /\ Len(SubSeq(t, i, j)) = j - i + 1
         /\ \A m \in 1..(j - i + 1) : SubSeq(t, i, j)[m] = t[i + m - 1]
<1>1. PICK n \in Nat : n = Len(t)
  BY LenProperties
<1>2. i \in Nat /\ i > 0 /\ j \in Int /\ j >= i - 1 /\ j <= n
  BY <1>1
<1>3. \A m \in i..j : t[m] \in S
  <2>1. \A m \in i..j : m \in 1..Len(t)
    BY <1>1, <1>2
  <2> QED
    BY <2>1, ElementOfSeq
<1>4. /\ SubSeq(t, i, j) \in Seq(S)
      /\ Len(SubSeq(t, i, j)) = IF i <= j THEN j - i + 1 ELSE 0
      /\ \A m \in 1..(j - i + 1) : SubSeq(t, i, j)[m] = t[i + m - 1]
  BY <1>2, <1>3, SubSeqProperties
<1>5. (IF i <= j THEN j - i + 1 ELSE 0) = j - i + 1
  BY <1>2
<1> QED
  BY <1>4, <1>5

LEMMA PartHolds ==
  ASSUME NEW s, Buffer(s), NEW t \in Seq(Cells), HoldsAt(s, 0, t),
         NEW i \in Nat, NEW j \in Nat, i <= j, j <= Len(t)
  PROVE  HoldsAt(s, i, SubSeq(t, i + 1, j))
<1>1. PICK n \in Nat : n = Len(t)
  BY LenProperties
<1>2. i + 1 \in 1..(Len(t) + 1) /\ j \in ((i + 1) - 1)..Len(t)
  BY <1>1
<1>3. /\ Len(SubSeq(t, i + 1, j)) = j - (i + 1) + 1
      /\ \A m \in 1..(j - (i + 1) + 1) : SubSeq(t, i + 1, j)[m] = t[(i + 1) + m - 1]
  BY <1>2, Parts
<1>4. PICK k \in Nat : k = j - i /\ k = j - (i + 1) + 1 /\ j = i + k
  <2>1. j - i \in Nat /\ j - i = j - (i + 1) + 1 /\ j = i + (j - i)
    OBVIOUS
  <2> QED
    BY <2>1
<1>5. n <= s.alloc /\ \A m \in 0..(n - 1) : s.buf[0 + m] = t[m + 1]
  BY <1>1 DEF HoldsAt
<1>6. ASSUME NEW m \in 0..(k - 1)
      PROVE  s.buf[i + m] = SubSeq(t, i + 1, j)[m + 1]
  <2>1. m + 1 \in 1..k /\ (i + 1) + (m + 1) - 1 = (i + m) + 1
    OBVIOUS
  <2>2. SubSeq(t, i + 1, j)[m + 1] = t[(i + m) + 1]
    BY <1>3, <1>4, <2>1
  <2>3. i + m \in 0..(n - 1) /\ 0 + (i + m) = i + m
    BY <1>1, <1>4
  <2> QED
    BY <1>5, <2>2, <2>3
<1>7. i + k <= s.alloc
  <2>1. s.alloc \in Nat
    BY Sizes
  <2> QED
    BY <1>1, <1>4, <1>5, <2>1
<1> QED
  BY <1>3, <1>4, <1>6, <1>7 DEF HoldsAt

-----------------------------------------------------------------------------
(***************************************************************************)
(* The functions of strbuf.c.                                              *)
(***************************************************************************)
LEMMA PutBehind ==
  ASSUME NEW g, Buffer(g), NEW t \in Seq(Cells), HoldsAt(g, 0, t), NEW d \in Seq(Cells),
         Len(t) + Len(d) < Room(g)
  PROVE  /\ HoldsAt(Put(g, Len(t), d), 0, t \o d)
         /\ Closed(SetLen(Put(g, Len(t), d), Len(t) + Len(d)), t \o d)
         /\ SetLen(Put(g, Len(t), d), Len(t) + Len(d)).alloc = g.alloc
<1> DEFINE p == Put(g, Len(t), d)
<1>1. Len(t) \in Nat /\ Len(d) \in Nat
  BY LenProperties
<1>2. Buffer(p) /\ p.alloc = g.alloc /\ Room(p) = Room(g)
  BY <1>1, PutBuffer, Zenon
<1>3. Len(t) + Len(d) <= g.alloc
  <2>1. /\ g.alloc \in Nat
        /\ g.alloc # 0 => Room(g) = g.alloc
        /\ g.alloc = 0 => Room(g) = 1
    BY Sizes
  <2>2. PICK n \in Nat : n = Len(t) + Len(d)
    BY <1>1
  <2>3. n < Room(g)
    BY <2>2
  <2> QED
    BY <2>1, <2>2, <2>3
<1>4. HoldsAt(p, Len(t), d)
  BY <1>1, <1>3, PutHolds
<1>5. HoldsAt(p, 0, t)
  <2>1. 0 + Len(t) <= Len(t)
    BY <1>1
  <2> QED
    BY <1>1, <2>1, PutLeaves
<1> HIDE DEF p
<1>6. HoldsAt(p, 0, t \o d)
  <2>1. 0 + Len(t) = Len(t)
    BY <1>1
  <2> QED
    BY <1>2, <1>4, <1>5, <2>1, HoldsBoth
<1>7. t \o d \in Seq(Cells) /\ Len(t \o d) = Len(t) + Len(d)
  BY ConcatProperties
<1>8. Len(t \o d) < Room(p)
  BY <1>2, <1>7
<1>9. Closed(SetLen(p, Len(t \o d)), t \o d) /\ SetLen(p, Len(t \o d)).alloc = g.alloc
  BY <1>2, <1>6, <1>7, <1>8, SetLenCloses
<1> QED
  BY <1>6, <1>7, <1>9 DEF p

LEMMA GrowKeeps ==
  ASSUME NEW s, Buffer(s), NEW extra \in Nat
  PROVE  /\ Buffer(Grow(s, extra)) /\ Grow(s, extra).len = s.len
         /\ Grow(s, extra).alloc \in Nat /\ Grow(s, extra).alloc > s.len + extra
         /\ Room(Grow(s, extra)) = Grow(s, extra).alloc
         /\ HoldsAt(Grow(s, extra), 0, Text(s))
         /\ Text(Grow(s, extra)) = Text(s)
<1> DEFINE g == Grow(s, extra)
<1>1. /\ Buffer(g) /\ g.len = s.len /\ g.alloc >= s.len + extra + 1 /\ Room(g) = g.alloc
  BY GrowBuffer
<1>2. HoldsAt(g, 0, Text(s))
  BY TextHolds, TextIs, BufferIsBlock, GrowHolds
<1> HIDE DEF g
<1>3. s.len \in Nat /\ g.alloc \in Nat
  BY <1>1, Sizes
<1>4. g.alloc > s.len + extra
  BY <1>1, <1>3
<1>5. Text(s) \in Seq(Cells) /\ Len(Text(s)) = g.len
  BY <1>1, TextIs
<1>6. Text(g) = Text(s)
  BY <1>1, <1>2, <1>5, HeldText
<1> QED
  BY <1>1, <1>2, <1>3, <1>4, <1>6 DEF g

LEMMA SetLenShortens ==
  ASSUME NEW s, Buffer(s), NEW n \in Nat, n <= s.len
  PROVE  /\ Closed(SetLen(s, n), SubSeq(Text(s), 1, n))
         /\ SetLen(s, n).alloc = s.alloc
<1>1. s.len \in Nat /\ s.len < Room(s) /\ Room(s) \in Nat
  BY Sizes
<1>2. Text(s) \in Seq(Cells) /\ Len(Text(s)) = s.len
  BY TextIs
<1>3. HoldsAt(s, 0, SubSeq(Text(s), 1, n))
  <2>1. HoldsAt(s, 0, SubSeq(Text(s), 0 + 1, n))
    BY <1>1, <1>2, TextHolds, PartHolds
  <2> QED
    BY <2>1
<1>4. SubSeq(Text(s), 1, n) \in Seq(Cells) /\ Len(SubSeq(Text(s), 1, n)) = n
  <2>1. 1 \in 1..(Len(Text(s)) + 1) /\ n \in (1 - 1)..Len(Text(s)) /\ n - 1 + 1 = n
    BY <1>1, <1>2
  <2> QED
    BY <1>2, <2>1, Parts
<1>5. n < Room(s)
  BY <1>1
<1> QED
  BY <1>3, <1>4, <1>5, SetLenCloses

LEMMA AddToAdds ==
  ASSUME NEW s, Buffer(s), NEW d \in Seq(Cells)
  PROVE  Closed(AddTo(s, d), Text(s) \o d)
<1>1. Len(d) \in Nat /\ s.len \in Nat /\ Len(Text(s)) = s.len /\ Text(s) \in Seq(Cells)
  BY LenProperties, Sizes, TextIs
<1> DEFINE g == Grow(s, Len(d))
<1>2. Buffer(g) /\ HoldsAt(g, 0, Text(s)) /\ Len(Text(s)) + Len(d) < Room(g)
  BY <1>1, GrowKeeps
<1> HIDE DEF g
<1>3. Closed(SetLen(Put(g, Len(Text(s)), d), Len(Text(s)) + Len(d)), Text(s) \o d)
  BY <1>1, <1>2, PutBehind
<1> QED
  BY <1>1, <1>3 DEF AddTo, g

LEMMA FormatToAdds ==
  ASSUME NEW s, Buffer(s), NEW d \in Seq(Cells)
  PROVE  Closed(FormatTo(s, d), Text(s) \o d)
<1> DEFINE roomy == IF Avail(s) = 0 THEN Grow(s, FormatSize) ELSE s
           big == IF Len(d) > Avail(roomy) THEN Grow(roomy, Len(d)) ELSE roomy
<1>1. Len(d) \in Nat /\ s.len \in Nat /\ s.alloc \in Nat /\ FormatSize \in Nat
  BY LenProperties, Sizes
<1>2. Text(s) \in Seq(Cells) /\ Len(Text(s)) = s.len
  BY TextIs
<1>3. Buffer(roomy) /\ roomy.len = s.len /\ Text(roomy) = Text(s) /\ roomy.alloc > 0
  <2>1. CASE Avail(s) = 0
    <3> DEFINE r == Grow(s, FormatSize)
    <3>1. /\ Buffer(r) /\ r.len = s.len /\ Text(r) = Text(s)
          /\ r.alloc \in Nat /\ r.alloc > s.len + FormatSize
      BY <1>1, GrowKeeps
    <3> HIDE DEF r
    <3>2. r.alloc > 0
      BY <1>1, <3>1
    <3> QED
      BY <2>1, <3>1, <3>2 DEF r
  <2>2. CASE Avail(s) # 0
    BY <1>1, <2>2 DEF Avail
  <2> QED
    BY <2>1, <2>2
<1> HIDE DEF roomy
<1>4. Buffer(big) /\ HoldsAt(big, 0, Text(s)) /\ s.len + Len(d) < Room(big)
  <2>1. CASE Len(d) > Avail(roomy)
    <3>1. /\ Buffer(Grow(roomy, Len(d))) /\ HoldsAt(Grow(roomy, Len(d)), 0, Text(roomy))
          /\ Grow(roomy, Len(d)).alloc > roomy.len + Len(d)
          /\ Room(Grow(roomy, Len(d))) = Grow(roomy, Len(d)).alloc
      BY <1>1, <1>3, GrowKeeps
    <3> QED
      BY <1>3, <2>1, <3>1
  <2>2. CASE ~(Len(d) > Avail(roomy))
    <3>1. roomy.alloc \in Nat /\ Room(roomy) = roomy.alloc
      BY <1>3, Sizes
    <3>2. Avail(roomy) = roomy.alloc - s.len - 1
      BY <1>3 DEF Avail
    <3>3. s.len + Len(d) < Room(roomy)
      BY <1>1, <2>2, <3>1, <3>2
    <3>4. HoldsAt(roomy, 0, Text(s))
      BY <1>3, TextHolds
    <3> QED
      BY <1>3, <2>2, <3>3, <3>4
  <2> QED
    BY <2>1, <2>2
<1> HIDE DEF big
<1>5. FormatTo(s, d) = SetLen(Put(big, s.len, d), s.len + Len(d))
  BY DEF FormatTo, roomy, big
<1>6. Closed(SetLen(Put(big, Len(Text(s)), d), Len(Text(s)) + Len(d)), Text(s) \o d)
  BY <1>2, <1>4, PutBehind
<1> QED
  BY <1>2, <1>5, <1>6

\* strbuf_splice moves the rest out of the way before it writes.
LEMMA SplicedText ==
  ASSUME NEW s, Buffer(s), NEW pos \in Nat, NEW n \in Nat, pos + n <= s.len,
         NEW d \in Seq(Cells)
  PROVE  Closed(Spliced(s, pos, n, d),
                SubSeq(Text(s), 1, pos) \o d \o SubSeq(Text(s), pos + n + 1, s.len))
<1> DEFINE t == Text(s)
           front == SubSeq(t, 1, pos)
           rest == SubSeq(t, pos + n + 1, s.len)
           g == IF Len(d) >= n THEN Grow(s, Len(d) - n) ELSE s
           moved == Put(g, pos + Len(d), rest)
           full == Put(moved, pos, d)
<1>1. PICK k \in Nat : k = Len(d)
  BY LenProperties
<1>2. PICK l \in Nat : l = s.len
  BY Sizes
<1>3. t \in Seq(Cells) /\ Len(t) = l
  BY <1>2, TextIs
<1>4. PICK r \in Nat : l = pos + n + r
  <2>1. l - (pos + n) \in Nat /\ l = pos + n + (l - (pos + n))
    BY <1>2
  <2> QED
    BY <2>1
<1>5. front \in Seq(Cells) /\ Len(front) = pos
  <2>1. 1 \in 1..(Len(t) + 1) /\ pos \in (1 - 1)..Len(t) /\ pos - 1 + 1 = pos
    BY <1>3, <1>4
  <2> QED
    BY <1>3, <2>1, Parts
<1>6. rest \in Seq(Cells) /\ Len(rest) = r
  <2>1. pos + n + 1 \in 1..(Len(t) + 1) /\ l \in ((pos + n + 1) - 1)..Len(t)
        /\ l - (pos + n + 1) + 1 = r
    BY <1>3, <1>4
  <2> QED
    BY <1>2, <1>3, <2>1, Parts
<1>7. /\ Buffer(g) /\ HoldsAt(g, 0, t)
      /\ pos + k + r < Room(g) /\ pos + k + r <= g.alloc /\ l <= g.alloc
  <2>1. CASE k >= n
    <3>1. PICK e \in Nat : e = k - n
      BY <2>1
    <3>2. /\ Buffer(Grow(s, e)) /\ HoldsAt(Grow(s, e), 0, t)
          /\ Grow(s, e).alloc \in Nat /\ Grow(s, e).alloc > l + e
          /\ Room(Grow(s, e)) = Grow(s, e).alloc
      BY <1>2, GrowKeeps
    <3>3. g = Grow(s, e)
      BY <1>1, <2>1, <3>1
    <3>4. l + e = pos + k + r
      BY <1>4, <3>1
    <3> HIDE DEF g
    <3> QED
      BY <3>2, <3>3, <3>4
  <2>2. CASE ~(k >= n)
    <3>1. g = s
      BY <1>1, <2>2
    <3>2. /\ s.alloc \in Nat /\ Room(s) \in Nat
          /\ l < Room(s)
          /\ s.alloc # 0 => Room(s) = s.alloc
          /\ s.alloc = 0 => Room(s) = 1
      BY <1>2, Sizes
    <3>3. HoldsAt(s, 0, t)
      BY TextHolds
    <3>4. pos + k + r < Room(s) /\ pos + k + r <= s.alloc /\ l <= s.alloc
      BY <1>4, <2>2, <3>2
    <3> QED
      BY <3>1, <3>3, <3>4
  <2> QED
    BY <2>1, <2>2
<1> HIDE DEF g, t
<1>8. HoldsAt(g, 0, front)
  <2>1. HoldsAt(g, 0, SubSeq(t, 0 + 1, pos))
    BY <1>3, <1>4, <1>7, PartHolds
  <2> QED
    BY <2>1
<1> HIDE DEF front, rest
<1>9. /\ Buffer(moved) /\ moved.alloc = g.alloc /\ Room(moved) = Room(g)
      /\ HoldsAt(moved, pos + k, rest) /\ HoldsAt(moved, 0, front)
  <2>1. pos + k \in Nat /\ pos + k + Len(rest) <= g.alloc /\ 0 + Len(front) <= pos + k
    BY <1>5, <1>6, <1>7
  <2>2. Buffer(moved) /\ moved.alloc = g.alloc /\ Room(moved) = Room(g)
    BY <1>1, <1>6, <1>7, <2>1, PutBuffer
  <2>3. HoldsAt(moved, pos + k, rest)
    BY <1>1, <1>6, <1>7, <2>1, PutHolds
  <2>4. HoldsAt(moved, 0, front)
    BY <1>1, <1>5, <1>6, <1>7, <1>8, <2>1, PutLeaves
  <2> QED
    BY <2>2, <2>3, <2>4
<1> HIDE DEF moved
<1>10. /\ Buffer(full) /\ Room(full) = Room(g)
       /\ HoldsAt(full, pos, d) /\ HoldsAt(full, 0, front) /\ HoldsAt(full, pos + k, rest)
  <2>1. pos + Len(d) <= moved.alloc /\ pos + Len(d) <= pos + k /\ 0 + Len(front) <= pos
        /\ pos + k \in Nat
    <3>1. g.alloc \in Nat
      BY <1>7, Sizes
    <3> QED
      BY <1>1, <1>5, <1>7, <1>9, <3>1
  <2>2. Buffer(full) /\ Room(full) = Room(g)
    BY <1>9, PutBuffer
  <2>3. HoldsAt(full, pos, d)
    BY <1>9, <2>1, PutHolds
  <2>4. HoldsAt(full, 0, front)
    BY <1>5, <1>9, <2>1, PutLeaves
  <2>5. HoldsAt(full, pos + k, rest)
    BY <1>6, <1>9, <2>1, PutLeaves
  <2> QED
    BY <2>2, <2>3, <2>4, <2>5
<1> HIDE DEF full
<1>11. /\ front \o d \in Seq(Cells) /\ Len(front \o d) = pos + k
       /\ front \o d \o rest \in Seq(Cells) /\ Len(front \o d \o rest) = pos + k + r
  <2>1. front \o d \in Seq(Cells) /\ Len(front \o d) = pos + k
    BY <1>1, <1>5, ConcatProperties
  <2> QED
    BY <1>6, <2>1, ConcatProperties
<1>12. HoldsAt(full, 0, front \o d)
  <2>1. 0 + Len(front) = pos
    BY <1>5
  <2> QED
    BY <1>5, <1>10, <2>1, HoldsBoth
<1>13. HoldsAt(full, 0, front \o d \o rest)
  <2>1. 0 + Len(front \o d) = pos + k
    BY <1>11
  <2> QED
    BY <1>6, <1>10, <1>11, <1>12, <2>1, HoldsBoth
<1>14. Closed(SetLen(full, Len(front \o d \o rest)), front \o d \o rest)
  BY <1>7, <1>10, <1>11, <1>13, SetLenCloses
<1>15. s.len + Len(d) - n = Len(front \o d \o rest)
  BY <1>1, <1>2, <1>4, <1>11
<1>16. Spliced(s, pos, n, d) = SetLen(full, s.len + Len(d) - n)
  BY DEF Spliced, full, moved, rest, t, g
<1> QED
  BY <1>14, <1>15, <1>16 DEF front, rest, t

-----------------------------------------------------------------------------
(***************************************************************************)
(* The trims.                                                              *)
(***************************************************************************)
LEMMA LeadingIs ==
  ASSUME NEW t \in Seq(Cells)
  PROVE  /\ Leading(t) \in 0..Len(t)
         /\ \A i \in 1..Leading(t) : t[i] \in Spaces
         /\ Leading(t) < Len(t) => t[Leading(t) + 1] \notin Spaces
<1>1. PICK n \in Nat : n = Len(t)
  BY LenProperties
<1> DEFINE T == {k \in 0..n : k = n \/ t[k + 1] \notin Spaces}
<1>2. PICK m \in T : \A k \in T : m <= k
  <2>1. T \in SUBSET Nat /\ n \in T
    OBVIOUS
  <2> HIDE DEF T
  <2> QED
    BY <2>1, Least
<1>3. \A i \in 1..m : t[i] \in Spaces
  <2>1. SUFFICES ASSUME NEW i \in 1..m
                 PROVE  t[i] \in Spaces
    OBVIOUS
  <2>2. m \in 0..n /\ i - 1 \in 0..n /\ i - 1 < m /\ (i - 1) + 1 = i
    OBVIOUS
  <2>3. i - 1 \notin T
    <3>1. ~(m <= i - 1)
      BY <2>2
    <3> QED
      BY <1>2, <3>1, Zenon
  <2> QED
    BY <2>2, <2>3
<1>4. m \in 0..Len(t) /\ (m < Len(t) => t[m + 1] \notin Spaces)
  BY <1>1
<1>5. \E k \in 0..Len(t) : /\ \A i \in 1..k : t[i] \in Spaces
                           /\ k < Len(t) => t[k + 1] \notin Spaces
  BY <1>3, <1>4
<1> QED
  BY <1>5, Zenon DEF Leading

LEMMA TrailingIs ==
  ASSUME NEW t \in Seq(Cells)
  PROVE  /\ Trailing(t) \in 0..Len(t)
         /\ \A i \in (Len(t) - Trailing(t) + 1)..Len(t) : t[i] \in Spaces
         /\ Trailing(t) < Len(t) => t[Len(t) - Trailing(t)] \notin Spaces
<1>1. PICK n \in Nat : n = Len(t)
  BY LenProperties
<1> DEFINE r == Reverse(t)
<1>2. r \in Seq(Cells) /\ Len(r) = n /\ \A i \in 1..n : r[i] = t[(n - i) + 1]
  <2>1. \A i \in 1..n : t[(n - i) + 1] \in Cells
    <3>1. \A i \in 1..n : (n - i) + 1 \in 1..Len(t)
      BY <1>1
    <3> QED
      BY <3>1, ElementOfSeq
  <2>2. r = [i \in 1..n |-> t[(n - i) + 1]]
    BY <1>1 DEF Reverse
  <2> HIDE DEF r
  <2>3. r \in [1..n -> Cells]
    BY <2>1, <2>2
  <2>4. r \in Seq(Cells)
    BY <2>3, SeqDef
  <2>5. Len(r) = n
    BY <2>3, <2>4, LenProperties
  <2> QED
    BY <2>2, <2>4, <2>5
<1> HIDE DEF r
<1>3. PICK k \in 0..n : /\ k = Trailing(t)
                        /\ \A i \in 1..k : r[i] \in Spaces
                        /\ k < n => r[k + 1] \notin Spaces
  <2>1. Trailing(t) = Leading(r)
    BY DEF Trailing, r
  <2> QED
    BY <1>2, <2>1, LeadingIs
<1>4. \A i \in (n - k + 1)..n : t[i] \in Spaces
  <2>1. SUFFICES ASSUME NEW i \in (n - k + 1)..n
                 PROVE  t[i] \in Spaces
    OBVIOUS
  <2>2. n - i + 1 \in 1..k /\ n - i + 1 \in 1..n /\ (n - (n - i + 1)) + 1 = i
    OBVIOUS
  <2> QED
    BY <1>2, <1>3, <2>2
<1>5. ASSUME k < n
      PROVE  t[n - k] \notin Spaces
  <2>1. k + 1 \in 1..n /\ (n - (k + 1)) + 1 = n - k
    BY <1>5
  <2>2. r[k + 1] = t[n - k]
    BY <1>2, <2>1
  <2> QED
    BY <1>3, <1>5, <2>2
<1> QED
  BY <1>1, <1>3, <1>4, <1>5

LEMMA RtrimmedText ==
  ASSUME NEW s, Buffer(s)
  PROVE  Closed(Rtrimmed(s), SubSeq(Text(s), 1, s.len - Trailing(Text(s))))
<1>1. Text(s) \in Seq(Cells) /\ Len(Text(s)) = s.len /\ s.len \in Nat
  BY TextIs, Sizes
<1>2. PICK k \in 0..s.len : k = Trailing(Text(s))
  BY <1>1, TrailingIs
<1>3. s.len - k \in Nat /\ s.len - k <= s.len
  BY <1>1, <1>2
<1> QED
  BY <1>2, <1>3, SetLenShortens DEF Rtrimmed

LEMMA LtrimmedText ==
  ASSUME NEW s, Buffer(s)
  PROVE  Closed(Ltrimmed(s), SubSeq(Text(s), Leading(Text(s)) + 1, s.len))
<1> DEFINE k == Leading(Text(s))
           rest == SubSeq(Text(s), k + 1, s.len)
           p == Put(s, 0, rest)
<1>1. PICK l \in Nat : l = s.len
  BY Sizes
<1>2. Text(s) \in Seq(Cells) /\ Len(Text(s)) = l
  BY <1>1, TextIs
<1>3. k \in 0..l
  BY <1>2, LeadingIs
<1> HIDE DEF k
<1>4. rest \in Seq(Cells) /\ Len(rest) = l - k
  <2>1. k + 1 \in 1..(Len(Text(s)) + 1) /\ l \in ((k + 1) - 1)..Len(Text(s))
        /\ l - (k + 1) + 1 = l - k
    BY <1>2, <1>3
  <2> QED
    BY <1>1, <1>2, <2>1, Parts
<1> HIDE DEF rest
<1>5. s.alloc \in Nat /\ l <= s.alloc /\ l < Room(s) /\ Room(s) \in Nat
  <2> QED
    BY <1>1, Sizes
<1>6. 0 + Len(rest) <= s.alloc /\ Len(rest) < Room(s)
  BY <1>3, <1>4, <1>5
<1>7. Buffer(p) /\ Room(p) = Room(s) /\ HoldsAt(p, 0, rest)
  BY <1>4, <1>6, PutBuffer, PutHolds
<1> HIDE DEF p
<1>8. Closed(SetLen(p, Len(rest)), rest)
  BY <1>4, <1>6, <1>7, SetLenCloses
<1> QED
  BY <1>1, <1>4, <1>8 DEF Ltrimmed, p, rest, k

LEMMA BlankPart ==
  ASSUME NEW t \in Seq(Cells), NEW i \in 1..(Len(t) + 1), NEW j \in (i - 1)..Len(t),
         \A m \in i..j : t[m] \in Spaces
  PROVE  Api!Blank(SubSeq(t, i, j))
<1> DEFINE u == SubSeq(t, i, j)
<1>1. PICK n \in Nat : n = Len(t)
  BY LenProperties
<1>2. PICK k \in Nat : k = j - i + 1
  BY <1>1
<1>3. /\ u \in Seq(Cells) /\ Len(u) = k
      /\ \A m \in 1..k : u[m] = t[i + m - 1]
  BY <1>2, Parts
<1> HIDE DEF u
<1>4. DOMAIN u = 1..k
  BY <1>3, LenProperties
<1>5. ASSUME NEW m \in 1..k
      PROVE  u[m] \in Spaces
  <2>1. i + m - 1 \in i..j
    BY <1>1, <1>2
  <2> QED
    BY <1>3, <2>1
<1> QED
  BY <1>4, <1>5 DEF Api!Blank, Api!Range, u

LEMMA TrimmedIs ==
  ASSUME NEW t \in Seq(Cells), NEW k \in Nat, NEW j \in Nat, k <= j, j <= Len(t),
         NEW left \in BOOLEAN, NEW right \in BOOLEAN,
         k = 0 \/ left, j = Len(t) \/ right,
         \A i \in 1..k : t[i] \in Spaces,
         \A i \in (j + 1)..Len(t) : t[i] \in Spaces,
         k < j /\ left => t[k + 1] \notin Spaces,
         k < j /\ right => t[j] \notin Spaces
  PROVE  Api!TrimmedText(SubSeq(t, k + 1, j), t, left, right)
<1> DEFINE new == SubSeq(t, k + 1, j)
<1>1. PICK n \in Nat : n = Len(t)
  BY LenProperties
<1>2. PICK l \in Nat : l = j - k /\ l = j - (k + 1) + 1 /\ j = k + l
  <2>1. j - k \in Nat /\ j - k = j - (k + 1) + 1 /\ j = k + (j - k)
    OBVIOUS
  <2> QED
    BY <2>1
<1>3. k + 1 \in 1..(Len(t) + 1) /\ j \in ((k + 1) - 1)..Len(t)
  BY <1>1
<1>4. /\ new \in Seq(Cells) /\ Len(new) = l
      /\ \A m \in 1..l : new[m] = t[(k + 1) + m - 1]
  BY <1>2, <1>3, Parts
<1>5. Api!Blank(SubSeq(t, 1, (k + 1) - 1))
  <2>1. 1 \in 1..(Len(t) + 1) /\ (k + 1) - 1 \in (1 - 1)..Len(t)
        /\ \A m \in 1..((k + 1) - 1) : t[m] \in Spaces
    BY <1>1
  <2> QED
    BY <2>1, BlankPart
<1>6. Api!Blank(SubSeq(t, j + 1, Len(t)))
  <2>1. j + 1 \in 1..(Len(t) + 1) /\ Len(t) \in ((j + 1) - 1)..Len(t)
    BY <1>1
  <2> QED
    BY <2>1, BlankPart
<1> HIDE DEF new
<1>7. Api!Bare(new, left, right)
  <2>1. CASE l = 0
    <3>1. new = <<>>
      BY <1>4, <2>1, EmptySeq
    <3> QED
      BY <3>1 DEF Api!Bare
  <2>2. CASE l > 0
    <3>1. 1 \in 1..l /\ (k + 1) + 1 - 1 = k + 1 /\ l \in 1..l /\ (k + 1) + l - 1 = j /\ k < j
      BY <1>2, <2>2
    <3>2. new[1] = t[k + 1] /\ new[l] = t[j]
      BY <1>4, <3>1
    <3> QED
      BY <1>4, <3>1, <3>2 DEF Api!Bare
  <2> QED
    BY <2>1, <2>2
<1>8. new = SubSeq(t, k + 1, j) /\ k + 1 \in 1..(Len(t) + 1) /\ j \in 0..Len(t)
      /\ (k + 1 = 1 \/ left)
  BY <1>1 DEF new
<1> QED
  BY <1>5, <1>6, <1>7, <1>8 DEF Api!TrimmedText, new

LEMMA TrimsAreMeant ==
  ASSUME NEW s, Buffer(s)
  PROVE  /\ Closed(Rtrimmed(s), Text(Rtrimmed(s)))
         /\ Api!TrimmedText(Text(Rtrimmed(s)), Text(s), FALSE, TRUE)
         /\ Closed(Ltrimmed(s), Text(Ltrimmed(s)))
         /\ Api!TrimmedText(Text(Ltrimmed(s)), Text(s), TRUE, FALSE)
         /\ Closed(Ltrimmed(Rtrimmed(s)), Text(Ltrimmed(Rtrimmed(s))))
         /\ Api!TrimmedText(Text(Ltrimmed(Rtrimmed(s))), Text(s), TRUE, TRUE)
<1> DEFINE t == Text(s)
           r == Rtrimmed(s)
<1>1. PICK l \in Nat : l = s.len
  BY Sizes
<1>2. t \in Seq(Cells) /\ Len(t) = l
  BY <1>1, TextIs
<1>3. PICK e \in 0..l : /\ e = Trailing(t)
                        /\ \A i \in (l - e + 1)..l : t[i] \in Spaces
                        /\ e < l => t[l - e] \notin Spaces
  BY <1>2, TrailingIs
<1>4. PICK j \in Nat : j = l - e /\ j <= l
  <2>1. l - e \in Nat /\ l - e <= l
    BY <1>3
  <2> QED
    BY <2>1
<1>5. Closed(r, SubSeq(t, 1, j))
  BY <1>1, <1>3, <1>4, RtrimmedText
<1>6. /\ \A i \in (j + 1)..Len(t) : t[i] \in Spaces
      /\ 0 < j => t[j] \notin Spaces
  BY <1>2, <1>3, <1>4
<1>7. Api!TrimmedText(SubSeq(t, 1, j), t, FALSE, TRUE)
  <2>1. PICK z \in Nat : z = 0 /\ z + 1 = 1
    OBVIOUS
  <2>2. /\ z <= j /\ j <= Len(t)
        /\ \A i \in 1..z : t[i] \in Spaces
        /\ z < j => t[j] \notin Spaces
    BY <1>2, <1>4, <1>6, <2>1
  <2>3. Api!TrimmedText(SubSeq(t, z + 1, j), t, FALSE, TRUE)
    BY <1>2, <1>6, <2>1, <2>2, TrimmedIs
  <2> QED
    BY <2>1, <2>3
<1>8. Closed(Ltrimmed(s), SubSeq(t, Leading(t) + 1, l))
  BY <1>1, LtrimmedText
<1>9. PICK k \in 0..l : /\ k = Leading(t)
                        /\ \A i \in 1..k : t[i] \in Spaces
                        /\ k < l => t[k + 1] \notin Spaces
  BY <1>2, LeadingIs
<1> HIDE DEF t, r
<1>10. Api!TrimmedText(SubSeq(t, k + 1, l), t, TRUE, FALSE)
  <2>1. /\ k \in Nat /\ k <= l /\ l <= Len(t)
        /\ \A i \in (l + 1)..Len(t) : t[i] \in Spaces
    BY <1>2, <1>9
  <2> QED
    BY <1>2, <1>9, <2>1, TrimmedIs
<1>11. Buffer(r) /\ Text(r) = SubSeq(t, 1, j) /\ r.len = j
  <2>1. 1 \in 1..(Len(t) + 1) /\ j \in (1 - 1)..Len(t) /\ j - 1 + 1 = j
    BY <1>2, <1>4
  <2>2. Len(SubSeq(t, 1, j)) = j
    BY <1>2, <2>1, Parts
  <2>3. Buffer(r) /\ Text(r) = SubSeq(t, 1, j)
    BY <1>5 DEF Closed
  <2> QED
    BY <2>2, <2>3, TextIs
<1> DEFINE u == SubSeq(t, 1, j)
<1>12. u \in Seq(Cells) /\ Len(u) = j /\ \A i \in 1..j : u[i] = t[i]
  <2>1. 1 \in 1..(Len(t) + 1) /\ j \in (1 - 1)..Len(t) /\ j - 1 + 1 = j
    BY <1>2, <1>4
  <2>2. u \in Seq(Cells) /\ Len(u) = j - 1 + 1 /\ \A i \in 1..(j - 1 + 1) : u[i] = t[1 + i - 1]
    BY <1>2, <2>1, Parts
  <2> QED
    BY <2>1, <2>2
<1>13. PICK m \in 0..j : /\ m = Leading(u)
                         /\ \A i \in 1..m : u[i] \in Spaces
                         /\ m < j => u[m + 1] \notin Spaces
  BY <1>12, LeadingIs
<1>14. Closed(Ltrimmed(r), SubSeq(u, m + 1, j))
  BY <1>11, <1>13, LtrimmedText
<1> HIDE DEF u
<1>15. SubSeq(u, m + 1, j) = SubSeq(t, m + 1, j)
  <2>1. m + 1 \in 1..(j + 1) /\ j \in ((m + 1) - 1)..j /\ j \in ((m + 1) - 1)..l
        /\ m + 1 \in 1..(l + 1) /\ j - (m + 1) + 1 \in Nat
    BY <1>4
  <2>2. /\ SubSeq(u, m + 1, j) \in Seq(Cells) /\ Len(SubSeq(u, m + 1, j)) = j - (m + 1) + 1
        /\ \A i \in 1..(j - (m + 1) + 1) : SubSeq(u, m + 1, j)[i] = u[(m + 1) + i - 1]
    BY <1>12, <2>1, Parts
  <2>3. /\ SubSeq(t, m + 1, j) \in Seq(Cells) /\ Len(SubSeq(t, m + 1, j)) = j - (m + 1) + 1
        /\ \A i \in 1..(j - (m + 1) + 1) : SubSeq(t, m + 1, j)[i] = t[(m + 1) + i - 1]
    BY <1>2, <2>1, Parts
  <2>4. \A i \in 1..(j - (m + 1) + 1) : (m + 1) + i - 1 \in 1..j
    OBVIOUS
  <2>5. \A i \in 1..(j - (m + 1) + 1) : SubSeq(u, m + 1, j)[i] = SubSeq(t, m + 1, j)[i]
    BY <1>12, <2>2, <2>3, <2>4
  <2> QED
    BY <2>2, <2>3, <2>5, SeqEqual
<1>16. Api!TrimmedText(SubSeq(t, m + 1, j), t, TRUE, TRUE)
  <2>1. /\ m \in Nat /\ m <= j /\ j <= Len(t)
        /\ \A i \in 1..m : t[i] \in Spaces
        /\ m < j => t[m + 1] \notin Spaces /\ t[j] \notin Spaces
    BY <1>2, <1>4, <1>6, <1>12, <1>13
  <2> QED
    BY <1>2, <1>6, <2>1, TrimmedIs
<1> QED
  BY <1>5, <1>7, <1>8, <1>9, <1>10, <1>14, <1>15, <1>16 DEF Closed, t, r

-----------------------------------------------------------------------------
(***************************************************************************)
(* strbuf_getwholeline, byte by byte.                                      *)
(***************************************************************************)
LEMMA LineLengthIs ==
  ASSUME NEW d \in Seq(Cells)
  PROVE  /\ LineLength(d) \in 0..Len(d)
         /\ \A i \in 1..(LineLength(d) - 1) : d[i] # Term
         /\ LineLength(d) = Len(d) \/ (LineLength(d) > 0 /\ d[LineLength(d)] = Term)
<1>1. PICK n \in Nat : n = Len(d)
  BY LenProperties
<1> DEFINE T == {k \in 0..n : k = n \/ (k > 0 /\ d[k] = Term)}
<1>2. PICK m \in T : \A k \in T : m <= k
  <2>1. T \in SUBSET Nat /\ n \in T
    OBVIOUS
  <2> HIDE DEF T
  <2> QED
    BY <2>1, Least
<1>3. ASSUME NEW i \in 1..(m - 1)
      PROVE  d[i] # Term
  <2>1. m \in 0..n /\ i \in 0..n /\ i < m /\ i > 0
    OBVIOUS
  <2>2. i \notin T
    <3>1. ~(m <= i)
      BY <2>1
    <3> QED
      BY <1>2, <3>1, Zenon
  <2> QED
    BY <2>1, <2>2
<1>4. m \in 0..Len(d) /\ (m = Len(d) \/ (m > 0 /\ d[m] = Term))
  BY <1>1
<1>5. \E k \in 0..Len(d) : /\ \A i \in 1..(k - 1) : d[i] # Term
                           /\ k = Len(d) \/ (k > 0 /\ d[k] = Term)
  BY <1>3, <1>4
<1> QED
  BY <1>5, Zenon DEF LineLength

LEMMA AddByteAdds ==
  ASSUME NEW s, Buffer(s), NEW c \in Cells
  PROVE  Buffer(AddByte(s, c)) /\ Text(AddByte(s, c)) = Text(s) \o <<c>>
<1> DEFINE g == Grow(s, 1)
           p == Put(g, s.len, <<c>>)
           r == [p EXCEPT !.len = s.len + 1]
<1>1. PICK l \in Nat : l = s.len
  BY Sizes
<1>2. Text(s) \in Seq(Cells) /\ Len(Text(s)) = l /\ <<c>> \in Seq(Cells) /\ Len(<<c>>) = 1
  BY <1>1, TextIs
<1>3. /\ Buffer(g) /\ HoldsAt(g, 0, Text(s)) /\ g.alloc \in Nat
      /\ g.alloc > l + 1 /\ Room(g) = g.alloc
  BY <1>1, GrowKeeps
<1>4. Len(Text(s)) + Len(<<c>>) < Room(g)
  BY <1>2, <1>3
<1> HIDE DEF g
<1>5. HoldsAt(p, 0, Text(s) \o <<c>>)
  BY <1>1, <1>2, <1>3, <1>4, PutBehind
<1>6. Buffer(p) /\ p.alloc = g.alloc /\ Room(p) = Room(g)
  <2>1. s.len \in Nat
    BY <1>1
  <2>2. /\ Buffer(Put(g, s.len, <<c>>)) /\ Put(g, s.len, <<c>>).alloc = g.alloc
        /\ Room(Put(g, s.len, <<c>>)) = Room(g)
    <3> DEFINE d == <<c>>
               pos == s.len
    <3>1. d \in Seq(Cells) /\ pos \in Nat
      BY <1>2, <2>1
    <3> HIDE DEF d, pos
    <3>2. /\ Buffer(Put(g, pos, d)) /\ Put(g, pos, d).alloc = g.alloc
          /\ Room(Put(g, pos, d)) = Room(g)
      BY <1>3, <3>1, PutBuffer
    <3> QED
      BY <3>2 DEF d, pos
  <2> QED
    BY <2>2
<1> HIDE DEF p
<1>7. r = [alloc |-> p.alloc, len |-> l + 1, buf |-> p.buf]
  BY <1>1, <1>6, LenAssigned DEF Buffer
<1> HIDE DEF r
<1>8. r.alloc = p.alloc /\ r.len = l + 1 /\ r.buf = p.buf
  BY <1>7
<1>9. Buffer(r)
  <2>1. Room(r) = Room(p)
    BY <1>8 DEF Room
  <2>2. l + 1 \in Nat /\ l + 1 < Room(r)
    BY <1>3, <1>6, <2>1
  <2> QED
    BY <1>6, <1>7, <1>8, <2>1, <2>2 DEF Buffer
<1>10. Text(s) \o <<c>> \in Seq(Cells) /\ Len(Text(s) \o <<c>>) = l + 1
  BY <1>2, ConcatProperties
<1>11. Text(r) = Text(s) \o <<c>>
  BY <1>5, <1>8, <1>9, <1>10, HeldText
<1> QED
  BY <1>9, <1>11 DEF AddByte, r, p, g

\* f is the buffer b after each of the first n bytes of d.
Filled(f, b, d, n) ==
  f = [k \in 0..n |-> IF k = 0 THEN b ELSE AddByte(f[k - 1], d[k])]

LEMMA FilledExists ==
  ASSUME NEW b, NEW d, NEW n \in Nat
  PROVE  \E f : Filled(f, b, d, n)
<1> DEFINE Is(f, m) == f = [k \in 0..m |-> IF k = 0 THEN b ELSE AddByte(f[k - 1], d[k])]
           T == {m \in Nat : ~ \E f : Is(f, m)}
<1>1. T = {}
  <2>1. SUFFICES ASSUME T # {}
                 PROVE  FALSE
    OBVIOUS
  <2>2. PICK m \in T : \A k \in T : m <= k
    <3>1. T \in SUBSET Nat
      OBVIOUS
    <3> HIDE DEF T
    <3> QED
      BY <2>1, <3>1, Least
  <2>3. m \in Nat /\ ~ \E f : Is(f, m)
    OBVIOUS
  <2>4. CASE m = 0
    <3>1. Is([k \in 0..0 |-> b], 0)
      OBVIOUS
    <3> QED
      BY <2>3, <2>4, <3>1
  <2>5. CASE m # 0
    <3>1. m - 1 \in Nat /\ ~(m <= m - 1)
      BY <2>3, <2>5
    <3>2. m - 1 \notin T
      BY <2>2, <3>1, Zenon
    <3>3. PICK f : Is(f, m - 1)
      BY <3>1, <3>2
    <3> DEFINE h == [k \in 0..m |-> IF k < m THEN f[k] ELSE AddByte(f[m - 1], d[m])]
    <3>4. ASSUME NEW k \in 0..m
          PROVE  h[k] = IF k = 0 THEN b ELSE AddByte(h[k - 1], d[k])
      <4>1. CASE k < m
        <5>1. k \in 0..(m - 1) /\ h[k] = f[k]
          BY <2>3, <4>1
        <5>2. f[k] = IF k = 0 THEN b ELSE AddByte(f[k - 1], d[k])
          BY <3>3, <5>1, Zenon
        <5>3. k # 0 => h[k - 1] = f[k - 1]
          BY <2>3, <4>1
        <5> QED
          BY <5>1, <5>2, <5>3
      <4>2. CASE k = m
        <5>1. h[m] = AddByte(f[m - 1], d[m]) /\ h[m - 1] = f[m - 1]
          BY <2>3, <2>5
        <5> QED
          BY <2>5, <4>2, <5>1
      <4>3. k < m \/ k = m
        BY <2>3
      <4> QED
        BY <4>1, <4>2, <4>3
    <3>5. DOMAIN h = 0..m /\ h = [k \in DOMAIN h |-> h[k]]
      OBVIOUS
    <3> HIDE DEF h
    <3>6. Is(h, m)
      BY <3>4, <3>5
    <3> HIDE DEF Is
    <3> QED
      BY <2>3, <3>6
  <2> QED
    BY <2>4, <2>5
<1>2. \E f : Is(f, n)
  BY <1>1
<1> QED
  BY <1>2 DEF Filled

LEMMA WholeLineText ==
  ASSUME NEW s, Buffer(s), NEW d \in Seq(Cells)
  PROVE  Closed(WholeLine(s, d), SubSeq(d, 1, LineLength(d)))
<1> DEFINE n == LineLength(d)
           b == SetLen(Grow(s, 0), 0)
           After == CHOOSE f : Filled(f, b, d, n)
<1>1. WholeLine(s, d) = SetLen(After[n], After[n].len)
  BY Zenon DEF WholeLine, Filled
<1>2. n \in 0..Len(d) /\ Len(d) \in Nat
  BY LineLengthIs, LenProperties
<1>3. Closed(b, <<>>)
  <2> DEFINE g == Grow(s, 0)
  <2>1. Buffer(g) /\ g.len \in Nat
    BY GrowKeeps, Sizes
  <2> HIDE DEF g
  <2>2. PICK z \in Nat : z = 0 /\ z <= g.len
    BY <2>1
  <2>3. Closed(SetLen(g, z), SubSeq(Text(g), 1, z))
    BY <2>1, <2>2, SetLenShortens
  <2>4. SubSeq(Text(g), 1, z) = <<>>
    BY <2>2, SubSeqEmpty
  <2> QED
    BY <2>2, <2>3, <2>4 DEF g
<1> HIDE DEF n, b
<1>4. Filled(After, b, d, n)
  <2>1. n \in Nat
    BY <1>2
  <2>2. \E f : Filled(f, b, d, n)
    BY <2>1, FilledExists, Zenon
  <2> QED
    BY <2>2, Zenon
<1> HIDE DEF After
<1>5. ASSUME NEW k \in 0..n
      PROVE  After[k] = IF k = 0 THEN b ELSE AddByte(After[k - 1], d[k])
  BY <1>4, Zenon DEF Filled
<1> DEFINE Done(k) == Buffer(After[k]) /\ Text(After[k]) = SubSeq(d, 1, k)
           T == {k \in 0..n : ~Done(k)}
<1>6. T = {}
  <2>1. SUFFICES ASSUME T # {}
                 PROVE  FALSE
    OBVIOUS
  <2>2. PICK m \in T : \A k \in T : m <= k
    <3>1. T \in SUBSET Nat
      BY <1>2
    <3> HIDE DEF T
    <3> QED
      BY <2>1, <3>1, Least
  <2>3. m \in 0..n /\ ~Done(m)
    OBVIOUS
  <2>4. CASE m = 0
    <3>1. After[0] = b
      BY <1>5, <2>3, <2>4
    <3>2. SubSeq(d, 1, 0) = <<>>
      BY SubSeqEmpty
    <3> QED
      BY <1>3, <2>3, <2>4, <3>1, <3>2 DEF Closed
  <2>5. CASE m # 0
    <3>1. m - 1 \in 0..n /\ ~(m <= m - 1) /\ m \in 1..Len(d)
      BY <1>2, <2>3, <2>5
    <3>2. m - 1 \notin T
      BY <2>2, <3>1, Zenon
    <3>3. Buffer(After[m - 1]) /\ Text(After[m - 1]) = SubSeq(d, 1, m - 1)
      BY <3>1, <3>2
    <3>4. After[m] = AddByte(After[m - 1], d[m])
      BY <1>5, <2>3, <2>5
    <3>5. d[m] \in Cells
      BY <3>1, ElementOfSeq
    <3>6. Buffer(After[m]) /\ Text(After[m]) = SubSeq(d, 1, m - 1) \o <<d[m]>>
      BY <3>3, <3>4, <3>5, AddByteAdds
    <3>7. SubSeq(d, 1, m) = SubSeq(d, 1, m - 1) \o <<d[m]>>
      <4>1. 1 \in 1..Len(d) /\ m \in 1..Len(d)
        BY <1>2, <3>1
      <4> QED
        BY <4>1, SubSeqRecursiveSecond
    <3> QED
      BY <2>3, <3>6, <3>7
  <2> QED
    BY <2>4, <2>5
<1>7. Buffer(After[n]) /\ Text(After[n]) = SubSeq(d, 1, n)
  BY <1>2, <1>6
<1>8. PICK l \in Nat : l = After[n].len
  BY <1>7, Sizes
<1>9. SubSeq(Text(After[n]), 1, l) = Text(After[n])
  BY <1>7, <1>8, TextIs, SubSeqFull
<1>10. Closed(SetLen(After[n], l), SubSeq(Text(After[n]), 1, l))
  <2>1. l <= After[n].len
    BY <1>8
  <2> QED
    BY <1>7, <2>1, SetLenShortens
<1> QED
  BY <1>1, <1>7, <1>8, <1>9, <1>10 DEF n

-----------------------------------------------------------------------------
(***************************************************************************)
(* strbuf_split: pieces that together are the text.                        *)
(***************************************************************************)
\* f joins the first i of the sequences ps, for each i.
Joined(f, ps) == f = [i \in 1..Len(ps) |-> IF i = 1 THEN ps[i] ELSE f[i - 1] \o ps[i]]

LEMMA JoinedExists ==
  ASSUME NEW ps, Len(ps) \in Nat
  PROVE  \E f : Joined(f, ps)
<1> DEFINE Is(f, m) == f = [i \in 1..m |-> IF i = 1 THEN ps[i] ELSE f[i - 1] \o ps[i]]
           T == {m \in Nat : ~ \E f : Is(f, m)}
<1>1. T = {}
  <2>1. SUFFICES ASSUME T # {}
                 PROVE  FALSE
    OBVIOUS
  <2>2. PICK m \in T : \A k \in T : m <= k
    <3>1. T \in SUBSET Nat
      OBVIOUS
    <3> HIDE DEF T
    <3> QED
      BY <2>1, <3>1, Least
  <2>3. m \in Nat /\ ~ \E f : Is(f, m)
    OBVIOUS
  <2>4. CASE m = 0
    <3>1. Is([i \in 1..0 |-> ps[i]], 0)
      OBVIOUS
    <3> QED
      BY <2>3, <2>4, <3>1
  <2>5. CASE m # 0
    <3>1. m - 1 \in Nat /\ ~(m <= m - 1)
      BY <2>3, <2>5
    <3>2. m - 1 \notin T
      BY <2>2, <3>1, Zenon
    <3>3. PICK f : Is(f, m - 1)
      BY <3>1, <3>2
    <3> DEFINE h == [i \in 1..m |-> IF i < m THEN f[i]
                                    ELSE IF m = 1 THEN ps[m] ELSE f[m - 1] \o ps[m]]
    <3>4. ASSUME NEW i \in 1..m
          PROVE  h[i] = IF i = 1 THEN ps[i] ELSE h[i - 1] \o ps[i]
      <4>1. CASE i < m
        <5>1. i \in 1..(m - 1) /\ h[i] = f[i]
          BY <2>3, <4>1
        <5>2. f[i] = IF i = 1 THEN ps[i] ELSE f[i - 1] \o ps[i]
          BY <3>3, <5>1, Zenon
        <5>3. i # 1 => h[i - 1] = f[i - 1]
          BY <2>3, <4>1
        <5> QED
          BY <5>1, <5>2, <5>3
      <4>2. CASE i = m
        <5>1. h[m] = IF m = 1 THEN ps[m] ELSE f[m - 1] \o ps[m]
          BY <2>3, <2>5
        <5>2. m # 1 => h[m - 1] = f[m - 1]
          BY <2>3, <2>5
        <5> QED
          BY <4>2, <5>1, <5>2
      <4>3. i < m \/ i = m
        BY <2>3
      <4> QED
        BY <4>1, <4>2, <4>3
    <3>5. DOMAIN h = 1..m /\ h = [i \in DOMAIN h |-> h[i]]
      OBVIOUS
    <3> HIDE DEF h
    <3>6. Is(h, m)
      BY <3>4, <3>5
    <3> HIDE DEF Is
    <3> QED
      BY <2>3, <3>6
  <2> QED
    BY <2>4, <2>5
<1>2. \E f : Is(f, Len(ps))
  BY <1>1
<1> QED
  BY <1>2 DEF Joined

LEMMA FlattenIsJoined ==
  ASSUME NEW ps, Len(ps) \in Nat, Len(ps) # 0
  PROVE  \E f : Joined(f, ps) /\ Api!FlattenSeq(ps) = f[Len(ps)]
<1> DEFINE f == CHOOSE g : Joined(g, ps)
<1>1. Joined(f, ps)
  BY JoinedExists, Zenon
<1>2. Api!FlattenSeq(ps) = f[Len(ps)]
  BY Zenon DEF Api!FlattenSeq, Joined
<1> QED
  BY <1>1, <1>2, Zenon

LEMMA FlattenCons ==
  ASSUME NEW p \in Seq(Cells), NEW ps \in Seq(Seq(Cells))
  PROVE  Api!FlattenSeq(<<p>> \o ps) = p \o Api!FlattenSeq(ps)
<1> DEFINE q == <<p>> \o ps
<1>1. PICK m \in Nat : m = Len(ps)
  BY LenProperties
<1>2. /\ Len(q) = m + 1 /\ q[1] = p
      /\ \A i \in 1..m : q[i + 1] = ps[i]
  <2>1. <<p>> \in Seq(Seq(Cells)) /\ Len(<<p>>) = 1 /\ <<p>>[1] = p
    OBVIOUS
  <2>2. /\ Len(q) = Len(<<p>>) + Len(ps)
        /\ \A i \in 1..Len(<<p>>) + Len(ps) :
             q[i] = IF i <= Len(<<p>>) THEN <<p>>[i] ELSE ps[i - Len(<<p>>)]
    BY <2>1, ConcatProperties
  <2> HIDE DEF q
  <2>3. \A i \in 1..(1 + m) : q[i] = IF i <= 1 THEN <<p>>[i] ELSE ps[i - 1]
    BY <1>1, <2>1, <2>2
  <2>4. q[1] = p
    BY <2>1, <2>3
  <2>5. \A i \in 1..m : i + 1 \in 1..(1 + m) /\ ~(i + 1 <= 1) /\ (i + 1) - 1 = i
    OBVIOUS
  <2>6. \A i \in 1..m : q[i + 1] = ps[i]
    BY <2>3, <2>5
  <2> QED
    BY <1>1, <2>1, <2>2, <2>4, <2>6
<1> HIDE DEF q
<1>3. PICK f : Joined(f, q) /\ Api!FlattenSeq(q) = f[m + 1]
  <2>1. Len(q) \in Nat /\ Len(q) # 0
    BY <1>2
  <2>2. \E f : Joined(f, q) /\ Api!FlattenSeq(q) = f[Len(q)]
    BY <2>1, FlattenIsJoined, Zenon
  <2> QED
    BY <1>2, <2>2
<1>4. f[1] = p /\ \A i \in 1..m : f[i + 1] = f[i] \o ps[i]
  <2>1. \A i \in 1..(m + 1) : f[i] = IF i = 1 THEN q[i] ELSE f[i - 1] \o q[i]
    BY <1>2, <1>3 DEF Joined
  <2>2. \A i \in 1..m : i + 1 \in 1..(m + 1) /\ i + 1 # 1 /\ (i + 1) - 1 = i
    OBVIOUS
  <2>3. f[1] = p
    BY <1>2, <2>1
  <2>4. \A i \in 1..m : f[i + 1] = f[i] \o ps[i]
    BY <1>2, <2>1, <2>2
  <2> QED
    BY <2>3, <2>4
<1>5. CASE m = 0
  <2>1. ps = <<>>
    BY <1>1, <1>5, EmptySeq
  <2>2. Api!FlattenSeq(ps) = <<>>
    BY <2>1 DEF Api!FlattenSeq
  <2>3. p \o <<>> = p
    BY ConcatEmptySeq
  <2> QED
    BY <1>3, <1>4, <1>5, <2>2, <2>3 DEF q
<1>6. CASE m # 0
  <2>1. PICK g : Joined(g, ps) /\ Api!FlattenSeq(ps) = g[m]
    BY <1>1, <1>6, FlattenIsJoined
  <2>2. \A i \in 1..m : g[i] = IF i = 1 THEN ps[i] ELSE g[i - 1] \o ps[i]
    BY <1>1, <2>1 DEF Joined
  <2>3. \A i \in 1..m : ps[i] \in Seq(Cells)
    BY <1>1, ElementOfSeq
  <2> DEFINE Done(i) == g[i] \in Seq(Cells) /\ f[i + 1] = p \o g[i]
             T == {i \in 1..m : ~Done(i)}
  <2>4. T = {}
    <3>1. SUFFICES ASSUME T # {}
                   PROVE  FALSE
      OBVIOUS
    <3>2. PICK i \in T : \A k \in T : i <= k
      <4>1. T \in SUBSET Nat
        OBVIOUS
      <4> HIDE DEF T
      <4> QED
        BY <3>1, <4>1, Least
    <3>3. i \in 1..m /\ ~Done(i)
      OBVIOUS
    <3>4. CASE i = 1
      <4>1. g[1] = ps[1] /\ ps[1] \in Seq(Cells) /\ f[1 + 1] = f[1] \o ps[1]
        BY <1>4, <2>2, <2>3, <3>3, <3>4
      <4> QED
        BY <1>4, <3>3, <3>4, <4>1
    <3>5. CASE i # 1
      <4>1. i - 1 \in 1..m /\ ~(i <= i - 1) /\ (i - 1) + 1 = i
        BY <3>3, <3>5
      <4>2. i - 1 \notin T
        BY <3>2, <4>1, Zenon
      <4>3. g[i - 1] \in Seq(Cells) /\ f[i] = p \o g[i - 1]
        BY <4>1, <4>2
      <4>4. g[i] = g[i - 1] \o ps[i] /\ ps[i] \in Seq(Cells)
        BY <2>2, <2>3, <3>3, <3>5
      <4>5. g[i] \in Seq(Cells)
        BY <4>3, <4>4, ConcatProperties
      <4>6. f[i + 1] = (p \o g[i - 1]) \o ps[i]
        <5>1. f[i + 1] = f[i] \o ps[i]
          BY <1>4, <3>3
        <5> QED
          BY <4>3, <5>1
      <4>7. (p \o g[i - 1]) \o ps[i] = p \o (g[i - 1] \o ps[i])
        <5>1. PICK x \in Seq(Cells), y \in Seq(Cells) : x = g[i - 1] /\ y = ps[i]
          BY <4>3, <4>4
        <5>2. (p \o x) \o y = p \o (x \o y)
          BY ConcatAssociative
        <5> QED
          BY <5>1, <5>2, Zenon
      <4> QED
        BY <3>3, <4>4, <4>5, <4>6, <4>7
    <3> QED
      BY <3>4, <3>5
  <2>5. m \in 1..m
    BY <1>6
  <2>6. f[m + 1] = p \o g[m]
    BY <2>4, <2>5
  <2> QED
    BY <1>3, <2>1, <2>6 DEF q
<1> QED
  BY <1>5, <1>6

\* How much of t strbuf_split takes from i on.
Step(t, i) == LineLength(SubSeq(t, i, Len(t)))

LEMMA StepIs ==
  ASSUME NEW t \in Seq(Cells), NEW i \in 1..Len(t)
  PROVE  /\ Step(t, i) \in 1..(Len(t) - i + 1)
         /\ SubSeq(t, i, i + Step(t, i) - 1) \in Seq(Cells)
         /\ Len(SubSeq(t, i, i + Step(t, i) - 1)) = Step(t, i)
         /\ \A j \in 1..(Step(t, i) - 1) : SubSeq(t, i, i + Step(t, i) - 1)[j] # Term
         /\ \/ Step(t, i) = Len(t) - i + 1
            \/ SubSeq(t, i, i + Step(t, i) - 1)[Step(t, i)] = Term
<1> DEFINE u == SubSeq(t, i, Len(t))
<1>1. PICK l \in Nat : l = Len(t)
  BY LenProperties
<1>2. PICK r \in Nat : r = l - i + 1 /\ r > 0
  <2>1. l - i + 1 \in Nat /\ l - i + 1 > 0
    BY <1>1
  <2> QED
    BY <2>1
<1>3. u \in Seq(Cells) /\ Len(u) = r /\ \A m \in 1..r : u[m] = t[i + m - 1]
  <2>1. i \in 1..(Len(t) + 1) /\ Len(t) \in (i - 1)..Len(t)
    BY <1>1
  <2>2. Len(t) - i + 1 = r
    BY <1>1, <1>2
  <2> QED
    BY <2>1, <2>2, Parts
<1>4. PICK n \in 0..r : /\ n = Step(t, i)
                        /\ \A j \in 1..(n - 1) : u[j] # Term
                        /\ n = r \/ (n > 0 /\ u[n] = Term)
  <2>1. Step(t, i) = LineLength(u)
    BY DEF Step
  <2> HIDE DEF u
  <2> QED
    BY <1>3, <2>1, LineLengthIs
<1> HIDE DEF u
<1>5. n \in 1..r
  BY <1>2, <1>4
<1> DEFINE v == SubSeq(t, i, i + n - 1)
<1>6. v \in Seq(Cells) /\ Len(v) = n /\ \A m \in 1..n : v[m] = t[i + m - 1]
  <2>1. i \in 1..(Len(t) + 1) /\ i + n - 1 \in (i - 1)..Len(t) /\ (i + n - 1) - i + 1 = n
    BY <1>1, <1>2, <1>5
  <2> QED
    BY <2>1, Parts
<1> HIDE DEF v
<1>7. \A m \in 1..n : v[m] = u[m]
  BY <1>3, <1>5, <1>6
<1>8. \A j \in 1..(n - 1) : v[j] # Term
  BY <1>4, <1>5, <1>7
<1>9. n = r \/ v[n] = Term
  BY <1>4, <1>5, <1>7
<1> QED
  BY <1>1, <1>2, <1>4, <1>5, <1>6, <1>8, <1>9 DEF v

\* f cuts what is left of t from i on, for each i from a on.
Cuts(f, t, a) ==
  f = [i \in a..(Len(t) + 1) |->
         IF i > Len(t) THEN <<>>
         ELSE <<SubSeq(t, i, i + Step(t, i) - 1)>> \o f[i + Step(t, i)]]

LEMMA CutsExist ==
  ASSUME NEW t \in Seq(Cells)
  PROVE  \E f : Cuts(f, t, 1)
<1>1. PICK l \in Nat : l = Len(t)
  BY LenProperties
<1> DEFINE T == {m \in 0..l : ~ \E f : Cuts(f, t, l + 1 - m)}
<1>2. T = {}
  <2>1. SUFFICES ASSUME T # {}
                 PROVE  FALSE
    OBVIOUS
  <2>2. PICK m \in T : \A k \in T : m <= k
    <3>1. T \in SUBSET Nat
      OBVIOUS
    <3> HIDE DEF T
    <3> QED
      BY <2>1, <3>1, Least
  <2>3. m \in 0..l /\ ~ \E f : Cuts(f, t, l + 1 - m)
    OBVIOUS
  <2>4. CASE m = 0
    <3> DEFINE e == [i \in (l + 1)..(l + 1) |-> <<>>]
    <3>1. e = [i \in (l + 1)..(l + 1) |->
                 IF i > l THEN <<>>
                 ELSE <<SubSeq(t, i, i + Step(t, i) - 1)>> \o e[i + Step(t, i)]]
      OBVIOUS
    <3>2. l + 1 - m = l + 1
      BY <2>4
    <3> HIDE DEF e
    <3>3. Cuts(e, t, l + 1)
      BY <1>1, <3>1 DEF Cuts
    <3> QED
      BY <2>3, <3>2, <3>3
  <2>5. CASE m # 0
    <3>1. m - 1 \in 0..l /\ ~(m <= m - 1)
      BY <2>3, <2>5
    <3>2. m - 1 \notin T
      BY <2>2, <3>1, Zenon
    <3>3. PICK a \in 1..l : a = l + 1 - m /\ a + 1 = l + 1 - (m - 1)
      <4>1. l + 1 - m \in 1..l /\ (l + 1 - m) + 1 = l + 1 - (m - 1)
        BY <2>3, <2>5
      <4> QED
        BY <4>1
    <3>4. PICK f : Cuts(f, t, a + 1)
      BY <3>1, <3>2, <3>3
    <3> DEFINE piece(i) == <<SubSeq(t, i, i + Step(t, i) - 1)>>
               h == [i \in a..(l + 1) |-> IF i = a THEN piece(a) \o f[a + Step(t, a)]
                                          ELSE f[i]]
    <3>5. \A i \in 1..l : Step(t, i) \in 1..(l - i + 1)
      BY <1>1, StepIs
    <3>6. \A i \in (a + 1)..(l + 1) :
            f[i] = IF i > l THEN <<>> ELSE piece(i) \o f[i + Step(t, i)]
      BY <1>1, <3>4 DEF Cuts
    <3> HIDE DEF piece
    <3>7. ASSUME NEW i \in a..(l + 1)
          PROVE  h[i] = IF i > l THEN <<>> ELSE piece(i) \o h[i + Step(t, i)]
      <4>1. CASE i > l
        <5>1. i \in (a + 1)..(l + 1) /\ i # a
          BY <3>3, <4>1
        <5> QED
          BY <3>6, <4>1, <5>1
      <4>2. CASE ~(i > l)
        <5>1. i \in 1..l
          BY <3>3, <4>2
        <5>2. PICK j \in (a + 1)..(l + 1) : j = i + Step(t, i) /\ j # a
          <6>1. PICK n \in 1..(l - i + 1) : n = Step(t, i)
            BY <3>5, <5>1
          <6>2. i + n \in (a + 1)..(l + 1) /\ i + n # a
            BY <3>3, <5>1
          <6> QED
            BY <6>1, <6>2
        <5>3. h[j] = f[j]
          BY <5>2
        <5>4. CASE i = a
          <6>1. h[a] = piece(a) \o f[a + Step(t, a)]
            <7>1. a \in a..(l + 1)
              BY <3>3
            <7> HIDE <3>3
            <7> QED
              BY <7>1, Zenon
          <6> QED
            BY <4>2, <5>2, <5>3, <5>4, <6>1
        <5>5. CASE i # a
          <6>1. i \in (a + 1)..(l + 1) /\ h[i] = f[i]
            BY <3>3, <5>5
          <6>2. f[i] = piece(i) \o f[j]
            BY <3>6, <4>2, <5>2, <6>1
          <6> QED
            BY <4>2, <5>2, <5>3, <6>1, <6>2
        <5> QED
          BY <5>4, <5>5
      <4> QED
        BY <4>1, <4>2
    <3>8. DOMAIN h = a..(l + 1) /\ h = [i \in DOMAIN h |-> h[i]]
      OBVIOUS
    <3> HIDE DEF h
    <3>9. h = [i \in a..(l + 1) |-> IF i > l THEN <<>> ELSE piece(i) \o h[i + Step(t, i)]]
      BY <3>7, <3>8
    <3>10. Cuts(h, t, a)
      BY <1>1, <3>9 DEF Cuts, piece
    <3> QED
      BY <2>3, <3>3, <3>10
  <2> QED
    BY <2>4, <2>5
<1>3. l \in 0..l /\ l + 1 - l = 1
  OBVIOUS
<1>4. \E f : Cuts(f, t, l + 1 - l)
  BY <1>2, <1>3
<1> QED
  BY <1>3, <1>4

LEMMA PiecesAreCuts ==
  ASSUME NEW t \in Seq(Cells)
  PROVE  \E f : Cuts(f, t, 1) /\ Pieces(t) = f[1]
<1> DEFINE f == CHOOSE g : Cuts(g, t, 1)
<1>1. Cuts(f, t, 1)
  BY CutsExist, Zenon
<1>2. Pieces(t) = f[1]
  BY Zenon DEF Pieces, Cuts, Step
<1> QED
  BY <1>1, <1>2, Zenon

\* A piece: a line with its terminator, or what stands behind the last one.
Piece(p, last) ==
  /\ p \in Seq(Cells) /\ p # <<>>
  /\ ~last => p[Len(p)] = Term
  /\ \A j \in 1..(Len(p) - 1) : p[j] # Term

LEMMA PiecesAreMeant ==
  ASSUME NEW t \in Seq(Cells)
  PROVE  Api!InPieces(Pieces(t), t)
<1>1. PICK l \in Nat : l = Len(t)
  BY LenProperties
<1>2. PICK f : Cuts(f, t, 1) /\ Pieces(t) = f[1]
  BY PiecesAreCuts
<1> DEFINE Done(i) ==
             /\ f[i] \in Seq(Seq(Cells))
             /\ Api!FlattenSeq(f[i]) = SubSeq(t, i, l)
             /\ i > l => f[i] = <<>>
             /\ \A k \in 1..Len(f[i]) : Piece(f[i][k], k = Len(f[i]))
           T == {m \in 0..l : ~Done(l + 1 - m)}
<1>3. f[l + 1] = <<>>
  BY <1>1, <1>2 DEF Cuts
<1>4. ASSUME NEW i \in 1..l
      PROVE  f[i] = <<SubSeq(t, i, i + Step(t, i) - 1)>> \o f[i + Step(t, i)]
  <2>1. i \in 1..(Len(t) + 1) /\ ~(i > Len(t))
    BY <1>1
  <2>2. f[i] = IF i > Len(t) THEN <<>>
               ELSE <<SubSeq(t, i, i + Step(t, i) - 1)>> \o f[i + Step(t, i)]
    BY <1>2, <2>1, Zenon DEF Cuts
  <2> QED
    BY <2>1, <2>2, Zenon
<1>5. Done(l + 1)
  <2>1. <<>> \in Seq(Seq(Cells)) /\ Len(<<>>) = 0
    OBVIOUS
  <2>2. Api!FlattenSeq(<<>>) = <<>>
    BY DEF Api!FlattenSeq
  <2>3. SubSeq(t, l + 1, l) = <<>>
    BY SubSeqEmpty
  <2>4. \A k \in 1..Len(f[l + 1]) : Piece(f[l + 1][k], k = Len(f[l + 1]))
    BY <1>3, <2>1
  <2> QED
    BY <1>3, <2>1, <2>2, <2>3, <2>4
<1>6. ASSUME NEW i \in 1..l, NEW j \in (i + 1)..(l + 1), j = i + Step(t, i), Done(j)
      PROVE  Done(i)
  <2> DEFINE p == SubSeq(t, i, j - 1)
  <2>1. PICK n \in Nat : n = Step(t, i) /\ n > 0 /\ j = i + n /\ n <= l - i + 1
    <3>1. PICK n \in 1..(l - i + 1) : n = Step(t, i)
      BY <1>1, StepIs
    <3> QED
      BY <1>6, <3>1
  <2> HIDE DEF Done
  <2>0. p = SubSeq(t, i, i + Step(t, i) - 1)
    <3>1. n = Step(t, i) /\ j - 1 = i + n - 1
      BY <2>1
    <3> QED
      BY <3>1, Zenon
  <2> HIDE DEF p
  <2>2. /\ p \in Seq(Cells) /\ Len(p) = n
        /\ \A k \in 1..(n - 1) : p[k] # Term
        /\ n = l - i + 1 \/ p[n] = Term
    <3>1. i \in 1..Len(t)
      BY <1>1
    <3>2. /\ p \in Seq(Cells) /\ Len(p) = Step(t, i)
          /\ \A k \in 1..(Step(t, i) - 1) : p[k] # Term
          /\ Step(t, i) = Len(t) - i + 1 \/ p[Step(t, i)] = Term
      BY <2>0, <3>1, StepIs
    <3> QED
      BY <1>1, <2>1, <3>2
  <2>3. f[i] = <<p>> \o f[j]
    BY <1>4, <1>6, <2>0
  <2>4. p \o SubSeq(t, j, l) = SubSeq(t, i, l)
    <3>1. i \in 1..(Len(t) + 1) /\ j - 1 \in (i - 1)..Len(t) /\ l \in (j - 1)..Len(t)
          /\ (j - 1) + 1 = j
      BY <1>1
    <3>2. SubSeq(t, i, j - 1) \o SubSeq(t, (j - 1) + 1, l) = SubSeq(t, i, l)
      BY <3>1, ConcatAdjacentSubSeq
    <3> QED
      BY <3>1, <3>2 DEF p
  <2>5. f[j] \in Seq(Seq(Cells)) /\ Api!FlattenSeq(f[j]) = SubSeq(t, j, l)
    BY <1>6 DEF Done
  <2>6. Api!FlattenSeq(f[i]) = SubSeq(t, i, l)
    BY <2>2, <2>3, <2>4, <2>5, FlattenCons
  <2>7. PICK m \in Nat : m = Len(f[j])
    BY <2>5, LenProperties
  <2>8. /\ f[i] \in Seq(Seq(Cells)) /\ Len(f[i]) = m + 1 /\ f[i][1] = p
        /\ \A k \in 1..m : f[i][k + 1] = f[j][k]
    <3>1. <<p>> \in Seq(Seq(Cells)) /\ Len(<<p>>) = 1 /\ <<p>>[1] = p
      BY <2>2
    <3>2. /\ f[i] \in Seq(Seq(Cells)) /\ Len(f[i]) = Len(<<p>>) + Len(f[j])
          /\ \A k \in 1..Len(<<p>>) + Len(f[j]) :
               f[i][k] = IF k <= Len(<<p>>) THEN <<p>>[k] ELSE f[j][k - Len(<<p>>)]
      BY <2>3, <2>5, <3>1, ConcatProperties
    <3>3. \A k \in 1..(1 + m) : f[i][k] = IF k <= 1 THEN <<p>>[k] ELSE f[j][k - 1]
      BY <2>7, <3>1, <3>2
    <3>4. f[i][1] = p
      BY <3>1, <3>3
    <3>5. \A k \in 1..m : k + 1 \in 1..(1 + m) /\ ~(k + 1 <= 1) /\ (k + 1) - 1 = k
      OBVIOUS
    <3>6. \A k \in 1..m : f[i][k + 1] = f[j][k]
      BY <3>3, <3>5
    <3>7. Len(f[i]) = m + 1
      BY <2>7, <3>1, <3>2
    <3> QED
      BY <3>2, <3>4, <3>6, <3>7
  <2>9. ASSUME NEW k \in 1..(m + 1)
        PROVE  Piece(f[i][k], k = m + 1)
    <3>1. CASE k = 1
      <4>1. p # <<>>
        BY <2>1, <2>2, EmptySeq
      <4>2. ASSUME m # 0
            PROVE  p[n] = Term
        <5>1. ~(j > l)
          BY <1>6, <2>7, <4>2, EmptySeq DEF Done
        <5>2. n # l - i + 1
          BY <2>1, <5>1
        <5> QED
          BY <2>2, <5>2
      <4>3. Piece(p, m = 0)
        BY <2>2, <4>1, <4>2 DEF Piece
      <4>4. (1 = m + 1) = (m = 0)
        OBVIOUS
      <4> QED
        BY <2>8, <3>1, <4>3, <4>4
    <3>2. CASE k # 1
      <4>1. PICK k1 \in 1..m : k = k1 + 1
        <5>1. k - 1 \in 1..m /\ k = (k - 1) + 1
          BY <3>2
        <5> QED
          BY <5>1
      <4>2. Piece(f[j][k1], k1 = m)
        BY <1>6, <2>7 DEF Done
      <4>3. (k = m + 1) = (k1 = m)
        BY <4>1
      <4> QED
        BY <2>8, <4>1, <4>2, <4>3
    <3> QED
      BY <3>1, <3>2
  <2>10. ~(i > l)
    OBVIOUS
  <2> QED
    BY <2>6, <2>8, <2>9, <2>10 DEF Done
<1> HIDE DEF Done
<1>7. T = {}
  <2>1. SUFFICES ASSUME T # {}
                 PROVE  FALSE
    OBVIOUS
  <2>2. PICK m \in T : \A k \in T : m <= k
    <3>1. T \in SUBSET Nat
      OBVIOUS
    <3> HIDE DEF T
    <3> QED
      BY <2>1, <3>1, Least
  <2>3. m \in 0..l /\ ~Done(l + 1 - m)
    OBVIOUS
  <2>4. CASE m = 0
    <3>1. l + 1 - m = l + 1
      BY <2>4
    <3> QED
      BY <1>5, <2>3, <3>1
  <2>5. CASE m # 0
    <3>1. PICK i \in 1..l : i = l + 1 - m
      BY <2>3, <2>5
    <3>2. PICK n \in 1..(l - i + 1) : n = Step(t, i)
      BY <1>1, StepIs
    <3>3. i + n \in (i + 1)..(l + 1) /\ m - n \in 0..l /\ ~(m <= m - n)
          /\ l + 1 - (m - n) = i + n
      BY <2>3, <3>1
    <3>4. m - n \notin T
      BY <2>2, <3>3, Zenon
    <3>5. Done(i + n)
      BY <3>3, <3>4
    <3>6. Done(i)
      BY <1>6, <3>2, <3>3, <3>5
    <3> QED
      BY <2>3, <3>1, <3>6
  <2> QED
    BY <2>4, <2>5
<1>8. Done(1)
  <2>1. l \in 0..l /\ l + 1 - l = 1
    OBVIOUS
  <2>2. Done(l + 1 - l)
    BY <1>7, <2>1
  <2> QED
    BY <2>1, <2>2
<1> DEFINE ps == Pieces(t)
<1>9. /\ ps \in Seq(Seq(Cells)) /\ Api!FlattenSeq(ps) = SubSeq(t, 1, l)
      /\ \A k \in 1..Len(ps) : Piece(ps[k], k = Len(ps))
  BY <1>2, <1>8 DEF Done
<1> HIDE DEF ps
<1>10. DOMAIN ps = 1..Len(ps) /\ Len(ps) \in Nat
  BY <1>9, LenProperties
<1>11. Api!FlattenSeq(ps) = t
  BY <1>1, <1>9, SubSeqFull
<1>12. ASSUME NEW k \in DOMAIN ps
       PROVE  /\ ps[k] # <<>>
              /\ k < Len(ps) => Api!Last(ps[k]) = Term
              /\ \A j \in 1..(Len(ps[k]) - 1) : ps[k][j] # Term
  <2>1. Piece(ps[k], k = Len(ps))
    BY <1>9, <1>10
  <2>2. k < Len(ps) => k # Len(ps)
    BY <1>10
  <2> QED
    BY <2>1, <2>2 DEF Piece, Api!Last
<1> QED
  BY <1>11, <1>12 DEF Api!InPieces, ps

-----------------------------------------------------------------------------
(***************************************************************************)
(* The inductive invariant: a buffer, and what a read under way has added  *)
(* to it stands behind the text there was before.                          *)
(***************************************************************************)
ReadingSound ==
  /\ reading \in [on : BOOLEAN, oldlen : Nat, fresh : BOOLEAN, got : Seq(Bytes)]
  /\ reading.on =>
       /\ Avail(sb) > 0
       /\ reading.oldlen <= sb.len
       /\ reading.fresh => reading.oldlen = 0
       /\ reading.got = SubSeq(Text(sb), reading.oldlen + 1, sb.len)
StrbufInv == Buffer(sb) /\ ReadingSound

TerminatorKept ==
  Terminated /\ ~Terminated' =>
    /\ sb.alloc = 0 /\ sb'.len = 0
    /\ call'.op \in {"feof", "add"} /\ call'.data = <<>>

\* What a call that is not part of a read does.
Returns ==
  /\ ~reading.on /\ reading' = reading
  /\ Buffer(sb')
  /\ Api!Meant(call', Text(sb), Text(sb'))
  /\ TerminatorKept

LEMMA ReturnsClosed ==
  ASSUME ~reading.on, NEW r, NEW t, NEW c, Return(r, c), Closed(r, t),
         Api!Meant(c, Text(sb), t)
  PROVE  Returns
<1>1. sb' = r /\ call' = c /\ reading' = reading
  BY DEF Return
<1>2. Buffer(r) /\ Text(r) = t /\ r.buf[r.len] = Nul
  BY DEF Closed
<1>3. Buffer(sb') /\ Text(sb') = t /\ sb'.buf[sb'.len] = Nul
  BY <1>1, <1>2, Zenon DEF Text
<1>4. Terminated'
  BY <1>3 DEF Terminated
<1>5. Api!Meant(call', Text(sb), Text(sb'))
  BY <1>1, <1>3, Zenon
<1> QED
  BY <1>1, <1>3, <1>4, <1>5 DEF Returns, TerminatorKept

LEMMA DataAreCells ==
  ASSUME NEW d \in Data
  PROVE  d \in Seq(Bytes) /\ d \in Seq(Cells) /\ Len(d) \in Nat
<1>1. d \in Seq(Bytes)
  OBVIOUS
<1> QED
  BY <1>1, BytesAreCells, LenProperties

LEMMA EmptyText ==
  ASSUME NEW s, Buffer(s), s.len = 0
  PROVE  Text(s) = <<>>
BY TextIs, EmptySeq

LEMMA FreshCloses == Closed(Fresh, <<>>)
<1>1. Buffer(Fresh) /\ Fresh.len = 0 /\ Fresh.buf[0] = Nul
  BY FreshBuffer
<1> QED
  BY <1>1, EmptyText DEF Closed

LEMMA InitReturns ==
  ASSUME StrbufInv, NEW n \in 0..(SizeMod - 1), Init_(n)
  PROVE  Returns
<1> DEFINE r == IF n = 0 THEN Fresh ELSE SetLen(Grow(Fresh, n), 0)
           c == Call("init", 0, n, <<>>, 0)
<1>1. ~reading.on /\ Return(r, c)
  BY DEF Init_, Idle
<1>2. Closed(r, <<>>)
  <2>1. CASE n = 0
    BY <2>1, FreshCloses
  <2>2. CASE n # 0
    <3> DEFINE g == Grow(Fresh, n)
    <3>1. n \in Nat
      OBVIOUS
    <3>2. Buffer(g) /\ g.len \in Nat
      BY <3>1, FreshBuffer, GrowKeeps, Sizes
    <3> HIDE DEF g
    <3>3. PICK z \in Nat : z = 0 /\ z <= g.len
      BY <3>2
    <3>4. Closed(SetLen(g, z), SubSeq(Text(g), 1, z))
      BY <3>2, <3>3, SetLenShortens
    <3>5. SubSeq(Text(g), 1, z) = <<>>
      BY <3>3, SubSeqEmpty
    <3> QED
      BY <2>2, <3>3, <3>4, <3>5 DEF g
  <2> QED
    BY <2>1, <2>2
<1>3. Api!Meant(c, Text(sb), <<>>)
  BY DEF Api!Meant, Call
<1> QED
  BY <1>1, <1>2, <1>3, ReturnsClosed

LEMMA ReleaseReturns ==
  ASSUME StrbufInv, Release
  PROVE  Returns
<1> DEFINE c == Call("release", 0, 0, <<>>, 0)
<1>1. ~reading.on /\ Return(Fresh, c)
  BY DEF Release, Idle
<1>2. Api!Meant(c, Text(sb), <<>>)
  BY DEF Api!Meant, Call
<1> QED
  BY <1>1, <1>2, FreshCloses, ReturnsClosed

LEMMA DetachReturns ==
  ASSUME StrbufInv, Detach
  PROVE  Returns
<1> DEFINE d == IF sb.alloc = 0 THEN <<>> ELSE Text(sb)
           c == Call("detach", 0, sb.len, d, sb.len)
<1>1. ~reading.on /\ Return(Fresh, c)
  BY DEF Detach, Idle
<1>2. d = Text(sb)
  BY Sizes, EmptyText DEF StrbufInv
<1> HIDE DEF d
<1>3. Api!Meant(c, Text(sb), <<>>)
  BY <1>2 DEF Api!Meant, Call
<1> QED
  BY <1>1, <1>3, FreshCloses, ReturnsClosed

LEMMA ShortenReturns ==
  ASSUME StrbufInv, NEW n \in 0..MaxLen, Shorten(n)
  PROVE  Returns
<1> DEFINE c == Call("setlen", 0, n, <<>>, 0)
<1>1. ~reading.on /\ n <= sb.len /\ Return(SetLen(sb, n), c)
  BY DEF Shorten, Idle
<1>2. Closed(SetLen(sb, n), SubSeq(Text(sb), 1, n))
  BY <1>1, SetLenShortens DEF StrbufInv
<1>3. Api!Meant(c, Text(sb), SubSeq(Text(sb), 1, n))
  BY DEF Api!Meant, Call
<1> QED
  BY <1>1, <1>2, <1>3, ReturnsClosed

LEMMA TrimsReturn ==
  ASSUME StrbufInv, Trim \/ Rtrim \/ Ltrim
  PROVE  Returns
<1>1. CASE Trim
  <2> DEFINE r == Ltrimmed(Rtrimmed(sb))
             c == Call("trim", 0, 0, <<>>, 0)
  <2>1. ~reading.on /\ Return(r, c)
    BY <1>1 DEF Trim, Idle
  <2>2. Closed(r, Text(r)) /\ Api!TrimmedText(Text(r), Text(sb), TRUE, TRUE)
    BY TrimsAreMeant DEF StrbufInv
  <2>3. Api!Meant(c, Text(sb), Text(r))
    BY <2>2 DEF Api!Meant, Call
  <2> QED
    BY <2>1, <2>2, <2>3, ReturnsClosed
<1>2. CASE Rtrim
  <2> DEFINE r == Rtrimmed(sb)
             c == Call("rtrim", 0, 0, <<>>, 0)
  <2>1. ~reading.on /\ Return(r, c)
    BY <1>2 DEF Rtrim, Idle
  <2>2. Closed(r, Text(r)) /\ Api!TrimmedText(Text(r), Text(sb), FALSE, TRUE)
    BY TrimsAreMeant DEF StrbufInv
  <2>3. Api!Meant(c, Text(sb), Text(r))
    BY <2>2 DEF Api!Meant, Call
  <2> QED
    BY <2>1, <2>2, <2>3, ReturnsClosed
<1>3. CASE Ltrim
  <2> DEFINE r == Ltrimmed(sb)
             c == Call("ltrim", 0, 0, <<>>, 0)
  <2>1. ~reading.on /\ Return(r, c)
    BY <1>3 DEF Ltrim, Idle
  <2>2. Closed(r, Text(r)) /\ Api!TrimmedText(Text(r), Text(sb), TRUE, FALSE)
    BY TrimsAreMeant DEF StrbufInv
  <2>3. Api!Meant(c, Text(sb), Text(r))
    BY <2>2 DEF Api!Meant, Call
  <2> QED
    BY <2>1, <2>2, <2>3, ReturnsClosed
<1> QED
  BY <1>1, <1>2, <1>3

LEMMA SpliceReturns ==
  ASSUME StrbufInv, NEW pos \in 0..MaxLen, NEW n \in 0..MaxLen, NEW d \in Data,
         Splice(pos, n, d)
  PROVE  Returns
<1> DEFINE r == Spliced(sb, pos, n, d)
           c == Call("splice", pos, n, d, 0)
           t == SubSeq(Text(sb), 1, pos) \o d \o SubSeq(Text(sb), pos + n + 1, sb.len)
<1>1. ~reading.on /\ pos + n <= sb.len /\ Return(r, c)
  BY DEF Splice, Idle
<1>2. Closed(r, t)
  <2>1. pos \in Nat /\ n \in Nat
    OBVIOUS
  <2> QED
    BY <1>1, <2>1, DataAreCells, SplicedText DEF StrbufInv
<1>3. Len(Text(sb)) = sb.len
  BY TextIs DEF StrbufInv
<1>4. Api!Meant(c, Text(sb), t)
  BY <1>3 DEF Api!Meant, Call
<1> HIDE DEF r, c, t
<1> QED
  BY <1>1, <1>2, <1>4, ReturnsClosed

LEMMA AddMeans ==
  ASSUME NEW n, NEW d, NEW ret, NEW old
  PROVE  Api!Meant(Call("add", 0, n, d, ret), old, old \o d)
BY DEF Api!Meant, Call

LEMMA AddReturns ==
  ASSUME StrbufInv, NEW d \in Data, Add(d) \/ Addf(d)
  PROVE  Returns
<1> DEFINE c == Call("add", 0, 0, d, 0)
<1>1. ~reading.on /\ (Return(AddTo(sb, d), c) \/ Return(FormatTo(sb, d), c))
  BY DEF Add, Addf, Idle
<1>2. Closed(AddTo(sb, d), Text(sb) \o d) /\ Closed(FormatTo(sb, d), Text(sb) \o d)
  BY DataAreCells, AddToAdds, FormatToAdds DEF StrbufInv
<1>3. Api!Meant(c, Text(sb), Text(sb) \o d)
  BY AddMeans
<1> QED
  BY <1>1, <1>2, <1>3, ReturnsClosed

LEMMA AdddupReturns ==
  ASSUME StrbufInv, NEW pos \in 0..MaxLen, NEW n \in 0..MaxLen, Adddup(pos, n)
  PROVE  Returns
<1> DEFINE d == SubSeq(Text(sb), pos + 1, pos + n)
           c == Call("adddup", pos, n, <<>>, 0)
<1>1. ~reading.on /\ pos + n <= sb.len /\ Return(AddTo(sb, d), c)
  BY DEF Adddup, Idle
<1>2. d \in Seq(Cells)
  <2>1. Text(sb) \in Seq(Cells) /\ Len(Text(sb)) = sb.len /\ sb.len \in Nat
    BY TextIs, Sizes DEF StrbufInv
  <2>2. pos + 1 \in 1..(Len(Text(sb)) + 1) /\ pos + n \in ((pos + 1) - 1)..Len(Text(sb))
    BY <1>1, <2>1
  <2> QED
    BY <2>1, <2>2, Parts
<1>3. Api!Meant(c, Text(sb), Text(sb) \o d)
  BY DEF Api!Meant, Call
<1> HIDE DEF d
<1>4. Closed(AddTo(sb, d), Text(sb) \o d)
  BY <1>2, AddToAdds DEF StrbufInv
<1> QED
  BY <1>1, <1>3, <1>4, ReturnsClosed

LEMMA SplitReturns ==
  ASSUME StrbufInv, Split
  PROVE  Returns
<1>1. /\ ~reading.on /\ reading' = reading /\ sb' = sb
      /\ call' = Call("split", 0, 0, Pieces(Text(sb)), 0)
  BY DEF Split, Idle, Return
<1>2. Api!InPieces(Pieces(Text(sb)), Text(sb))
  BY TextIs, PiecesAreMeant DEF StrbufInv
<1>3. Api!Meant(call', Text(sb), Text(sb))
  BY <1>1, <1>2 DEF Api!Meant, Call
<1>4. Terminated' = Terminated
  BY <1>1 DEF Terminated
<1> QED
  BY <1>1, <1>3, <1>4 DEF Returns, TerminatorKept, StrbufInv

LEMMA DieReturns ==
  ASSUME StrbufInv, Die
  PROVE  Returns
<1>1. /\ ~reading.on /\ reading' = reading /\ sb' = sb
      /\ call' = Call("die", 0, 0, <<>>, 0)
  BY DEF Die, Idle
<1>2. Api!Meant(call', Text(sb), Text(sb))
  BY <1>1 DEF Api!Meant, Call
<1>3. Terminated' = Terminated
  BY <1>1 DEF Terminated
<1> QED
  BY <1>1, <1>2, <1>3 DEF Returns, TerminatorKept, StrbufInv

\* A block that grew keeps the terminator it had.
LEMMA GrowKeepsTerminator ==
  ASSUME NEW s, Buffer(s), s.alloc # 0, NEW extra \in Nat
  PROVE  Grow(s, extra).buf[Grow(s, extra).len] = s.buf[s.len]
<1>1. /\ Grow(s, extra).len = s.len
      /\ \A i \in 0..(s.alloc - 1) : Grow(s, extra).buf[i] = s.buf[i]
  BY GrowBuffer
<1>2. s.len \in 0..(s.alloc - 1)
  BY Sizes
<1> QED
  BY <1>1, <1>2

\* A buffer that grows and gets no text.
LEMMA GrowReturns ==
  ASSUME StrbufInv, ~reading.on, NEW extra \in Nat, NEW c, Return(Grow(sb, extra), c),
         Api!Meant(c, Text(sb), Text(sb)),
         sb.alloc = 0 => c.op \in {"feof", "add"} /\ c.data = <<>>
  PROVE  Returns
<1> DEFINE g == Grow(sb, extra)
<1>1. Buffer(g) /\ g.len = sb.len /\ Text(g) = Text(sb)
  BY GrowKeeps DEF StrbufInv
<1>2. sb.alloc = 0 => sb.len = 0
  BY Sizes DEF StrbufInv
<1>3. sb.alloc # 0 => g.buf[g.len] = sb.buf[sb.len]
  BY GrowKeepsTerminator DEF StrbufInv
<1>4. sb' = g /\ call' = c /\ reading' = reading
  BY DEF Return
<1> HIDE DEF g
<1>5. Buffer(sb') /\ sb'.len = sb.len /\ Text(sb') = Text(sb)
  BY <1>1, <1>4, Zenon DEF Text
<1>6. Api!Meant(call', Text(sb), Text(sb'))
  BY <1>4, <1>5, Zenon
<1>7. sb.alloc # 0 => sb'.buf[sb'.len] = sb.buf[sb.len]
  BY <1>3, <1>4, Zenon
<1>8. TerminatorKept
  <2>1. CASE sb.alloc = 0
    BY <1>2, <1>4, <1>5, <2>1 DEF TerminatorKept
  <2>2. CASE sb.alloc # 0
    BY <1>7, <2>2 DEF TerminatorKept, Terminated
  <2> QED
    BY <2>1, <2>2
<1> QED
  BY <1>4, <1>5, <1>6, <1>8 DEF Returns

LEMMA AttachReturns ==
  ASSUME StrbufInv, NEW d \in Data, NEW a \in 0..MaxLen, Attach(d, a)
  PROVE  Returns
<1> DEFINE cells == [i \in 0..(IF a = 0 THEN 0 ELSE a - 1) |->
                       IF i < Len(d) THEN d[i + 1] ELSE Junk]
           block == [alloc |-> a, len |-> Len(d), buf |-> cells]
           g == Grow(block, 0)
           c == Call("attach", 0, a, d, 0)
<1>1. ~reading.on /\ a >= Len(d) /\ Return(SetLen(g, Len(d)), c)
  BY DEF Attach, Idle
<1>2. d \in Seq(Cells) /\ Len(d) \in Nat
  BY DataAreCells
<1>3. PICK n \in Nat : n = Len(d)
  BY <1>2
<1>4. \A i \in 0..(n - 1) : i + 1 \in 1..Len(d)
  BY <1>3
<1>5. \A i \in 0..(n - 1) : d[i + 1] \in Cells
  BY <1>2, <1>4, ElementOfSeq
<1>6. PICK m \in Nat : m = IF a = 0 THEN 0 ELSE a - 1
  OBVIOUS
<1>7. cells \in [0..m -> Cells]
  <2>1. \A i \in 0..m : (IF i < n THEN d[i + 1] ELSE Junk) \in Cells
    <3>1. Junk \in Cells
      BY DEF Cells
    <3>2. \A i \in 0..m : i < n => i \in 0..(n - 1)
      OBVIOUS
    <3> QED
      BY <1>5, <3>1, <3>2
  <2> QED
    BY <1>3, <1>6, <2>1
<1>8. \A i \in 0..(n - 1) : cells[i] = d[i + 1]
  <2>1. \A i \in 0..(n - 1) : i \in 0..m /\ i < n
    BY <1>1, <1>3, <1>6
  <2> QED
    BY <1>3, <1>6, <2>1
<1> HIDE DEF cells
<1>9. block.alloc = a /\ block.len = n /\ block.buf = cells
  BY <1>3
<1>10. Block(block)
  <2>1. Room(block) - 1 = m
    BY <1>6, <1>9 DEF Room
  <2>2. n <= a
    BY <1>1, <1>3
  <2> QED
    BY <1>3, <1>7, <1>9, <2>1, <2>2 DEF Block
<1>11. HoldsAt(block, 0, d)
  <2>1. 0 + n <= a
    BY <1>1, <1>3
  <2>2. \A i \in 0..(n - 1) : cells[0 + i] = d[i + 1]
    BY <1>8
  <2> QED
    BY <1>3, <1>9, <2>1, <2>2 DEF HoldsAt
<1> HIDE DEF block
<1>12. Buffer(g) /\ HoldsAt(g, 0, d) /\ g.alloc >= n + 0 + 1 /\ Room(g) = g.alloc
  <2>1. PICK z \in Nat : z = 0
    OBVIOUS
  <2>2. /\ Buffer(Grow(block, z)) /\ Grow(block, z).alloc >= block.len + z + 1
        /\ Room(Grow(block, z)) = Grow(block, z).alloc
    BY <1>10, GrowBlock
  <2>3. HoldsAt(Grow(block, z), z, d)
    BY <1>2, <1>10, <1>11, <2>1, GrowHolds
  <2> QED
    BY <1>9, <2>1, <2>2, <2>3
<1> HIDE DEF g
<1>13. Len(d) < Room(g)
  <2>1. g.alloc \in Nat
    BY <1>12, Sizes
  <2> QED
    BY <1>3, <1>12, <2>1
<1>14. Closed(SetLen(g, Len(d)), d)
  BY <1>2, <1>12, <1>13, SetLenCloses
<1>15. Api!Meant(c, Text(sb), d)
  BY DEF Api!Meant, Call
<1> QED
  BY <1>1, <1>14, <1>15, ReturnsClosed

LEMMA FreadReturns ==
  ASSUME StrbufInv, NEW d \in Data, NEW size \in 0..MaxLen, Fread(d, size)
  PROVE  Returns
<1> DEFINE got == SubSeq(d, 1, IF size < Len(d) THEN size ELSE Len(d))
           g == Grow(sb, size)
           c == Call("add", 0, size, got, Len(got))
<1>1. /\ ~reading.on
      /\ Return(IF got # <<>> THEN SetLen(Put(g, sb.len, got), sb.len + Len(got))
                ELSE IF sb.alloc = 0 THEN Fresh ELSE g, c)
  BY DEF Fread, Idle
<1>2. got \in Seq(Cells) /\ Len(got) \in Nat /\ Len(got) <= size
  <2>1. PICK n \in Nat : n = Len(d)
    BY DataAreCells
  <2>2. PICK m \in 0..n : m = (IF size < Len(d) THEN size ELSE Len(d)) /\ m <= size
    BY <2>1
  <2>3. 1 \in 1..(Len(d) + 1) /\ m \in (1 - 1)..Len(d) /\ m - 1 + 1 = m
    BY <2>1
  <2>4. SubSeq(d, 1, m) \in Seq(Cells) /\ Len(SubSeq(d, 1, m)) = m
    BY <2>3, DataAreCells, Parts
  <2> QED
    BY <2>2, <2>4
<1>3. /\ Buffer(g) /\ HoldsAt(g, 0, Text(sb)) /\ g.alloc \in Nat
      /\ g.alloc > sb.len + size /\ Room(g) = g.alloc
  BY GrowKeeps DEF StrbufInv
<1>4. Text(sb) \in Seq(Cells) /\ Len(Text(sb)) = sb.len /\ sb.len \in Nat
  BY TextIs, Sizes DEF StrbufInv
<1> HIDE DEF got
<1>5. Api!Meant(c, Text(sb), Text(sb) \o got)
  BY AddMeans
<1>6. CASE got # <<>>
  <2>1. Len(Text(sb)) + Len(got) < Room(g)
    BY <1>2, <1>3, <1>4
  <2>2. Closed(SetLen(Put(g, Len(Text(sb)), got), Len(Text(sb)) + Len(got)),
               Text(sb) \o got)
    BY <1>2, <1>3, <1>4, <2>1, PutBehind
  <2> HIDE DEF g, c
  <2>3. Return(SetLen(Put(g, sb.len, got), sb.len + Len(got)), c)
    BY <1>1, <1>6
  <2> QED
    BY <1>1, <1>4, <1>5, <2>2, <2>3, ReturnsClosed
<1>7. CASE got = <<>>
  <2>1. Text(sb) \o <<>> = Text(sb)
    BY <1>4, ConcatEmptySeq
  <2>2. Api!Meant(c, Text(sb), Text(sb))
    BY <1>5, <1>7, <2>1
  <2>3. CASE sb.alloc = 0
    <3>1. Text(sb) = <<>>
      BY <2>3, Sizes, EmptyText DEF StrbufInv
    <3>2. Return(Fresh, c)
      BY <1>1, <1>7, <2>3
    <3>3. Api!Meant(c, Text(sb), <<>>)
      BY <2>2, <3>1
    <3> QED
      BY <1>1, <3>2, <3>3, FreshCloses, ReturnsClosed
  <2>4. CASE sb.alloc # 0
    <3>1. Return(g, c)
      BY <1>1, <1>7, <2>4
    <3>2. size \in Nat
      OBVIOUS
    <3> QED
      BY <1>1, <2>2, <2>4, <3>1, <3>2, GrowReturns
  <2> QED
    BY <2>3, <2>4
<1> QED
  BY <1>6, <1>7

\* The line strbuf_getwholeline reads.
LEMMA LineIs ==
  ASSUME NEW d \in Seq(Cells)
  PROVE  LET t == SubSeq(d, 1, LineLength(d))
         IN  /\ t \in Seq(Cells) /\ Len(t) = LineLength(d)
             /\ Api!FirstLine(t, d)
             /\ d # <<>> => Len(t) > 0
             /\ \A i \in 1..(Len(t) - 1) : t[i] # Term
<1> DEFINE t == SubSeq(d, 1, LineLength(d))
<1>1. PICK n \in Nat : n = Len(d)
  BY LenProperties
<1>2. PICK k \in 0..n : /\ k = LineLength(d)
                        /\ \A i \in 1..(k - 1) : d[i] # Term
                        /\ k = n \/ (k > 0 /\ d[k] = Term)
  BY <1>1, LineLengthIs
<1>3. t \in Seq(Cells) /\ Len(t) = k /\ \A i \in 1..k : t[i] = d[i]
  <2>1. 1 \in 1..(Len(d) + 1) /\ k \in (1 - 1)..Len(d) /\ k - 1 + 1 = k
    BY <1>1
  <2>2. /\ t \in Seq(Cells) /\ Len(t) = k - 1 + 1
        /\ \A i \in 1..(k - 1 + 1) : t[i] = d[1 + i - 1]
    BY <1>2, <2>1, Parts
  <2> QED
    BY <2>1, <2>2
<1>4. \A i \in 1..(k - 1) : t[i] # Term
  BY <1>2, <1>3
<1>5. SubSeq(t, 1, Len(t)) = SubSeq(d, 1, Len(t)) /\ Len(t) <= Len(d)
  <2>1. SubSeq(t, 1, Len(t)) = t
    BY <1>3, SubSeqFull
  <2> QED
    BY <1>1, <1>2, <1>3, <2>1
<1>6. t = d \/ (t # <<>> /\ t[Len(t)] = Term)
  <2>1. CASE k = n
    BY <1>1, <1>2, <2>1, SubSeqFull
  <2>2. CASE k > 0 /\ d[k] = Term
    <3>1. t[k] = Term
      BY <1>3, <2>2
    <3> HIDE DEF t
    <3>2. t # <<>>
      <4>1. Len(<<>>) # k
        BY <2>2
      <4> QED
        BY <1>3, <4>1, Zenon
    <3> QED
      BY <1>3, <3>1, <3>2
  <2> QED
    BY <1>2, <2>1, <2>2
<1>7. d # <<>> => k > 0
  <2>1. d # <<>> => n > 0
    BY <1>1, EmptySeq
  <2> QED
    BY <1>2, <2>1
<1> HIDE DEF t
<1>8. Api!FirstLine(t, d)
  <2>1. Api!IsPrefix(t, d)
    BY <1>5 DEF Api!IsPrefix
  <2>2. \A i \in 1..(Len(t) - 1) : t[i] # Term
    BY <1>3, <1>4
  <2> QED
    BY <1>6, <2>1, <2>2 DEF Api!FirstLine, Api!Last
<1> QED
  BY <1>2, <1>3, <1>4, <1>7, <1>8 DEF t

LEMMA GetLineReturns ==
  ASSUME StrbufInv, NEW d \in Data, NEW feof \in BOOLEAN, NEW strip \in BOOLEAN,
         GetLine(d, feof, strip)
  PROVE  Returns
<1> DEFINE s == WholeLine(sb, d)
           t == SubSeq(d, 1, LineLength(d))
<1>1. ~reading.on /\ (feof => d = <<>>)
  BY DEF GetLine, Idle
<1>2. d \in Seq(Cells)
  BY DataAreCells
<1>3. Closed(s, t)
  BY <1>2, WholeLineText DEF StrbufInv
<1>4. /\ t \in Seq(Cells) /\ Api!FirstLine(t, d)
      /\ d # <<>> => Len(t) > 0
      /\ \A i \in 1..(Len(t) - 1) : t[i] # Term
  BY <1>2, LineIs
<1>5. CASE feof
  <2> DEFINE c == Call("feof", 0, 0, d, 0)
  <2>1. Return(Grow(sb, 0), c) /\ d = <<>>
    BY <1>1, <1>5 DEF GetLine
  <2>2. Api!Meant(c, Text(sb), Text(sb)) /\ c.op = "feof" /\ c.data = <<>>
    BY <2>1 DEF Api!Meant, Call
  <2>3. PICK z \in Nat : z = 0
    OBVIOUS
  <2>4. Return(Grow(sb, z), c)
    BY <2>1, <2>3
  <2> HIDE DEF c
  <2> QED
    BY <1>1, <2>2, <2>4, GrowReturns
<1>6. CASE ~feof /\ d = <<>>
  <2> DEFINE c == Call("eof", 0, 0, d, 0)
  <2>1. Return(s, c)
    BY <1>6 DEF GetLine
  <2>2. LineLength(d) = 0
    <3>1. Len(d) = 0
      BY <1>6, EmptySeq
    <3>2. LineLength(d) \in 0..0
      BY <1>2, <3>1, LineLengthIs
    <3> QED
      BY <3>2
  <2>3. t = <<>>
    BY <2>2, SubSeqEmpty
  <2>4. Api!Meant(c, Text(sb), <<>>)
    BY <1>6 DEF Api!Meant, Call
  <2> HIDE DEF s, t, c
  <2> QED
    BY <1>1, <1>3, <2>1, <2>3, <2>4, ReturnsClosed
<1>7. CASE ~feof /\ d # <<>>
  <2> DEFINE r == IF strip /\ s.buf[s.len - 1] = Term THEN SetLen(s, s.len - 1) ELSE s
             c == Call(IF strip THEN "getline" ELSE "getwholeline", 0, 0, d, 0)
  <2>1. Return(r, c)
    BY <1>7 DEF GetLine
  <2>2. PICK n \in Nat : n = Len(t) /\ n > 0 /\ s.len = n
    <3>1. Buffer(s) /\ Text(s) = t
      BY <1>3 DEF Closed
    <3>2. Len(t) = s.len /\ s.len \in Nat
      BY <3>1, TextIs, Sizes
    <3> QED
      BY <1>4, <1>7, <3>2
  <2> HIDE DEF s, t
  <2>3. s.buf[n - 1] = t[n]
    <3>1. n \in 1..s.len
      BY <2>2
    <3> QED
      BY <1>3, <3>1, TextIs DEF Closed
  <2>4. CASE ~strip
    <3>1. Api!Meant(c, Text(sb), t)
      BY <1>4, <2>4 DEF Api!Meant, Call
    <3>2. Return(s, c)
      BY <2>1, <2>4
    <3> QED
      BY <1>1, <1>3, <3>1, <3>2, ReturnsClosed
  <2>5. CASE strip /\ t[n] = Term
    <3> DEFINE u == SubSeq(t, 1, n - 1)
    <3>1. n - 1 \in Nat /\ n - 1 <= s.len
      BY <2>2
    <3>2. Closed(SetLen(s, n - 1), u)
      BY <1>3, <3>1, SetLenShortens DEF Closed
    <3>3. Return(SetLen(s, n - 1), c)
      BY <2>1, <2>2, <2>3, <2>5
    <3>4. u \in Seq(Cells) /\ Len(u) = n - 1 /\ \A i \in 1..(n - 1) : u[i] = t[i]
      <4>1. 1 \in 1..(Len(t) + 1) /\ n - 1 \in (1 - 1)..Len(t) /\ (n - 1) - 1 + 1 = n - 1
        BY <2>2
      <4>2. /\ u \in Seq(Cells) /\ Len(u) = (n - 1) - 1 + 1
            /\ \A i \in 1..((n - 1) - 1 + 1) : u[i] = t[1 + i - 1]
        BY <1>4, <4>1, Parts
      <4> QED
        BY <4>1, <4>2
    <3> HIDE DEF u
    <3>5. Append(u, Term) = t
      <4>1. Term \in Cells
        BY DEF Cells
      <4>2. /\ Append(u, Term) \in Seq(Cells) /\ Len(Append(u, Term)) = n
            /\ \A i \in 1..(n - 1) : Append(u, Term)[i] = u[i]
            /\ Append(u, Term)[n] = Term
        BY <3>4, <4>1, AppendProperties
      <4>3. \A i \in 1..n : Append(u, Term)[i] = t[i]
        BY <2>5, <3>4, <4>2
      <4> QED
        BY <1>4, <2>2, <4>2, <4>3, SeqEqual
    <3>6. \A i \in DOMAIN u : u[i] # Term
      <4>1. DOMAIN u = 1..(n - 1)
        BY <3>4, LenProperties
      <4> QED
        BY <1>4, <2>2, <3>4, <4>1
    <3>7. \E line \in {u, Append(u, Term)} :
             Api!FirstLine(line, d) /\ \A i \in DOMAIN u : u[i] # Term
      BY <1>4, <3>5, <3>6
    <3>8. Api!Meant(c, Text(sb), u)
      BY <2>5, <3>7 DEF Api!Meant, Call
    <3> HIDE DEF c
    <3> QED
      BY <1>1, <3>2, <3>3, <3>8, ReturnsClosed
  <2>6. CASE strip /\ t[n] # Term
    <3>1. Return(s, c)
      BY <2>1, <2>2, <2>3, <2>6
    <3>2. \A i \in DOMAIN t : t[i] # Term
      <4>1. DOMAIN t = 1..n
        BY <1>4, <2>2, LenProperties
      <4>2. \A i \in 1..n : i = n \/ i \in 1..(n - 1)
        OBVIOUS
      <4> QED
        BY <1>4, <2>2, <2>6, <4>1, <4>2
    <3>3. \E line \in {t, Append(t, Term)} :
             Api!FirstLine(line, d) /\ \A i \in DOMAIN t : t[i] # Term
      BY <1>4, <3>2
    <3>4. Api!Meant(c, Text(sb), t)
      BY <2>6, <3>3 DEF Api!Meant, Call
    <3> HIDE DEF c
    <3> QED
      BY <1>1, <1>3, <3>1, <3>4, ReturnsClosed
  <2> QED
    BY <2>4, <2>5, <2>6
<1> QED
  BY <1>5, <1>6, <1>7

-----------------------------------------------------------------------------
(***************************************************************************)
(* strbuf_read, and every step.                                            *)
(***************************************************************************)
\* The text callers know of: during a read, the one before it.
Shown == IF reading.on THEN SubSeq(Text(sb), 1, reading.oldlen) ELSE Text(sb)

LEMMA GrowsRoom ==
  ASSUME NEW s, Buffer(s), NEW extra \in Nat \ {0}
  PROVE  Avail(Grow(s, extra)) > 0
<1>1. /\ Grow(s, extra).len = s.len /\ Grow(s, extra).alloc \in Nat
      /\ Grow(s, extra).alloc > s.len + extra
  BY GrowKeeps
<1>2. s.len \in Nat
  BY Sizes
<1> QED
  BY <1>1, <1>2 DEF Avail

LEMMA ReadStartSound ==
  ASSUME StrbufInv, NEW n \in 0..(SizeMod - 1), ReadStart(n)
  PROVE  StrbufInv' /\ Shown' = Shown /\ call' = call /\ Terminated'
<1> DEFINE room == IF n = 0 THEN ReadSize ELSE n
           g == Grow(sb, room)
<1>1. room \in Nat \ {0}
  OBVIOUS
<1>2. /\ ~reading.on /\ sb' = g /\ call' = call
      /\ reading' = [on |-> TRUE, oldlen |-> sb.len, fresh |-> sb.alloc = 0, got |-> <<>>]
  BY DEF ReadStart, Idle
<1> HIDE DEF room
<1>3. Buffer(g) /\ g.len = sb.len /\ Text(g) = Text(sb) /\ Avail(g) > 0
  BY <1>1, GrowKeeps, GrowsRoom DEF StrbufInv
<1> HIDE DEF g
<1>4. PICK l \in Nat : l = sb.len /\ (sb.alloc = 0 => l = 0)
  BY Sizes DEF StrbufInv
<1>5. Text(sb) \in Seq(Cells) /\ Len(Text(sb)) = l
  BY <1>4, TextIs DEF StrbufInv
<1>6. SubSeq(Text(sb), l + 1, l) = <<>> /\ SubSeq(Text(sb), 1, l) = Text(sb)
  BY <1>5, SubSeqEmpty, SubSeqFull
<1>7. Text(sb') = Text(sb) /\ Buffer(sb') /\ sb'.len = l /\ Avail(sb') > 0
  BY <1>2, <1>3, <1>4, Zenon
<1>8. /\ reading'.on = TRUE /\ reading'.oldlen = l /\ reading'.got = <<>>
      /\ reading'.fresh = (sb.alloc = 0)
  BY <1>2, <1>4
<1>9. reading' \in [on : BOOLEAN, oldlen : Nat, fresh : BOOLEAN, got : Seq(Bytes)]
  BY <1>2, <1>4
<1>10. l <= l
  OBVIOUS
<1>11. StrbufInv'
  BY <1>4, <1>6, <1>7, <1>8, <1>9, <1>10 DEF StrbufInv, ReadingSound
<1>12. Shown' = Shown
  BY <1>2, <1>6, <1>7, <1>8 DEF Shown
<1> QED
  BY <1>2, <1>8, <1>11, <1>12 DEF Terminated

LEMMA ReadSomeSound ==
  ASSUME StrbufInv, NEW d \in Data, ReadSome(d)
  PROVE  StrbufInv' /\ Shown' = Shown /\ call' = call /\ Terminated'
<1> DEFINE p == Put(sb, sb.len, d)
           s == [p EXCEPT !.len = sb.len + Len(d)]
           g == Grow(s, ReadSize)
<1>1. /\ reading.on /\ Len(d) <= sb.alloc - sb.len - 1
      /\ sb' = g /\ call' = call
      /\ reading' = [reading EXCEPT !.got = @ \o d]
  BY DEF ReadSome
<1>2. PICK l \in Nat, a \in Nat : l = sb.len /\ a = sb.alloc
  BY Sizes DEF StrbufInv
<1>3. d \in Seq(Bytes) /\ d \in Seq(Cells) /\ Len(d) \in Nat
  BY DataAreCells
<1>4. Text(sb) \in Seq(Cells) /\ Len(Text(sb)) = l /\ HoldsAt(sb, 0, Text(sb))
  BY <1>2, TextIs, TextHolds DEF StrbufInv
<1>5. Room(sb) = a /\ l + Len(d) < a
  <2>1. l + Len(d) < a
    BY <1>1, <1>2, <1>3
  <2>2. a # 0
    BY <1>3, <2>1
  <2> QED
    BY <1>2, <2>1, <2>2 DEF Room
<1>6. HoldsAt(p, 0, Text(sb) \o d)
  <2>1. Len(Text(sb)) + Len(d) < Room(sb)
    BY <1>4, <1>5
  <2> QED
    BY <1>2, <1>3, <1>4, <2>1, PutBehind DEF StrbufInv
<1>7. Buffer(p) /\ p.alloc = a /\ Room(p) = a
  <2>1. /\ Buffer(Put(sb, sb.len, d)) /\ Put(sb, sb.len, d).alloc = sb.alloc
        /\ Room(Put(sb, sb.len, d)) = Room(sb)
    BY <1>2, <1>3, PutBuffer DEF StrbufInv
  <2> QED
    BY <1>2, <1>5, <2>1
<1> HIDE DEF p
<1>8. s = [alloc |-> a, len |-> l + Len(d), buf |-> p.buf]
  BY <1>2, <1>7, LenAssigned DEF Buffer
<1> HIDE DEF s
<1>9. s.alloc = a /\ s.len = l + Len(d) /\ s.buf = p.buf
  BY <1>8
<1>10. Buffer(s)
  <2>1. Room(s) = Room(p)
    BY <1>7, <1>9 DEF Room
  <2>2. l + Len(d) \in Nat /\ l + Len(d) < Room(s)
    BY <1>3, <1>5, <1>7, <2>1
  <2> QED
    BY <1>7, <1>8, <1>9, <2>1, <2>2 DEF Buffer
<1>11. Text(sb) \o d \in Seq(Cells) /\ Len(Text(sb) \o d) = l + Len(d)
  BY <1>3, <1>4, ConcatProperties
<1>12. Text(s) = Text(sb) \o d
  BY <1>6, <1>9, <1>10, <1>11, HeldText
<1>13. /\ Buffer(g) /\ g.len = l + Len(d) /\ Text(g) = Text(sb) \o d /\ Avail(g) > 0
  BY <1>9, <1>10, <1>12, GrowKeeps, GrowsRoom
<1> HIDE DEF g
<1>14. PICK o \in Nat : o = reading.oldlen /\ o <= l
  BY <1>1, <1>2 DEF StrbufInv, ReadingSound
<1>15. PICK n \in Nat : n = Len(d)
  BY <1>3
<1>16. /\ reading'.on = TRUE /\ reading'.oldlen = o /\ reading'.fresh = reading.fresh
       /\ reading'.got = reading.got \o d
       /\ reading' \in [on : BOOLEAN, oldlen : Nat, fresh : BOOLEAN, got : Seq(Bytes)]
  <2>1. reading \in [on : BOOLEAN, oldlen : Nat, fresh : BOOLEAN, got : Seq(Bytes)]
    BY DEF StrbufInv, ReadingSound
  <2>2. reading.got \o d \in Seq(Bytes)
    BY <1>3, <2>1, ConcatProperties
  <2> QED
    BY <1>1, <1>14, <2>1, <2>2
<1>17. reading.got = SubSeq(Text(sb), o + 1, l) /\ (reading.fresh => o = 0)
  BY <1>1, <1>2, <1>14 DEF StrbufInv, ReadingSound
<1> DEFINE t == Text(sb) \o d
<1>18. /\ t \in Seq(Cells) /\ Len(t) = l + n
       /\ \A i \in 1..(l + n) : t[i] = IF i <= l THEN Text(sb)[i] ELSE d[i - l]
  <2>1. /\ t \in Seq(Cells) /\ Len(t) = Len(Text(sb)) + Len(d)
        /\ \A i \in 1..Len(Text(sb)) + Len(d) :
             t[i] = IF i <= Len(Text(sb)) THEN Text(sb)[i] ELSE d[i - Len(Text(sb))]
    BY <1>3, <1>4, ConcatProperties, Zenon
  <2> QED
    BY <1>4, <1>15, <2>1
<1> HIDE DEF t
<1>19. SubSeq(t, 1, o) = SubSeq(Text(sb), 1, o)
  <2>1. 1 \in 1..(Len(t) + 1) /\ o \in (1 - 1)..Len(t) /\ 1 \in 1..(Len(Text(sb)) + 1)
        /\ o \in (1 - 1)..Len(Text(sb)) /\ o - 1 + 1 = o
    BY <1>4, <1>14, <1>15, <1>18
  <2>2. /\ SubSeq(t, 1, o) \in Seq(Cells) /\ Len(SubSeq(t, 1, o)) = o - 1 + 1
        /\ \A i \in 1..(o - 1 + 1) : SubSeq(t, 1, o)[i] = t[1 + i - 1]
    BY <1>18, <2>1, Parts
  <2>3. /\ SubSeq(Text(sb), 1, o) \in Seq(Cells) /\ Len(SubSeq(Text(sb), 1, o)) = o - 1 + 1
        /\ \A i \in 1..(o - 1 + 1) : SubSeq(Text(sb), 1, o)[i] = Text(sb)[1 + i - 1]
    BY <1>4, <2>1, Parts
  <2>4. \A i \in 1..o : 1 + i - 1 = i /\ i \in 1..(l + n) /\ i <= l
    BY <1>14
  <2>5. \A i \in 1..o : SubSeq(t, 1, o)[i] = SubSeq(Text(sb), 1, o)[i]
    BY <1>18, <2>1, <2>2, <2>3, <2>4
  <2> QED
    BY <2>1, <2>2, <2>3, <2>5, SeqEqual
<1>20. SubSeq(t, o + 1, l + n) = SubSeq(Text(sb), o + 1, l) \o d
  <2>1. o + 1 \in 1..(Len(Text(sb)) + 1) /\ l \in ((o + 1) - 1)..Len(Text(sb))
        /\ o + 1 \in 1..(Len(t) + 1) /\ l + n \in ((o + 1) - 1)..Len(t)
    BY <1>4, <1>14, <1>18
  <2> DEFINE u == SubSeq(Text(sb), o + 1, l)
             w == SubSeq(t, o + 1, l + n)
  <2>2. PICK k \in Nat : k = l - o /\ k = l - (o + 1) + 1 /\ l + n - (o + 1) + 1 = k + n
    <3>1. l - o \in Nat /\ l - o = l - (o + 1) + 1 /\ l + n - (o + 1) + 1 = (l - o) + n
      BY <1>14
    <3> QED
      BY <3>1
  <2>3. u \in Seq(Cells) /\ Len(u) = k /\ \A i \in 1..k : u[i] = Text(sb)[(o + 1) + i - 1]
    BY <1>4, <2>1, <2>2, Parts
  <2>4. w \in Seq(Cells) /\ Len(w) = k + n
        /\ \A i \in 1..(k + n) : w[i] = t[(o + 1) + i - 1]
    BY <1>18, <2>1, <2>2, Parts
  <2> HIDE DEF u, w
  <2>5. /\ u \o d \in Seq(Cells) /\ Len(u \o d) = Len(u) + Len(d)
        /\ \A i \in 1..Len(u) + Len(d) :
             (u \o d)[i] = IF i <= Len(u) THEN u[i] ELSE d[i - Len(u)]
    BY <1>3, <2>3, ConcatProperties, Zenon
  <2>6. ASSUME NEW i \in 1..(k + n)
        PROVE  w[i] = (u \o d)[i]
    <3>1. (u \o d)[i] = IF i <= k THEN u[i] ELSE d[i - k]
      BY <1>15, <2>3, <2>5
    <3>2. PICK j \in 1..(l + n) : j = (o + 1) + i - 1 /\ j = o + i /\ (j <= l <=> i <= k)
                                  /\ j - l = i - k
      <4>1. /\ o + i \in 1..(l + n) /\ o + i = (o + 1) + i - 1 /\ (o + i <= l <=> i <= k)
            /\ (o + i) - l = i - k
        <5>1. l = o + k
          BY <1>14, <2>2
        <5>2. o + i \in 1..(l + n) /\ o + i = (o + 1) + i - 1
          BY <5>1
        <5>3. o + i <= l <=> i <= k
          BY <5>1
        <5>4. (o + i) - l = i - k
          BY <5>1
        <5> QED
          BY <5>2, <5>3, <5>4
      <4> QED
        BY <4>1
    <3>3. w[i] = t[j]
      BY <2>4, <3>2
    <3>4. t[j] = IF j <= l THEN Text(sb)[j] ELSE d[j - l]
      BY <1>18
    <3>5. CASE i <= k
      <4>1. u[i] = Text(sb)[j]
        <5>1. i \in 1..k
          BY <3>5
        <5>2. u[i] = Text(sb)[(o + 1) + i - 1]
          BY <2>3, <5>1
        <5> QED
          BY <3>2, <5>2, Zenon
      <4> QED
        BY <3>1, <3>2, <3>3, <3>4, <3>5, <4>1, Zenon
    <3>6. CASE ~(i <= k)
      BY <3>1, <3>2, <3>3, <3>4, <3>6
    <3> QED
      BY <3>5, <3>6
  <2>7. Len(u \o d) = k + n
    BY <1>15, <2>3, <2>5
  <2> QED
    BY <2>4, <2>5, <2>6, <2>7, SeqEqual DEF u, w
<1>21. Text(sb') = t /\ Buffer(sb') /\ sb'.len = l + n /\ Avail(sb') > 0
  BY <1>1, <1>13, <1>15, Zenon DEF t
<1>22. o <= l + n
  BY <1>14
<1>23. StrbufInv'
  BY <1>16, <1>17, <1>20, <1>21, <1>22 DEF StrbufInv, ReadingSound
<1>24. Shown' = Shown
  BY <1>1, <1>14, <1>16, <1>19, <1>21 DEF Shown
<1> QED
  BY <1>1, <1>16, <1>23, <1>24 DEF Terminated

LEMMA ReadEndSound ==
  ASSUME StrbufInv, ReadEnd
  PROVE  /\ StrbufInv' /\ Terminated'
         /\ Api!Meant(call', Shown, Shown')
<1>1. /\ reading.on /\ sb' = SetLen(sb, sb.len) /\ reading' = NotReading
      /\ call' = Call("read", 0, 0, reading.got, sb.len - reading.oldlen)
  BY DEF ReadEnd
<1>2. PICK l \in Nat, o \in Nat : l = sb.len /\ o = reading.oldlen /\ o <= l
  BY <1>1, Sizes DEF StrbufInv, ReadingSound
<1>3. Text(sb) \in Seq(Cells) /\ Len(Text(sb)) = l
  BY <1>2, TextIs DEF StrbufInv
<1>4. Buffer(sb') /\ Text(sb') = Text(sb) /\ sb'.buf[sb'.len] = Nul
  <2>1. l <= sb.len
    BY <1>2
  <2>2. Closed(SetLen(sb, l), SubSeq(Text(sb), 1, l))
    BY <2>1, SetLenShortens DEF StrbufInv
  <2>3. SubSeq(Text(sb), 1, l) = Text(sb)
    BY <1>3, SubSeqFull
  <2>4. sb' = SetLen(sb, l)
    BY <1>1, <1>2
  <2> QED
    BY <2>2, <2>3, <2>4, Zenon DEF Closed
<1>5. reading' \in [on : BOOLEAN, oldlen : Nat, fresh : BOOLEAN, got : Seq(Bytes)]
      /\ reading'.on = FALSE
  BY <1>1, EmptySeq DEF NotReading
<1>6. StrbufInv' /\ Terminated'
  BY <1>4, <1>5 DEF StrbufInv, ReadingSound, Terminated
<1>7. reading.got = SubSeq(Text(sb), o + 1, l)
  BY <1>1, <1>2 DEF StrbufInv, ReadingSound
<1>8. Len(reading.got) = l - o
  <2>1. o + 1 \in 1..(Len(Text(sb)) + 1) /\ l \in ((o + 1) - 1)..Len(Text(sb))
        /\ l - (o + 1) + 1 = l - o
    BY <1>2, <1>3
  <2> QED
    BY <1>3, <1>7, <2>1, Parts
<1>9. SubSeq(Text(sb), 1, o) \o reading.got = Text(sb)
  <2>1. 1 \in 1..(Len(Text(sb)) + 1) /\ o \in (1 - 1)..Len(Text(sb)) /\ l \in o..Len(Text(sb))
    BY <1>2, <1>3
  <2>2. SubSeq(Text(sb), 1, o) \o SubSeq(Text(sb), o + 1, l) = SubSeq(Text(sb), 1, l)
    BY <1>3, <2>1, ConcatAdjacentSubSeq
  <2>3. SubSeq(Text(sb), 1, l) = Text(sb)
    BY <1>3, SubSeqFull
  <2> QED
    BY <1>7, <2>2, <2>3
<1>10. Shown = SubSeq(Text(sb), 1, o) /\ Shown' = Text(sb)
  BY <1>1, <1>2, <1>4, <1>5 DEF Shown
<1>11. Api!Meant(call', SubSeq(Text(sb), 1, o), Text(sb))
  <2>1. call'.op = "read" /\ call'.data = reading.got /\ call'.ret = Len(reading.got)
    BY <1>1, <1>2, <1>8 DEF Call
  <2> QED
    BY <1>9, <2>1 DEF Api!Meant
<1> QED
  BY <1>6, <1>10, <1>11

LEMMA ReadFailsSound ==
  ASSUME StrbufInv, ReadFails
  PROVE  /\ StrbufInv' /\ Terminated'
         /\ Api!Meant(call', Shown, Shown')
<1>1. /\ reading.on /\ reading' = NotReading
      /\ sb' = IF reading.fresh THEN Fresh ELSE SetLen(sb, reading.oldlen)
      /\ call' = Call("readfails", 0, 0, <<>>, 0)
  BY DEF ReadFails
<1>2. /\ reading.oldlen \in Nat /\ reading.oldlen <= sb.len
      /\ reading.fresh => reading.oldlen = 0
  BY <1>1 DEF StrbufInv, ReadingSound
<1>3. Shown = SubSeq(Text(sb), 1, reading.oldlen)
  BY <1>1 DEF Shown
<1>4. Closed(sb', Shown)
  <2>1. CASE reading.fresh
    <3>1. Shown = <<>>
      BY <1>2, <1>3, <2>1, SubSeqEmpty
    <3> QED
      BY <1>1, <2>1, <3>1, FreshCloses
  <2>2. CASE ~reading.fresh
    <3>1. Closed(SetLen(sb, reading.oldlen), SubSeq(Text(sb), 1, reading.oldlen))
      BY <1>2, SetLenShortens DEF StrbufInv
    <3> QED
      BY <1>1, <1>3, <2>2, <3>1
  <2> QED
    BY <2>1, <2>2
<1>5. Buffer(sb') /\ Text(sb') = Shown /\ sb'.buf[sb'.len] = Nul
  BY <1>4 DEF Closed
<1>6. reading' \in [on : BOOLEAN, oldlen : Nat, fresh : BOOLEAN, got : Seq(Bytes)]
      /\ reading'.on = FALSE
  BY <1>1, EmptySeq DEF NotReading
<1>7. StrbufInv' /\ Terminated'
  BY <1>5, <1>6 DEF StrbufInv, ReadingSound, Terminated
<1>8. Shown' = Shown
  BY <1>5, <1>6 DEF Shown
<1>9. Api!Meant(call', Shown, Shown)
  BY <1>1 DEF Api!Meant, Call
<1> QED
  BY <1>7, <1>8, <1>9

\* What a step does: a call as promised, or nothing callers know of.
Promised ==
  /\ StrbufInv' /\ TerminatorKept
  /\ Api!Meant(call', Shown, Shown') \/ (Shown' = Shown /\ call' = call)

LEMMA ReturnsPromised ==
  ASSUME StrbufInv, Returns
  PROVE  Promised
<1>1. /\ ~reading.on /\ reading' = reading /\ Buffer(sb') /\ TerminatorKept
      /\ Api!Meant(call', Text(sb), Text(sb'))
  BY DEF Returns
<1>2. StrbufInv'
  BY <1>1 DEF StrbufInv, ReadingSound
<1>3. Shown = Text(sb) /\ Shown' = Text(sb')
  BY <1>1 DEF Shown
<1> QED
  BY <1>1, <1>2, <1>3 DEF Promised

LEMMA StepPromised ==
  ASSUME StrbufInv, StrbufNext
  PROVE  Promised
<1> USE DEF StrbufNext
<1>1. ASSUME NEW n \in 0..(SizeMod - 1), Init_(n)
      PROVE  Promised
  BY <1>1, InitReturns, ReturnsPromised
<1>2. ASSUME NEW n \in 0..(SizeMod - 1), ReadStart(n)
      PROVE  Promised
  BY <1>2, ReadStartSound DEF Promised, TerminatorKept
<1>3. CASE Release
  BY <1>3, ReleaseReturns, ReturnsPromised
<1>4. CASE Detach
  BY <1>4, DetachReturns, ReturnsPromised
<1>5. ASSUME NEW d \in Data, NEW n \in 0..MaxLen, Attach(d, n)
      PROVE  Promised
  BY <1>5, AttachReturns, ReturnsPromised
<1>6. ASSUME NEW d \in Data, NEW n \in 0..MaxLen, Fread(d, n)
      PROVE  Promised
  BY <1>6, FreadReturns, ReturnsPromised
<1>7. ASSUME NEW n \in 0..MaxLen, Shorten(n)
      PROVE  Promised
  BY <1>7, ShortenReturns, ReturnsPromised
<1>8. CASE Trim \/ Rtrim \/ Ltrim
  BY <1>8, TrimsReturn, ReturnsPromised
<1>9. CASE Split
  BY <1>9, SplitReturns, ReturnsPromised
<1>10. ASSUME NEW pos \in 0..MaxLen, NEW n \in 0..MaxLen, Adddup(pos, n)
       PROVE  Promised
  BY <1>10, AdddupReturns, ReturnsPromised
<1>11. ASSUME NEW pos \in 0..MaxLen, NEW n \in 0..MaxLen, NEW d \in Data, Splice(pos, n, d)
       PROVE  Promised
  BY <1>11, SpliceReturns, ReturnsPromised
<1>12. ASSUME NEW d \in Data, Add(d) \/ Addf(d)
       PROVE  Promised
  BY <1>12, AddReturns, ReturnsPromised
<1>13. ASSUME NEW d \in Data, ReadSome(d)
       PROVE  Promised
  BY <1>13, ReadSomeSound DEF Promised, TerminatorKept
<1>14. ASSUME NEW d \in Data, NEW feof \in BOOLEAN, NEW strip \in BOOLEAN,
              GetLine(d, feof, strip)
       PROVE  Promised
  BY <1>14, GetLineReturns, ReturnsPromised
<1>15. CASE ReadEnd
  BY <1>15, ReadEndSound DEF Promised, TerminatorKept
<1>16. CASE ReadFails
  BY <1>16, ReadFailsSound DEF Promised, TerminatorKept
<1>17. CASE Die
  BY <1>17, DieReturns, ReturnsPromised
<1> QED
  BY <1>1, <1>2, <1>3, <1>4, <1>5, <1>6, <1>7, <1>8, <1>9, <1>10, <1>11, <1>12, <1>13,
     <1>14, <1>15, <1>16, <1>17, Zenon

LEMMA StutterPromised ==
  ASSUME StrbufInv, UNCHANGED strbufVars
  PROVE  Promised
<1>1. sb' = sb /\ reading' = reading /\ call' = call
  BY DEF strbufVars
<1>2. StrbufInv' /\ Shown' = Shown /\ Terminated' = Terminated
  BY <1>1 DEF StrbufInv, ReadingSound, Shown, Terminated
<1> QED
  BY <1>1, <1>2 DEF Promised, TerminatorKept

LEMMA InitSound ==
  ASSUME StrbufInit
  PROVE  StrbufInv /\ Shown = <<>> /\ call.op = "init"
<1>1. sb = Fresh /\ reading = NotReading /\ call.op = "init"
  BY DEF StrbufInit, Call
<1>2. Buffer(sb) /\ Text(sb) = <<>>
  BY <1>1, FreshCloses DEF Closed
<1>3. reading \in [on : BOOLEAN, oldlen : Nat, fresh : BOOLEAN, got : Seq(Bytes)]
      /\ reading.on = FALSE
  BY <1>1, EmptySeq DEF NotReading
<1> QED
  BY <1>1, <1>2, <1>3 DEF StrbufInv, ReadingSound, Shown

LEMMA InvIsTypeOK ==
  ASSUME StrbufInv
  PROVE  StrbufTypeOK
<1>1. WellFormed(sb)
  BY BuffersAreWellFormed DEF StrbufInv
<1>2. /\ reading \in [on : BOOLEAN, oldlen : Nat, fresh : BOOLEAN, got : Seq(Bytes)]
      /\ reading.on => Avail(sb) > 0
  BY DEF StrbufInv, ReadingSound
<1> QED
  BY <1>1, <1>2 DEF StrbufTypeOK

-----------------------------------------------------------------------------
(***************************************************************************)
(* The buffer is well-formed after every call of strbuf.c: the block has   *)
(* room for the text and the terminator behind it, and strbuf_read asks    *)
(* xread for at least a byte.                                              *)
(***************************************************************************)
THEOREM BuffersStayWellFormed == StrbufSpec => []StrbufTypeOK
<1>1. StrbufInit => StrbufInv
  BY InitSound
<1>2. StrbufInv /\ [StrbufNext]_strbufVars => StrbufInv'
  BY StepPromised, StutterPromised DEF Promised
<1>3. StrbufInv => StrbufTypeOK
  BY InvIsTypeOK
<1> QED
  BY <1>1, <1>2, <1>3, PTL DEF StrbufSpec

(***************************************************************************)
(* A buffer that is NUL terminated stays so, but for the calls of          *)
(* strbuf_grow that write nothing into a buffer that never grew before.    *)
(***************************************************************************)
THEOREM TerminatorsStay == StrbufSpec => TerminatorStays
<1>1. StrbufInit => StrbufInv
  BY InitSound
<1>2. StrbufInv /\ [StrbufNext]_strbufVars => StrbufInv' /\ TerminatorKept
  BY StepPromised, StutterPromised DEF Promised
<1>3. TerminatorKept =>
        [Terminated /\ ~Terminated' =>
           /\ sb.alloc = 0 /\ sb'.len = 0
           /\ call'.op \in {"feof", "add"} /\ call'.data = <<>>]_strbufVars
  BY DEF TerminatorKept
<1> QED
  BY <1>1, <1>2, <1>3, PTL DEF StrbufSpec, TerminatorStays

(***************************************************************************)
(* The functions of strbuf.c do to the text of a buffer what StrbufApi     *)
(* promises its callers, whatever block the text is in.                    *)
(***************************************************************************)
THEOREM BufferImplementsApi == StrbufSpec => ImplementsApi
<1>1. StrbufInit => StrbufInv /\ Api!ApiInit
  BY InitSound DEF Api!ApiInit, Shown
<1>2. StrbufInv /\ [StrbufNext]_strbufVars
        => StrbufInv' /\ [Api!ApiNext]_<<Shown, call>>
  BY StepPromised, StutterPromised DEF Promised, Api!ApiNext, Shown
<1> QED
  BY <1>1, <1>2, PTL DEF StrbufSpec, ImplementsApi, Api!ApiSpec, Shown
=============================================================================
