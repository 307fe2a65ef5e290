------------------------------- MODULE Strbuf -------------------------------
(***************************************************************************)
(* The growing string buffer of common/utils/strbuf.c.  A buffer is a      *)
(* block of alloc cells, len of which hold text, and a terminator behind   *)
(* the text; one that never grew points to the shared strbuf_slopbuf.  A   *)
(* helper below maps the buffer before a C function to the one after it;   *)
(* an action is one call by the rest of the program.  Cells behind the     *)
(* terminator count as Junk: a call that lets them into the text shows.    *)
(***************************************************************************)
EXTENDS Naturals, Sequences, SequencesExt

CONSTANTS
  Bytes,        \* what a cell may hold, apart from the next two
  Nul,          \* the terminator
  Junk,         \* a cell nothing was written to
  Spaces,       \* the bytes isspace accepts
  Term,         \* the byte that ends a line or a piece
  Slack,        \* 16: what alloc_nr adds before it takes half as much again
  SizeMod,      \* number of values of a size_t
  FormatSize,   \* 64: the room made for a format before its length is known
  ReadSize,     \* 8192: the room made for each read
  Data,         \* texts the callers pass
  MaxLen        \* bound: length of the text

ASSUME StrbufAssumption ==
  /\ Nul \notin Bytes /\ Junk \notin Bytes /\ Nul # Junk
  /\ Spaces \subseteq Bytes /\ Term \in Bytes
  /\ Slack \in Nat /\ SizeMod \in Nat \ {0}
  /\ FormatSize \in Nat /\ ReadSize \in Nat \ {0}
  /\ Data \subseteq Seq(Bytes)
  /\ MaxLen \in Nat

VARIABLES
  sb,           \* the buffer
  reading,      \* the strbuf_read under way, or NotReading
  call          \* the last call that ended: function, arguments, result

strbufVars == <<sb, reading, call>>

Cells == Bytes \cup {Nul, Junk}
NotReading == [on |-> FALSE, oldlen |-> 0, fresh |-> FALSE, got |-> <<>>]
Text(s) == [i \in 1..s.len |-> s.buf[i - 1]]
Call(op, pos, n, data, ret) ==
  [op |-> op, pos |-> pos, n |-> n, data |-> data, ret |-> ret]

-----------------------------------------------------------------------------
\* strbuf_init without hint: the buffer all strbufs share until they grow.
Fresh == [alloc |-> 0, len |-> 0, buf |-> [i \in 0..0 |-> Nul]]

\* alloc_nr, in the arithmetic of size_t.
AllocNr(a) == ((((a + Slack) % SizeMod) * 3) % SizeMod) \div 2

\* Faulty: the room for the terminator is forgotten.
GrowShort(s, extra) ==
  LET nr == s.len + extra
      alloc == IF AllocNr(s.alloc) < nr THEN nr ELSE AllocNr(s.alloc)
  IN  IF nr <= s.alloc THEN s
      ELSE [alloc |-> alloc, len |-> s.len,
            buf |-> [i \in 0..(alloc - 1) |->
                       IF i < s.alloc THEN s.buf[i] ELSE Junk]]

\* strbuf_grow, short of its two overflow checks.
CanGrow(s, extra) == s.len + extra + 1 < SizeMod
Grow(s, extra) ==
  LET nr == s.len + extra + 1
      alloc == IF AllocNr(s.alloc) < nr THEN nr ELSE AllocNr(s.alloc)
  IN  IF nr <= s.alloc THEN s
      ELSE [alloc |-> alloc, len |-> s.len,
            buf |-> [i \in 0..(alloc - 1) |->
                       IF i < s.alloc THEN s.buf[i] ELSE Junk]]

SetLen(s, n) ==
  [s EXCEPT !.len = n,
            !.buf = [i \in DOMAIN s.buf |-> IF i < n THEN s.buf[i]
                                            ELSE IF i = n THEN Nul ELSE Junk]]

\* memcpy to, or memmove within, the block.
Put(s, pos, d) ==
  [s EXCEPT !.buf = [i \in DOMAIN s.buf |->
                       IF pos <= i /\ i < pos + Len(d) THEN d[i - pos + 1]
                       ELSE s.buf[i]]]

Avail(s) == IF s.alloc > 0 THEN s.alloc - s.len - 1 ELSE 0

AddTo(s, d) == SetLen(Put(Grow(s, Len(d)), s.len, d), s.len + Len(d))

\* strbuf_vaddf, d being the formatted text.
FormatTo(s, d) ==
  LET roomy == IF Avail(s) = 0 THEN Grow(s, FormatSize) ELSE s
      big == IF Len(d) > Avail(roomy) THEN Grow(roomy, Len(d)) ELSE roomy
  IN  SetLen(Put(big, s.len, d), s.len + Len(d))

\* Faulty: the new text goes in before the rest is moved.
SplicedTooEarly(s, pos, n, d) ==
  LET g == IF Len(d) >= n THEN Grow(s, Len(d) - n) ELSE s
      early == Put(g, pos, d)
      rest == [i \in 1..(s.len - pos - n) |-> early.buf[pos + n + i - 1]]
  IN  SetLen(Put(early, pos + Len(d), rest), s.len + Len(d) - n)

\* strbuf_splice: the rest moves, then the new text goes in.
Spliced(s, pos, n, d) ==
  LET g == IF Len(d) >= n THEN Grow(s, Len(d) - n) ELSE s
      moved == Put(g, pos + Len(d), SubSeq(Text(s), pos + n + 1, s.len))
  IN  SetLen(Put(moved, pos, d), s.len + Len(d) - n)

\* The number of blanks the loops of the trims pass.
Leading(t) ==
  CHOOSE k \in 0..Len(t) : /\ \A i \in 1..k : t[i] \in Spaces
                           /\ k < Len(t) => t[k + 1] \notin Spaces
Trailing(t) == Leading(Reverse(t))
Rtrimmed(s) == SetLen(s, s.len - Trailing(Text(s)))
Ltrimmed(s) ==
  LET k == Leading(Text(s))
  IN  SetLen(Put(s, 0, SubSeq(Text(s), k + 1, s.len)), s.len - k)

\* strbuf_getwholeline: the bytes of one line, added without terminator.
LineLength(d) ==
  CHOOSE k \in 0..Len(d) : /\ \A i \in 1..(k - 1) : d[i] # Term
                           /\ k = Len(d) \/ (k > 0 /\ d[k] = Term)
AddByte(s, c) ==
  LET g == Put(Grow(s, 1), s.len, <<c>>) IN [g EXCEPT !.len = s.len + 1]
WholeLine(s, d) ==
  LET n == LineLength(d)
      After[k \in 0..n] ==
        IF k = 0 THEN SetLen(Grow(s, 0), 0) ELSE AddByte(After[k - 1], d[k])
  IN  SetLen(After[n], After[n].len)
-----------------------------------------------------------------------------
Return(s, c) == sb' = s /\ call' = c /\ UNCHANGED reading
Idle == ~reading.on /\ call.op # "die"

\* strbuf_init, of a buffer that holds nothing to be freed.
Init_(hint) ==
  /\ Idle /\ sb.alloc = 0
  /\ CanGrow(Fresh, hint)
  /\ Return(IF hint = 0 THEN Fresh ELSE SetLen(Grow(Fresh, hint), 0),
            Call("init", 0, hint, <<>>, 0))

Release == Idle /\ Return(Fresh, Call("release", 0, 0, <<>>, 0))

\* strbuf_detach: a buffer that never grew has no block to give away.
Detach ==
  /\ Idle
  /\ Return(Fresh, Call("detach", 0, sb.len,
                        IF sb.alloc = 0 THEN <<>> ELSE Text(sb), sb.len))

\* strbuf_attach, of a block with room for its text.
Attach(d, alloc) ==
  /\ Idle
  /\ alloc >= Len(d)
  /\ Len(d) + 1 < SizeMod
  /\ LET block == [alloc |-> alloc, len |-> Len(d),
                   buf |-> [i \in 0..(IF alloc = 0 THEN 0 ELSE alloc - 1) |->
                              IF i < Len(d) THEN d[i + 1] ELSE Junk]]
     IN  Return(SetLen(Grow(block, 0), Len(d)), Call("attach", 0, alloc, d, 0))

\* strbuf_setlen and strbuf_reset, to what is in the buffer.
Shorten(n) ==
  /\ Idle
  /\ n <= sb.len
  /\ Return(SetLen(sb, n), Call("setlen", 0, n, <<>>, 0))

Trim == Idle /\ Return(Ltrimmed(Rtrimmed(sb)), Call("trim", 0, 0, <<>>, 0))
Rtrim == Idle /\ Return(Rtrimmed(sb), Call("rtrim", 0, 0, <<>>, 0))
Ltrim == Idle /\ Return(Ltrimmed(sb), Call("ltrim", 0, 0, <<>>, 0))

\* strbuf_splice, and strbuf_insert and strbuf_remove with it.
Splice(pos, n, d) ==
  /\ Idle
  /\ pos + n <= sb.len
  /\ sb.len + Len(d) - n <= MaxLen
  /\ CanGrow(sb, Len(d))
  /\ Return(Spliced(sb, pos, n, d), Call("splice", pos, n, d, 0))

\* strbuf_add, strbuf_addstr and strbuf_addch.
Add(d) ==
  /\ Idle
  /\ sb.len + Len(d) <= MaxLen
  /\ CanGrow(sb, Len(d))
  /\ Return(AddTo(sb, d), Call("add", 0, 0, d, 0))

Addf(d) ==
  /\ Idle
  /\ sb.len + Len(d) <= MaxLen
  /\ CanGrow(sb, IF Len(d) > FormatSize THEN Len(d) ELSE FormatSize)
  /\ Return(FormatTo(sb, d), Call("add", 0, 0, d, 0))

Adddup(pos, n) ==
  /\ Idle
  /\ pos + n <= sb.len
  /\ sb.len + n <= MaxLen
  /\ CanGrow(sb, n)
  /\ Return(AddTo(sb, SubSeq(Text(sb), pos + 1, pos + n)),
            Call("adddup", pos, n, <<>>, 0))

\* strbuf_fread of at most size bytes, d being what the file has left.
Fread(d, size) ==
  /\ Idle
  /\ sb.len + size <= MaxLen
  /\ CanGrow(sb, size)
  /\ LET got == SubSeq(d, 1, IF size < Len(d) THEN size ELSE Len(d))
         g == Grow(sb, size)
     IN  Return(IF got # <<>> THEN SetLen(Put(g, sb.len, got), sb.len + Len(got))
                ELSE IF sb.alloc = 0 THEN Fresh ELSE g,
                Call("add", 0, size, got, Len(got)))

\* strbuf_getwholeline at d; past the end it returns EOF and leaves a
\* buffer that grew without a terminator.
GetLine(d, feof, strip) ==
  /\ Idle
  /\ CanGrow(sb, 0) /\ Len(d) + 1 < SizeMod
  /\ feof => d = <<>>
  /\ LET s == WholeLine(sb, d)
     IN  IF feof THEN Return(Grow(sb, 0), Call("feof", 0, 0, d, 0))
         ELSE IF d = <<>> THEN Return(s, Call("eof", 0, 0, d, 0))
         ELSE Return(IF strip /\ s.buf[s.len - 1] = Term THEN SetLen(s, s.len - 1)
                     ELSE s,
                     Call(IF strip THEN "getline" ELSE "getwholeline", 0, 0, d, 0))

\* strbuf_split: each piece is a buffer of its own.
Pieces(t) ==
  LET From[i \in 1..(Len(t) + 1)] ==
        IF i > Len(t) THEN <<>>
        ELSE LET n == LineLength(SubSeq(t, i, Len(t)))
             IN  <<SubSeq(t, i, i + n - 1)>> \o From[i + n]
  IN  From[1]
Split == Idle /\ Return(sb, Call("split", 0, 0, Pieces(Text(sb)), 0))
-----------------------------------------------------------------------------
\* Faulty: a hint of 0 is taken at its word.
ReadStartNoRoom(hint) ==
  /\ Idle
  /\ CanGrow(sb, hint)
  /\ sb' = Grow(sb, hint)
  /\ reading' = [on |-> TRUE, oldlen |-> sb.len, fresh |-> sb.alloc = 0,
                 got |-> <<>>]
  /\ UNCHANGED call

\* strbuf_read is a loop around xread: a step per read.
ReadStart(hint) ==
  LET room == IF hint = 0 THEN ReadSize ELSE hint
  IN  /\ Idle
      /\ CanGrow(sb, room)
      /\ sb' = Grow(sb, room)
      /\ reading' = [on |-> TRUE, oldlen |-> sb.len, fresh |-> sb.alloc = 0,
                     got |-> <<>>]
      /\ UNCHANGED call

\* xread gives some bytes, as many as fit at most.
ReadSome(d) ==
  /\ reading.on
  /\ d # <<>>
  /\ Len(d) <= sb.alloc - sb.len - 1
  /\ sb.len + Len(d) <= MaxLen
  /\ CanGrow(sb, Len(d) + ReadSize)
  /\ LET s == Put(sb, sb.len, d)
     IN  sb' = Grow([s EXCEPT !.len = sb.len + Len(d)], ReadSize)
  /\ reading' = [reading EXCEPT !.got = @ \o d]
  /\ UNCHANGED call

\* Faulty: the terminator is left to the next call.
ReadEndOpen ==
  /\ reading.on
  /\ sb' = sb
  /\ reading' = NotReading
  /\ call' = Call("read", 0, 0, reading.got, sb.len - reading.oldlen)

ReadEnd ==
  /\ reading.on
  /\ sb' = SetLen(sb, sb.len)
  /\ reading' = NotReading
  /\ call' = Call("read", 0, 0, reading.got, sb.len - reading.oldlen)

ReadFails ==
  /\ reading.on
  /\ sb' = IF reading.fresh THEN Fresh ELSE SetLen(sb, reading.oldlen)
  /\ reading' = NotReading
  /\ call' = Call("readfails", 0, 0, <<>>, 0)

\* The overflow checks of strbuf_grow end the program.
Die ==
  /\ Idle
  /\ \E extra \in 0..(SizeMod - 1) : ~CanGrow(sb, extra)
  /\ call' = Call("die", 0, 0, <<>>, 0)
  /\ UNCHANGED <<sb, reading>>
-----------------------------------------------------------------------------
StrbufInit ==
  /\ sb = Fresh
  /\ reading = NotReading
  /\ call = Call("init", 0, 0, <<>>, 0)

StrbufNext ==
  \/ \E n \in 0..(SizeMod - 1) : Init_(n) \/ ReadStart(n)
  \/ Release \/ Detach
  \/ \E d \in Data, n \in 0..MaxLen : Attach(d, n) \/ Fread(d, n)
  \/ \E n \in 0..MaxLen : Shorten(n)
  \/ Trim \/ Rtrim \/ Ltrim \/ Split
  \/ \E pos, n \in 0..MaxLen : Adddup(pos, n)
  \/ \E pos, n \in 0..MaxLen, d \in Data : Splice(pos, n, d)
  \/ \E d \in Data : Add(d) \/ Addf(d) \/ ReadSome(d)
  \/ \E d \in Data, feof, strip \in BOOLEAN : GetLine(d, feof, strip)
  \/ ReadEnd \/ ReadFails \/ Die

StrbufSpec == StrbufInit /\ [][StrbufNext]_strbufVars
=============================================================================
