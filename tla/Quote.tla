------------------------------- MODULE Quote -------------------------------
(***************************************************************************)
(* Quoting of names and arguments, common/quote.c: for the shell, in the   *)
(* style of C strings, and relative to a directory.  Everything is written *)
(* to a string buffer, byte by byte; bytes are their ASCII numbers.  An    *)
(* action is one call; quoted keeps what was asked and what came of it.    *)
(***************************************************************************)
EXTENDS Strbuf, Integers

CONSTANTS
  Names,        \* names to be quoted as in C
  Quotations,   \* texts handed to unquote_c_style
  Lists,        \* lists of arguments for the shell
  ShellTexts,   \* texts handed to sq_dequote
  Files,        \* paths, and the directories they are given relative to
  Directories,
  ArgvRoom      \* 255: the room made for a list of arguments

VARIABLE quoted \* the last call: function, arguments, whether it succeeded

quoteVars == <<strbufVars, quoted>>

Quote == 39    \* '
DoubleQuote == 34
Backslash == 92
Bang == 33
Slash == 47
Blank == 32

NothingQuoted == [fn |-> "none", of |-> <<>>, with |-> <<>>, ok |-> TRUE, gives |-> <<>>]
Quoted(fn, of, with, ok, gives) ==
  [fn |-> fn, of |-> of, with |-> with, ok |-> ok, gives |-> gives]
At(t, i) == IF i <= Len(t) THEN t[i] ELSE Nul

ASSUME QuoteAssumption ==
  /\ Bytes = 1..255 /\ Nul = 0
  /\ Blank \in Spaces /\ Spaces \subseteq (9..13) \cup {Blank}
  /\ Names \cup Quotations \cup ShellTexts \cup Files \cup Directories
       \subseteq Seq(Bytes)
  /\ Lists \subseteq Seq(Seq(Bytes))
  /\ ArgvRoom \in Nat

\* The emits of a call, a byte at a time.
Emit(s, t) ==
  LET After[k \in 0..Len(t)] == IF k = 0 THEN s ELSE AddTo(After[k - 1], <<t[k]>>)
  IN  After[Len(t)]
\* A loop over a text.  The round at position i puts out something and goes
\* on at another position, or is the last one and tells how the loop ended.
Round(c, then) == [out |-> <<c>>, then |-> then, ok |-> TRUE, next |-> 0]
LastRound(ok, next) == [out |-> <<>>, then |-> 0, ok |-> ok, next |-> next]
Scanned(rounds, start) ==
  LET From[i \in DOMAIN rounds] ==
        IF rounds[i].then = 0 THEN rounds[i]
        ELSE [out |-> rounds[i].out \o From[rounds[i].then].out, then |-> 0,
              ok |-> From[rounds[i].then].ok, next |-> From[rounds[i].then].next]
  IN  From[start]
-----------------------------------------------------------------------------
\* sq_lookup: 1 stands for octal, 0 for octal if quote_path_fully, -1 for
\* the byte itself.
LetterOf == [c \in 7..13 |-> CASE c = 7 -> 97 [] c = 8 -> 98 [] c = 9 -> 116
                               [] c = 10 -> 110 [] c = 11 -> 118
                               [] c = 12 -> 102 [] c = 13 -> 114]
SqLookup(c) ==
  CASE c \in DOMAIN LetterOf -> LetterOf[c]
    [] c \in {DoubleQuote, Backslash} -> c
    [] c \in (0..31 \ DOMAIN LetterOf) \cup {127} -> 1
    [] c >= 128 -> 0
    [] OTHER -> -1

\* sq_must_quote, quote_path_fully being 1.
MustQuote(c) == SqLookup(c) + 1 > 0

Octal(c) == <<48 + ((c \div 64) % 4), 48 + ((c \div 8) % 8), 48 + (c % 8)>>
\* Faulty: the backslash is no byte to be escaped.
EscapedNoBackslash(c) ==
  IF ~MustQuote(c) \/ c = Backslash THEN <<c>>
  ELSE <<Backslash>> \o (IF SqLookup(c) >= 32 THEN <<SqLookup(c)>> ELSE Octal(c))

Escaped(c) ==
  IF ~MustQuote(c) THEN <<c>>
  ELSE <<Backslash>> \o (IF SqLookup(c) >= 32 THEN <<SqLookup(c)>> ELSE Octal(c))

\* quote_c_style_counted: what it emits, and what it counts.
NeedsQuotes(name) == \E i \in DOMAIN name : MustQuote(name[i])
EscapedName(name) == FlattenSeq([i \in DOMAIN name |-> Escaped(name[i])])
CStyle(name, nodq) ==
  IF NeedsQuotes(name) /\ ~nodq
    THEN <<DoubleQuote>> \o EscapedName(name) \o <<DoubleQuote>>
    ELSE EscapedName(name)

TwoCStyle(prefix, path) ==
  IF NeedsQuotes(prefix) \/ NeedsQuotes(path)
    THEN <<DoubleQuote>> \o CStyle(prefix, TRUE) \o CStyle(path, TRUE) \o <<DoubleQuote>>
    ELSE prefix \o path

\* unquote_c_style: what it adds to the buffer up to the closing quote or
\* the first error.
UnescapeOf ==
  [c \in {97, 98, 102, 110, 114, 116, 118, Backslash, DoubleQuote} |->
     IF \E b \in DOMAIN LetterOf : LetterOf[b] = c
       THEN CHOOSE b \in DOMAIN LetterOf : LetterOf[b] = c ELSE c]
\* The round at a backslash, and the one anywhere.
UnescapeRound(q, i) ==
  CASE At(q, i + 1) \in DOMAIN UnescapeOf -> Round(UnescapeOf[At(q, i + 1)], i + 2)
    [] /\ At(q, i + 1) \in 48..51
       /\ At(q, i + 2) \in 48..55
       /\ At(q, i + 3) \in 48..55 ->
         Round((q[i + 1] - 48) * 64 + (q[i + 2] - 48) * 8 + q[i + 3] - 48, i + 4)
    [] OTHER -> LastRound(FALSE, 0)
UnquoteRound(q, i) ==
  CASE At(q, i) = DoubleQuote -> LastRound(TRUE, 0)
    [] At(q, i) = Nul -> LastRound(FALSE, 0)
    [] At(q, i) = Backslash -> UnescapeRound(q, i)
    [] OTHER -> Round(q[i], i + 1)
Unquoted(q) ==
  IF At(q, 1) # DoubleQuote THEN LastRound(FALSE, 0)
  ELSE Scanned([i \in 1..(Len(q) + 1) |-> UnquoteRound(q, i)], 2)
-----------------------------------------------------------------------------
\* Faulty: a quote within quotes stands for itself.
NeedBsQuoteBang(c) == c = Bang

\* sq_quote_buf and sq_quote_argv.
NeedBsQuote(c) == c \in {Quote, Bang}
SqQuoted(name) ==
  <<Quote>> \o FlattenSeq([i \in DOMAIN name |->
                             IF NeedBsQuote(name[i])
                               THEN <<Quote, Backslash, name[i], Quote>>
                               ELSE <<name[i]>>]) \o <<Quote>>
SqQuotedArgv(args) ==
  FlattenSeq([i \in DOMAIN args |-> <<Blank>> \o SqQuoted(args[i])])

\* sq_dequote_step at position i, within quotes; next is where the next
\* argument starts, 0 for the end.  A single argument has to end the text.
NextArg(q, i) ==
  CHOOSE j \in (i + 1)..(Len(q) + 1) : /\ At(q, j) \notin Spaces
                                       /\ \A k \in (i + 1)..(j - 1) : At(q, k) \in Spaces
OutOfQuotes(q, i, many) ==
  IF many /\ At(q, i) \in Spaces THEN LastRound(TRUE, NextArg(q, i))
  ELSE LastRound(FALSE, 0)
\* The round at a quote, and the one anywhere.
QuoteRound(q, i, many) ==
  CASE At(q, i + 1) = Nul -> LastRound(TRUE, 0)
    [] At(q, i + 1) = Backslash ->
         IF ~NeedBsQuote(At(q, i + 2)) THEN OutOfQuotes(q, i + 2, many)
         ELSE IF At(q, i + 3) = Quote THEN Round(q[i + 2], i + 4)
         ELSE OutOfQuotes(q, i + 3, many)
    [] OTHER -> OutOfQuotes(q, i + 1, many)
SqDequoteRound(q, i, many) ==
  CASE At(q, i) = Nul -> LastRound(FALSE, 0)
    [] At(q, i) = Quote -> QuoteRound(q, i, many)
    [] OTHER -> Round(q[i], i + 1)
SqDequotedStep(q, start, many) ==
  IF At(q, start) # Quote THEN LastRound(FALSE, 0)
  ELSE Scanned([i \in 1..(Len(q) + 1) |-> SqDequoteRound(q, i, many)], start + 1)

\* sq_dequote_to_argv.
SqDequotedArg(q, i) ==
  LET step == SqDequotedStep(q, i, TRUE)
  IN  [out |-> IF step.ok THEN <<step.out>> ELSE <<>>, then |-> step.next,
       ok |-> step.ok, next |-> 0]
SqDequotedArgv(q) ==
  IF q = <<>> THEN LastRound(TRUE, 0)
  ELSE Scanned([i \in 1..(Len(q) + 1) |-> SqDequotedArg(q, i)], 1)
-----------------------------------------------------------------------------
\* A step up for each slash.
StepsUp(dir) ==
  FlattenSeq([k \in DOMAIN dir |-> IF dir[k] = Slash THEN <<46, 46, Slash>> ELSE <<>>])
\* Faulty: a common part may end within a name.
PathRelativeWithin(in, prefix) ==
  LET off == CHOOSE n \in 0..Len(in) :
               /\ n <= Len(prefix) /\ SubSeq(in, 1, n) = SubSeq(prefix, 1, n)
               /\ n < Len(prefix) /\ n < Len(in) => in[n + 1] # prefix[n + 1]
  IN  StepsUp(SubSeq(prefix, off + 1, Len(prefix))) \o SubSeq(in, off + 1, Len(in))

\* path_relative: the common part ends at the last slash both have, and
\* each slash of the prefix behind what is equal is a step up.
PathRelative(in, prefix) ==
  LET i == CHOOSE n \in 0..Len(in) :
             /\ n <= Len(prefix) /\ SubSeq(in, 1, n) = SubSeq(prefix, 1, n)
             /\ n < Len(prefix) /\ n < Len(in) => in[n + 1] # prefix[n + 1]
      slashes == {k \in 1..i : prefix[k] = Slash}
      off == IF slashes = {} THEN 0 ELSE CHOOSE k \in slashes : \A l \in slashes : l <= k
  IN  StepsUp(SubSeq(prefix, i + 1, Len(prefix))) \o SubSeq(in, off + 1, Len(in))

-----------------------------------------------------------------------------
Writes(s, t) == sb' = s /\ call' = Call("add", 0, 0, t, 0) /\ UNCHANGED reading
Ready(t) == Idle /\ CanGrow(sb, Len(t))

QuoteCStyle(name) ==
  /\ Ready(CStyle(name, FALSE))
  /\ Writes(Emit(sb, CStyle(name, FALSE)), CStyle(name, FALSE))
  /\ quoted' = Quoted("c", name, <<>>, TRUE, CStyle(name, FALSE))

QuoteTwoCStyle(prefix, path) ==
  /\ Ready(TwoCStyle(prefix, path))
  /\ Writes(Emit(sb, TwoCStyle(prefix, path)), TwoCStyle(prefix, path))
  /\ quoted' = Quoted("two", prefix \o path, <<>>, TRUE, TwoCStyle(prefix, path))

\* Faulty: what was added before the error stays.
UnquoteCStylePartly(q) ==
  LET u == Unquoted(q)
  IN  /\ Ready(u.out)
      /\ Writes(Emit(sb, u.out), IF u.ok THEN u.out ELSE <<>>)
      /\ quoted' = Quoted("unquote", q, <<>>, u.ok, u.out)

\* On an error the buffer is cut back to the length it had.
UnquoteCStyle(q) ==
  LET u == Unquoted(q)
      s == Emit(sb, u.out)
  IN  /\ Ready(u.out)
      /\ IF u.ok THEN Writes(s, u.out) ELSE Writes(SetLen(s, sb.len), <<>>)
      /\ quoted' = Quoted("unquote", q, <<>>, u.ok, u.out)

\* sq_quote_argv dies as soon as the buffer is longer than maxlen.
SqQuoteArgv(args, maxlen) ==
  LET t == SqQuotedArgv(args)
  IN  /\ Ready(t) /\ CanGrow(sb, ArgvRoom)
      /\ IF maxlen > 0 /\ args # <<>> /\ sb.len + Len(t) > maxlen
           THEN /\ call' = Call("die", 0, 0, <<>>, 0)
                /\ UNCHANGED <<sb, reading, quoted>>
           ELSE /\ Writes(Emit(Grow(sb, ArgvRoom), t), t)
                /\ quoted' = Quoted("argv", args, <<>>, TRUE, t)

\* sq_dequote and sq_dequote_to_argv work in the text they are given.
SqDequote(q) ==
  LET step == SqDequotedStep(q, 1, FALSE)
  IN  /\ Idle
      /\ quoted' = Quoted("dequote", q, <<>>, step.ok, <<step.out>>)
      /\ UNCHANGED strbufVars

SqDequoteToArgv(q) ==
  LET r == SqDequotedArgv(q)
  IN  /\ Idle
      /\ quoted' = Quoted("dequote_argv", q, <<>>, r.ok, r.out)
      /\ UNCHANGED strbufVars

\* quote_path_relative empties the buffer first; "./" is the directory itself.
QuotePathRelative(in, prefix) ==
  LET rel == CStyle(PathRelative(in, prefix), FALSE)
      t == IF rel = <<>> THEN <<46, Slash>> ELSE rel
      s == Emit(SetLen(sb, 0), t)
  IN  /\ Ready(t)
      /\ sb' = s
      /\ call' = Call("attach", 0, 0, t, 0)
      /\ quoted' = Quoted("relative", in, prefix, TRUE, t)
      /\ UNCHANGED reading
-----------------------------------------------------------------------------
QuoteNext ==
  \/ \E name \in Names : QuoteCStyle(name) \/ \E path \in Names : QuoteTwoCStyle(name, path)
  \/ \E q \in Quotations : UnquoteCStyle(q)
  \/ \E args \in Lists, maxlen \in {0, MaxLen} : SqQuoteArgv(args, maxlen)
  \/ \E q \in ShellTexts : SqDequote(q) \/ SqDequoteToArgv(q)
  \/ \E in \in Files, prefix \in Directories : QuotePathRelative(in, prefix)

\* Calls of the quoting functions among all other uses of the buffer.
QuoteSpec ==
  /\ StrbufInit /\ quoted = NothingQuoted
  /\ [][(StrbufNext /\ UNCHANGED quoted) \/ QuoteNext]_quoteVars
=============================================================================
