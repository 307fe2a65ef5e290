----------------------------- MODULE QuoteProps -----------------------------
(***************************************************************************)
(* What readers of quoted names rely on.                                   *)
(***************************************************************************)
EXTENDS Quote, StrbufProps

InQuotes(t) == t # <<>> /\ t[1] = DoubleQuote
Printable(c) == c \in 32..126

(***************************************************************************)
(* A name quoted in C style is one line of printable bytes that reads back *)
(* as the same name, so different names never print alike; a prefix and a  *)
(* path quoted together read back as the path they make.  The listings of  *)
(* ls-files and ls-tree are taken apart again by lines.                    *)
(***************************************************************************)
CStyleReadsBack ==
  quoted.fn \in {"c", "two"} =>
    LET t == quoted.gives
        read == Unquoted(t)
    IN  /\ IF InQuotes(t) THEN read.ok /\ read.out = quoted.of ELSE t = quoted.of
        /\ \A i \in DOMAIN t : Printable(t[i])

(***************************************************************************)
(* "Returns -1 in case of error, and doesn't touch the strbuf": what was   *)
(* unquoted before the error is taken back, whatever the buffer held.      *)
(***************************************************************************)
UnquoteUndone ==
  [][quoted' # quoted /\ quoted'.fn = "unquote" /\ ~quoted'.ok =>
       Text(sb') = Text(sb) /\ Terminated']_quoteVars

(***************************************************************************)
(* Arguments quoted for the shell come back one by one, blanks, quotes and *)
(* exclamation marks included; and a single text is unwrapped only if it   *)
(* is what sq_quote would have made of the result (exclamation marks may   *)
(* stand unquoted).                                                        *)
(***************************************************************************)
ShellReadsBack ==
  /\ quoted.fn = "argv" /\ quoted.of # <<>> =>
       LET read == SqDequotedArgv(Tail(quoted.gives))
       IN  read.ok /\ read.out = quoted.of
  /\ quoted.fn = "dequote" /\ quoted.ok /\ Bang \notin Range(quoted.of) =>
       quoted.of = SqQuoted(quoted.gives[1])

(***************************************************************************)
(* Following a path byte by byte: dir is the list of names of the          *)
(* directory reached, name what was read since the last slash.             *)
(***************************************************************************)
Here == <<46>>
Above == <<46, 46>>
Enter(dir, name) ==
  CASE name = Above -> Front(dir)
    [] name \in {<<>>, Here} -> dir
    [] OTHER -> Append(dir, name)
In(dir, name) == [dir |-> dir, name |-> name]
Onward(at, c) ==
  IF c = Slash THEN In(Enter(at.dir, at.name), <<>>)
  ELSE In(at.dir, Append(at.name, c))
Walked(at, t) ==
  LET After[k \in 0..Len(t)] == IF k = 0 THEN at ELSE Onward(After[k - 1], t[k])
  IN  After[Len(t)]
LeadsTo(dir, t) ==
  LET at == Walked(In(dir, <<>>), t)
  IN  Enter(at.dir, at.name)

(***************************************************************************)
(* A directory that paths are given relative to is one of the index, seen  *)
(* from the top of the work tree: none of its names is empty, or "." or    *)
(* "..", and it comes with its slash.  The paths may be any.               *)
(***************************************************************************)
NameAt(t, i, j) ==
  /\ i = 1 \/ t[i - 1] = Slash
  /\ j = Len(t) \/ t[j + 1] = Slash
  /\ \A k \in i..j : t[k] # Slash
Clean(t) ==
  \A i \in DOMAIN t : \A j \in (i - 1)..Len(t) :
    NameAt(t, i, j) => SubSeq(t, i, j) \notin {<<>>, Here, Above}
ASSUME DirectoriesAreClean ==
  \A t \in Directories : Clean(t) /\ (t # <<>> => t[Len(t)] = Slash)

(***************************************************************************)
(* A path given relative to a directory, and read back if it is in quotes, *)
(* leads from that directory to where the path leads from the top, also    *)
(* when names only start alike or one is below the other.                  *)
(***************************************************************************)
RelativeLeadsBack ==
  quoted.fn = "relative" =>
    LET read == Unquoted(quoted.gives)
        t == IF InQuotes(quoted.gives) THEN read.out ELSE quoted.gives
    IN  /\ InQuotes(quoted.gives) => read.ok
        /\ LeadsTo(LeadsTo(<<>>, quoted.with), t) = LeadsTo(<<>>, quoted.of)
=============================================================================
