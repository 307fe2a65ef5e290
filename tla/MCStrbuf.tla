------------------------------ MODULE MCStrbuf ------------------------------
(***************************************************************************)
(* Small instances of Strbuf and Quote for TLC.                            *)
(***************************************************************************)
EXTENDS QuoteProps

Strings(chars, n) == UNION {[1..k -> chars] : k \in 0..n}

\* a, blank, newline
Texts == Strings({97, 32, 10}, 2)
AllBytes == 1..255
Blanks == {32, 10}

\* a, quotation mark, backslash, newline, a byte above 127, n, 1
SomeNames == Strings({97, 34, 92, 10, 200, 49}, 2)
\* quotation mark, backslash, 1, n
SomeQuotations == {<<34>> \o t : t \in Strings({34, 92, 49, 110}, 5)} \cup {<<>>, <<97>>}
\* a, quote, exclamation mark, backslash, blank
ShellNames == Strings({97, 39, 33, 92, 32}, 2)
SomeLists == {<<>>} \cup [1..1 -> ShellNames] \cup [1..2 -> ShellNames]
SomeShellTexts == Strings({97, 39, 33, 92, 32}, 5)
\* a, ab, b, separated by slashes, with or without one at the end
Components == {<<97>>, <<97, 98>>, <<98>>}
Dirs == {n \o <<47>> : n \in Components}
DeepDirs == {m \o n : m, n \in Dirs}
SomePrefixes == {<<>>} \cup Dirs \cup DeepDirs
SomeFiles ==
  {p \o n : p \in SomePrefixes, n \in Components} \cup Dirs \cup DeepDirs
  \cup {<<34>>, <<97, 47, 34>>} \* a name that has to be quoted

(***************************************************************************)
(* Names are quoted into a buffer that is empty or holds a byte; nothing   *)
(* is done to the buffer after that.                                       *)
(***************************************************************************)
TextInit ==
  /\ StrbufInit
  /\ quoted = NothingQuoted
TextNext ==
  /\ quoted = NothingQuoted
  /\ \/ StrbufNext /\ UNCHANGED quoted
     \/ /\ \/ call = Call("init", 0, 0, <<>>, 0)
           \/ call = Call("add", 0, 0, <<97>>, 0) /\ sb = AddTo(Fresh, <<97>>)
        /\ QuoteNext
=============================================================================
