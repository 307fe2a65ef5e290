----------------------------- MODULE StrbufApi -----------------------------
(***************************************************************************)
(* What a string buffer promises its callers: a text, and what each call   *)
(* makes of it, with nothing said of blocks, room and terminators.         *)
(***************************************************************************)
EXTENDS Naturals, Sequences, SequencesExt

CONSTANTS Spaces, Term

VARIABLES text, call

ApiInit == text = <<>> /\ call.op = "init"

Blank(t) == Range(t) \subseteq Spaces
Bare(t, left, right) ==
  t # <<>> => /\ left => t[1] \notin Spaces
              /\ right => t[Len(t)] \notin Spaces

(***************************************************************************)
(* A text without the blanks at the ends that are to be trimmed.           *)
(***************************************************************************)
TrimmedText(new, old, left, right) ==
  \E i \in 1..(Len(old) + 1), j \in 0..Len(old) :
    /\ i = 1 \/ left
    /\ j = Len(old) \/ right
    /\ new = SubSeq(old, i, j)
    /\ Blank(SubSeq(old, 1, i - 1)) /\ Blank(SubSeq(old, j + 1, Len(old)))
    /\ Bare(new, left, right)

(***************************************************************************)
(* The first line of what is left of a file.                               *)
(***************************************************************************)
FirstLine(line, file) ==
  /\ IsPrefix(line, file)
  /\ \A i \in 1..(Len(line) - 1) : line[i] # Term
  /\ line = file \/ (line # <<>> /\ line[Len(line)] = Term)

(***************************************************************************)
(* A text in pieces that end where the terminator of a line stands.        *)
(***************************************************************************)
InPieces(pieces, t) ==
  /\ FlattenSeq(pieces) = t
  /\ \A i \in DOMAIN pieces :
       /\ pieces[i] # <<>>
       /\ i < Len(pieces) => Last(pieces[i]) = Term
       /\ \A j \in 1..(Len(pieces[i]) - 1) : pieces[i][j] # Term

Meant(c, old, new) ==
  CASE c.op \in {"init", "release"} -> new = <<>>
    [] c.op = "detach" -> c.data = old /\ new = <<>>
    [] c.op = "attach" -> new = c.data
    [] c.op = "setlen" -> new = SubSeq(old, 1, c.n)
    [] c.op = "trim" -> TrimmedText(new, old, TRUE, TRUE)
    [] c.op = "ltrim" -> TrimmedText(new, old, TRUE, FALSE)
    [] c.op = "rtrim" -> TrimmedText(new, old, FALSE, TRUE)
    [] c.op = "splice" -> new = SubSeq(old, 1, c.pos) \o c.data
                                  \o SubSeq(old, c.pos + c.n + 1, Len(old))
    [] c.op \in {"add", "read"} ->
         new = old \o c.data /\ (c.op = "read" => c.ret = Len(c.data))
    [] c.op = "adddup" -> new = old \o SubSeq(old, c.pos + 1, c.pos + c.n)
    [] c.op \in {"feof", "readfails", "die"} -> new = old
    [] c.op = "eof" -> new = <<>> /\ c.data = <<>>
    [] c.op = "getwholeline" -> FirstLine(new, c.data)
    [] c.op = "getline" ->
         \E line \in {new, Append(new, Term)} :
           FirstLine(line, c.data) /\ \A i \in DOMAIN new : new[i] # Term
    [] c.op = "split" -> InPieces(c.data, old) /\ new = old
    [] OTHER -> FALSE

ApiNext == Meant(call', text, text')

ApiSpec == ApiInit /\ [][ApiNext]_<<text, call>>
=============================================================================
