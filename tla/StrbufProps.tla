---------------------------- MODULE StrbufProps ----------------------------
(***************************************************************************)
(* What callers of a strbuf rely on.                                       *)
(***************************************************************************)
EXTENDS Strbuf

(***************************************************************************)
(* The buffer is well-formed: its block has alloc cells and room for the   *)
(* terminator behind the text, or there is neither block nor text.  Every  *)
(* function of strbuf.c writes buf[len] on the strength of this.  And      *)
(* strbuf_read never asks xread for no bytes at all: the 0 it gives back   *)
(* would pass for the end of the file and the rest would be missing.       *)
(***************************************************************************)
WellFormed(s) ==
  /\ s.alloc \in Nat /\ s.len \in Nat
  /\ \/ s.alloc = 0 /\ s.len = 0 /\ s.buf \in [0..0 -> Cells]
     \/ s.len < s.alloc /\ s.buf \in [0..(s.alloc - 1) -> Cells]
StrbufTypeOK ==
  /\ WellFormed(sb)
  /\ reading.on \in BOOLEAN /\ reading.fresh \in BOOLEAN
  /\ reading.oldlen \in Nat /\ reading.got \in Seq(Bytes)
  /\ reading.on => Avail(sb) > 0

(***************************************************************************)
(* "People can always assume buf is non NULL and ->buf is NUL terminated"  *)
(* (strbuf.c).  A terminated buffer stays so, but for two calls that make  *)
(* a buffer grow that never grew and then write nothing: a strbuf_getline  *)
(* that finds the end of file flag set, and sq_quote_argv of no arguments. *)
(***************************************************************************)
Terminated == reading.on \/ sb.buf[sb.len] = Nul
TerminatorStays ==
  [][Terminated /\ ~Terminated' =>
       /\ sb.alloc = 0 /\ sb'.len = 0
       /\ call'.op \in {"feof", "add"} /\ call'.data = <<>>]_strbufVars

(***************************************************************************)
(* The buffer does what its callers are promised, call by call; the text   *)
(* of a read under way is the one before it.                               *)
(***************************************************************************)
Api == INSTANCE StrbufApi WITH
  text <- IF reading.on THEN SubSeq(Text(sb), 1, reading.oldlen) ELSE Text(sb)
ImplementsApi == Api!ApiSpec
=============================================================================
