---------------------------- MODULE MCSequential ----------------------------
(***************************************************************************)
(* The parts of the program that share no state, as one instance for TLC:  *)
(* in each behaviour one of them runs, and the others stay as they are.    *)
(***************************************************************************)
EXTENDS MCInput, MCStrbuf, GraphRender

MCInit ==
  \/ Init /\ DateStill /\ TextInit /\ GraphInit
  \/ InputStill /\ DateInit /\ TextInit /\ GraphInit
  \/ InputStill /\ DateStill /\ TextInit /\ GraphInit

ParseSome == Next /\ UNCHANGED <<dateVars, quoteVars, graphVars>>
ReadDate == DateNext /\ UNCHANGED <<vars, quoteVars, graphVars>>
EditText == TextNext /\ UNCHANGED <<vars, dateVars, graphVars>>
DrawSome == GraphNext /\ UNCHANGED <<vars, dateVars, quoteVars>>

allVars == <<vars, dateVars, quoteVars, graphVars>>
\* Nothing was done by one of the others.
NoInput == InputStill /\ DateStill
NoText == TextInit
NoGraph == graph = <<>> /\ ~stopped

MCNext ==
  \/ ParseSome \/ ReadDate
  \/ NoInput /\ NoGraph /\ EditText
  \/ NoInput /\ NoText /\ DrawSome
MCSpec == MCInit /\ [][MCNext]_allVars
=============================================================================
