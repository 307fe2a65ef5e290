-------------------------------- MODULE Cli --------------------------------
(***************************************************************************)
(* The option parsers of add, branch, config, merge, pull and submodule.   *)
(* They are generated from one description per command: parse_cli_simple   *)
(* walks the arguments and notes which command each option came after,     *)
(* validate_cli then decides which usage was meant and fills its fields.   *)
(***************************************************************************)
EXTENDS Naturals, Sequences, FiniteSets, Ranking

CONSTANTS
  Tools,      \* the commands whose parser is looked at
  Words,      \* what else is typed, besides what the parser knows
  MaxArgs     \* bound: arguments after the name of the command

VARIABLES
  tool,       \* whose parser it is
  argv,       \* its arguments, the name of the command first
  next,       \* the position of the argument to be parsed
  given,      \* the options and commands seen so far
  after,      \* the command each option was seen after; 0 if not given
  current,    \* the command seen last
  words,      \* the positional arguments
  upstream,   \* the value of branch's upstream command; "" if not given
  fields,     \* the arguments handed to the handler
  verdict     \* "parsing", "usage" (--help), "refused" or "accepted"

vars == <<tool, argv, next, given, after, current, words, upstream, fields,
          verdict>>

-----------------------------------------------------------------------------
(***************************************************************************)
(* The descriptions.  Commands are numbered from 2 on; every option        *)
(* belongs to command 2, as do the positional arguments.  The parser of    *)
(* branch compares 16 characters of --set-upstream-to, which has 17: what  *)
(* it knows is --set-upstream-t, the value following or attached.  Here    *)
(* the value that is attached is "w".                                      *)
(***************************************************************************)
SetUpstream == "--set-upstream-t"
SetUpstreamAttached == "--set-upstream-t=w"
UpstreamCommands ==
  {"--unset-upstream", SetUpstream, SetUpstreamAttached}

Plain(name, flags, required, positions) ==
  [commands |-> [c \in {name} |-> 2], flags |-> flags, exclusive |-> FALSE,
   required |-> required, positions |-> positions, variadic |-> FALSE]
Parsers == [
  add |-> [Plain("add", {"-A"}, 0, 0) EXCEPT !.variadic = TRUE],
  branch |-> [Plain("branch", {"-r", "-a"}, 0, 1) EXCEPT
                !.commands = [c \in {"branch"} \cup UpstreamCommands |->
                                IF c = "branch" THEN 2
                                ELSE IF c = "--unset-upstream" THEN 3 ELSE 4],
                !.exclusive = TRUE],
  config |-> Plain("config", {"--global"}, 1, 2),
  merge |-> Plain("merge", {"--no-commit", "--ff-only", "--no-ff"}, 1, 1),
  pull |-> Plain("pull", {"--ff-only"}, 2, 2),
  submodule |-> [Plain("init", {}, 0, 0) EXCEPT
                   !.commands = [c \in {"init", "update"} |->
                                   IF c = "init" THEN 2 ELSE 3]] ]

Parser == Parsers[tool]
Commands(p) == DOMAIN p.commands
Known(p) == {"--help"} \cup p.flags \cup Commands(p)
Tokens(p) == Known(p) \cup Words

ASSUME CliAssumption == Tools \subseteq DOMAIN Parsers /\ MaxArgs \in Nat

\* The upstream commands do nothing by themselves, they go with "branch".
Entries(p) == Commands(p) \ UpstreamCommands

Init ==
  /\ tool \in Tools
  /\ \E n \in 0..MaxArgs : \E args \in [1..n -> Tokens(Parsers[tool])] :
       argv = <<tool>> \o args
  /\ next = 1
  /\ given = {}
  /\ after = [f \in Parsers[tool].flags |-> 0]
  /\ current = 1
  /\ words = <<>>
  /\ upstream = ""
  /\ fields = <<>>
  /\ verdict = "parsing"

-----------------------------------------------------------------------------
Arg == argv[next]
Parsing == verdict = "parsing" /\ next <= Len(argv)
See(t) == given' = given \cup {t} /\ next' = next + 1

Help ==
  /\ Parsing /\ Arg = "--help"
  /\ See(Arg)
  /\ UNCHANGED <<tool, argv, after, current, words, upstream, fields, verdict>>

\* Faulty: the position of the option is noted in place of the command.
FlagAtPosition ==
  /\ Parsing /\ Arg \in Parser.flags
  /\ See(Arg)
  /\ after' = [after EXCEPT ![Arg] = next]
  /\ UNCHANGED <<tool, argv, current, words, upstream, fields, verdict>>

Flag ==
  /\ Parsing /\ Arg \in Parser.flags
  /\ See(Arg)
  /\ after' = [after EXCEPT ![Arg] = current]
  /\ UNCHANGED <<tool, argv, current, words, upstream, fields, verdict>>

\* --set-upstream-t takes the next argument, whatever it is.
Command ==
  /\ Parsing /\ Arg \in Commands(Parser)
  /\ given' = given \cup {Arg}
  /\ current' = Parser.commands[Arg]
  /\ next' = IF Arg = SetUpstream THEN next + 2 ELSE next + 1
  /\ upstream' = IF Arg = SetUpstream /\ next < Len(argv) THEN argv[next + 1]
                 ELSE IF Arg = SetUpstreamAttached THEN "w" ELSE upstream
  /\ verdict' = IF next' > Len(argv) + 1 THEN "refused" ELSE verdict
  /\ UNCHANGED <<tool, argv, after, words, fields>>

IsWord == Parsing /\ Arg \notin Known(Parser)

Positional ==
  /\ IsWord
  /\ current = 2 /\ Len(words) < Parser.positions
  /\ words' = Append(words, Arg)
  /\ next' = next + 1
  /\ UNCHANGED <<tool, argv, given, after, current, upstream, fields, verdict>>

\* The rest of the arguments, options among them.
Variadic ==
  /\ IsWord
  /\ current = 2 /\ Parser.variadic
  /\ words' = SubSeq(argv, next, Len(argv))
  /\ next' = Len(argv) + 1
  /\ UNCHANGED <<tool, argv, given, after, current, upstream, fields, verdict>>

Unknown ==
  /\ IsWord
  /\ ~(current = 2 /\ (Len(words) < Parser.positions \/ Parser.variadic))
  /\ verdict' = "refused"
  /\ UNCHANGED <<tool, argv, next, given, after, current, words, upstream, fields>>

\* Faulty: nobody counts the arguments, or the options that exclude another.
EnoughUncounted == given \cap Entries(Parser) # {}

Enough ==
  /\ \A f \in Parser.flags : after[f] \in {0, 2}
  /\ Parser.exclusive => Cardinality(given \cap Parser.flags) <= 1
  /\ given \cap Entries(Parser) # {}
  /\ Len(words) >= Parser.required

Validate ==
  /\ verdict = "parsing" /\ next > Len(argv)
  /\ IF "--help" \in given THEN verdict' = "usage" /\ UNCHANGED fields
     ELSE IF ~Enough THEN verdict' = "refused" /\ UNCHANGED fields
     ELSE /\ verdict' = "accepted"
          /\ fields' = IF given \cap Commands(Parser) \subseteq Entries(Parser)
                         THEN words ELSE <<>>
  /\ UNCHANGED <<tool, argv, next, given, after, current, words, upstream>>

Next ==
  \/ Help \/ Flag \/ Command \/ Positional \/ Variadic \/ Unknown
  \/ Validate

Spec == Init /\ [][Next]_vars

-----------------------------------------------------------------------------
(***************************************************************************)
(* What was typed, by its spelling alone: an argument is a word if the     *)
(* parser knows no option and no command of that name.  From the first     *)
(* word on, add takes everything for words.                                *)
(***************************************************************************)
WordPlaces ==
  {i \in DOMAIN argv :
     \E j \in IF Parser.variadic THEN 1..i ELSE {i} : argv[j] \notin Known(Parser)}
Options == {argv[i] : i \in DOMAIN argv \ WordPlaces}
Arguments ==
  [k \in 1..Cardinality(WordPlaces) |-> argv[Kth(WordPlaces, k)]]

\* A usage with as many arguments and as few options as usage_cli prints.
\* The options may stand anywhere behind the name, and be repeated.
IsUsage ==
  /\ tool \in Options /\ "--help" \notin Options
  /\ Parser.exclusive => Cardinality(Options \cap Parser.flags) <= 1
  /\ Cardinality(WordPlaces) >= Parser.required
  /\ Parser.variadic \/ Cardinality(WordPlaces) <= Parser.positions

(***************************************************************************)
(* A command accepts (validate_cli) what is one of its usages by the       *)
(* spelling, and it accepts nothing else; its handler gets the options and *)
(* the arguments that were typed, in their order.  An argument spelt like  *)
(* the command is none: merge refuses to merge a branch of this name.      *)
(* submodule knows only init and update, but not its own name, which       *)
(* handlers are called with: it refuses everything.                        *)
(***************************************************************************)
Ordinary ==
  \A i \in DOMAIN argv : argv[i] \in Commands(Parser) => argv[i] \in Entries(Parser)
UsagesAccepted ==
  verdict # "parsing" /\ Ordinary =>
    /\ verdict = "accepted" <=> IsUsage
    /\ verdict = "accepted" => given = Options /\ fields = Arguments

(***************************************************************************)
(* The upstream commands of branch, in the spelling its parser has for     *)
(* them: accepted, and the upstream is what stands behind, whatever it is. *)
(***************************************************************************)
UpstreamTyped ==
  /\ tool = "branch" /\ Len(argv) > 1
  /\ \/ argv[2] \in {"--unset-upstream", SetUpstreamAttached} /\ Len(argv) = 2
     \/ argv[2] = SetUpstream /\ Len(argv) = 3
UpstreamAccepted ==
  verdict # "parsing" /\ UpstreamTyped =>
    /\ verdict = "accepted" /\ given = {argv[1], argv[2]} /\ fields = <<>>
    /\ argv[2] = SetUpstream => upstream = argv[3]
    /\ argv[2] = SetUpstreamAttached => upstream = "w"

(***************************************************************************)
(* Both: the parsers accept what is spelt like a usage, and nothing else.  *)
(***************************************************************************)
AcceptedAsSpelt == UsagesAccepted /\ UpstreamAccepted

(***************************************************************************)
(* branch prints the usage "branch --set-upstream-to=<upstream>"           *)
(* (usage_cli), so what is typed like this should set the upstream.  It    *)
(* does not: the parser takes the option for the name of a branch.         *)
(***************************************************************************)
UpstreamAsPrinted ==
  verdict # "parsing" /\ argv = <<"branch", "--set-upstream-to=w">> =>
    verdict = "accepted" /\ upstream = "w"
=============================================================================
