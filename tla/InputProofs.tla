---------------------------- MODULE InputProofs ----------------------------
(***************************************************************************)
(* Theorems about what a user types: the option parsers, for any number of *)
(* arguments and any words.                                                *)
(***************************************************************************)
EXTENDS Cli, DateProps, RankingProofs, SequenceTheorems

-----------------------------------------------------------------------------
(***************************************************************************)
(* The words passed so far: at the places W of a, those below n.           *)
(***************************************************************************)
Taken(W, a, n, w) ==
  /\ Len(w) = Rank(W, n)
  /\ \A i \in W : i < n => w[Rank(W, i) + 1] = a[i]

LEMMA RankSkips ==
  ASSUME NEW W \in SUBSET Nat, NEW n \in Nat, n \notin W
  PROVE  Rank(W, n + 1) = Rank(W, n)
<1>1. {m \in W : m < n + 1} = {m \in W : m < n}
  <2>1. ASSUME NEW m \in W
        PROVE  m < n + 1 <=> m < n
    <3>1. m \in Nat /\ m # n
      OBVIOUS
    <3> QED
      BY <3>1
  <2> QED
    BY <2>1
<1> QED
  BY <1>1 DEF Rank

LEMMA RankCounts ==
  ASSUME NEW W \in SUBSET Nat, IsFiniteSet(W), NEW n \in W
  PROVE  Rank(W, n + 1) = Rank(W, n) + 1
<1> DEFINE low == {m \in W : m < n}
<1>1. IsFiniteSet(low) /\ n \notin low
  BY RankType
<1>2. {m \in W : m < n + 1} = low \cup {n}
  <2>1. ASSUME NEW m \in W
        PROVE  m < n + 1 <=> m < n \/ m = n
    <3>1. m \in Nat /\ n \in Nat
      OBVIOUS
    <3> QED
      BY <3>1
  <2> QED
    BY <2>1
<1>3. Rank(W, n) = Cardinality(low) /\ Rank(W, n + 1) = Cardinality(low \cup {n})
  BY <1>2 DEF Rank
<1> HIDE DEF low
<1> QED
  BY <1>1, <1>3, FS_AddElement

LEMMA RankOfAll ==
  ASSUME NEW n \in Nat, NEW W \in SUBSET (1..n)
  PROVE  Rank(W, n + 1) = Cardinality(W)
<1>1. {m \in W : m < n + 1} = W
  <2>1. ASSUME NEW m \in W
        PROVE  m < n + 1
    <3>1. m \in 1..n
      OBVIOUS
    <3> QED
      BY <3>1
  <2> QED
    BY <2>1
<1> QED
  BY <1>1 DEF Rank

LEMMA RankFromStart ==
  ASSUME NEW n \in Nat, NEW W \in SUBSET (1..n)
  PROVE  Rank(W, 1) = 0
<1>1. {m \in W : m < 1} = {}
  <2>1. ASSUME NEW m \in W
        PROVE  ~(m < 1)
    <3>1. m \in 1..n
      OBVIOUS
    <3> QED
      BY <3>1
  <2> QED
    BY <2>1
<1> QED
  BY <1>1, FS_EmptySet DEF Rank

LEMMA TakenSkips ==
  ASSUME NEW W \in SUBSET Nat, NEW n \in Nat, n \notin W, NEW a, NEW w,
         Taken(W, a, n, w)
  PROVE  Taken(W, a, n + 1, w)
<1>1. \A i \in W : i < n + 1 => i < n
  OBVIOUS
<1> QED
  BY <1>1, RankSkips DEF Taken

LEMMA TakenNext ==
  ASSUME NEW W \in SUBSET Nat, IsFiniteSet(W), NEW n \in W, NEW a, NEW T,
         NEW w \in Seq(T), a[n] \in T, Taken(W, a, n, w)
  PROVE  Taken(W, a, n + 1, Append(w, a[n]))
<1> DEFINE v == Append(w, a[n])
<1>1. /\ Len(v) = Len(w) + 1 /\ v[Len(w) + 1] = a[n]
      /\ \A k \in 1..Len(w) : v[k] = w[k]
  BY AppendProperties
<1> HIDE DEF v
<1>2. Len(v) = Rank(W, n + 1)
  BY <1>1, RankCounts DEF Taken
<1>3. ASSUME NEW i \in W, i < n + 1
      PROVE  v[Rank(W, i) + 1] = a[i]
  <2>1. CASE i = n
    BY <1>1, <2>1 DEF Taken
  <2>2. CASE i < n
    <3>1. Rank(W, i) \in Nat /\ Rank(W, i) + 1 <= Rank(W, n)
      BY <2>2, RankGrows, RankType
    <3>2. Rank(W, i) + 1 \in 1..Len(w) /\ w[Rank(W, i) + 1] = a[i]
      BY <2>2, <3>1, RankType DEF Taken
    <3> QED
      BY <1>1, <3>2
  <2> QED
    BY <1>3, <2>1, <2>2
<1> QED
  BY <1>2, <1>3 DEF Taken, v

\* The rest of the arguments, when no word was passed before.
LEMMA TakenRest ==
  ASSUME NEW a, NEW L \in Nat, NEW n \in 1..L, NEW T, \A i \in n..L : a[i] \in T
  PROVE  Taken(n..L, a, L + 1, SubSeq(a, n, L))
<1> DEFINE W == n..L
           v == SubSeq(a, n, L)
<1>1. /\ Len(v) = L - n + 1
      /\ \A k \in 1..(L - n + 1) : v[k] = a[n + k - 1]
  BY SubSeqProperties
<1>2. ASSUME NEW i \in n..(L + 1)
      PROVE  Rank(W, i) = i - n
  <2>1. {m \in W : m < i} = n..(i - 1)
    OBVIOUS
  <2>2. Cardinality(n..(i - 1)) = i - n
    BY FS_Interval
  <2> QED
    BY <2>1, <2>2 DEF Rank
<1> HIDE DEF v
<1>3. Len(v) = Rank(W, L + 1)
  BY <1>1, <1>2
<1>4. ASSUME NEW i \in W
      PROVE  v[Rank(W, i) + 1] = a[i]
  <2>1. Rank(W, i) + 1 \in 1..(L - n + 1) /\ n + (Rank(W, i) + 1) - 1 = i
    BY <1>2
  <2> QED
    BY <1>1, <2>1
<1> QED
  BY <1>3, <1>4 DEF Taken, v

\* In the end these are the words in their order.
LEMMA TakenAll ==
  ASSUME NEW a, NEW L \in Nat, NEW W \in SUBSET (1..L), NEW T, NEW w \in Seq(T),
         Taken(W, a, L + 1, w)
  PROVE  w = [k \in 1..Cardinality(W) |-> a[Kth(W, k)]]
<1>1. IsFiniteSet(W) /\ W \in SUBSET Nat
  <2>1. IsFiniteSet(1..L)
    BY FS_Interval
  <2>2. 1..L \in SUBSET Nat
    OBVIOUS
  <2> QED
    BY <2>1, <2>2, FS_Subset
<1>2. Len(w) = Cardinality(W)
  BY RankOfAll DEF Taken
<1>3. ASSUME NEW k \in 1..Cardinality(W)
      PROVE  w[k] = a[Kth(W, k)]
  <2>1. PICK i \in W : i = Kth(W, k) /\ Rank(W, i) = k - 1
    BY <1>1, KthIs
  <2>2. Rank(W, i) + 1 = k /\ i < L + 1
    BY <1>1, <2>1, FS_CardinalityType
  <2> QED
    BY <2>1, <2>2 DEF Taken
<1>4. w = [k \in 1..Len(w) |-> w[k]]
  BY LenProperties
<1> QED
  BY <1>2, <1>3, <1>4

-----------------------------------------------------------------------------
(***************************************************************************)
(* The descriptions.  What the proofs use of a description p of the        *)
(* command t: submodule is not one of its own commands, the others are.    *)
(***************************************************************************)
Described(p, t) ==
  /\ t \in Entries(p) /\ \A c \in Entries(p) : p.commands[c] = 2
  /\ "--help" \notin p.flags \cup Commands(p)
  /\ p.flags \cap Commands(p) = {}
  /\ SetUpstream \notin Entries(p)
  /\ p.required \in Nat /\ p.positions \in Nat
  /\ p.exclusive \in BOOLEAN /\ p.variadic \in BOOLEAN
  /\ p.variadic => p.positions = 0
  /\ t = "branch" => UpstreamCommands \subseteq Commands(p) /\ p.required = 0
Foreign(p, t) ==
  /\ t \notin Known(p)
  /\ ~p.variadic /\ p.flags = {} /\ t # "branch"

LEMMA PlainDescribed ==
  ASSUME NEW t, NEW fs, NEW r \in Nat, NEW n \in Nat, t \notin fs, "--help" \notin fs,
         t # "--help", t \notin UpstreamCommands, t # "branch"
  PROVE  Described(Plain(t, fs, r, n), t)
  BY DEF Described, Entries, Commands, Plain, UpstreamCommands

LEMMA ToolsDescribed ==
  ASSUME NEW t \in Tools
  PROVE  Described(Parsers[t], t) \/ Foreign(Parsers[t], t)
<1>1. t \in {"add", "branch", "config", "merge", "pull", "submodule"}
  BY CliAssumption DEF Parsers
<1>2. \A s \in {"add", "branch", "config", "merge", "pull"} : s \notin UpstreamCommands
  BY DEF UpstreamCommands, SetUpstream, SetUpstreamAttached
<1>3. CASE t = "config" \/ t = "merge" \/ t = "pull"
  <2>1. /\ Parsers["config"] = Plain("config", {"--global"}, 1, 2)
        /\ Parsers["merge"] = Plain("merge", {"--no-commit", "--ff-only", "--no-ff"}, 1, 1)
        /\ Parsers["pull"] = Plain("pull", {"--ff-only"}, 2, 2)
    BY DEF Parsers
  <2>2. /\ Described(Plain("config", {"--global"}, 1, 2), "config")
        /\ Described(Plain("merge", {"--no-commit", "--ff-only", "--no-ff"}, 1, 1), "merge")
        /\ Described(Plain("pull", {"--ff-only"}, 2, 2), "pull")
    BY <1>2, PlainDescribed
  <2> QED
    BY <1>3, <2>1, <2>2
<1>4. CASE t = "add"
  <2>1. Parsers["add"] =
          [commands |-> [c \in {"add"} |-> 2], flags |-> {"-A"}, exclusive |-> FALSE,
           required |-> 0, positions |-> 0, variadic |-> TRUE]
    BY DEF Parsers, Plain
  <2> QED
    BY <1>2, <1>4, <2>1 DEF Described, Entries, Commands, UpstreamCommands
<1>5. CASE t = "branch"
  <2> DEFINE cs == [c \in {"branch"} \cup UpstreamCommands |->
                      IF c = "branch" THEN 2
                      ELSE IF c = "--unset-upstream" THEN 3 ELSE 4]
  <2>1. Parsers["branch"] =
          [commands |-> cs, flags |-> {"-r", "-a"}, exclusive |-> TRUE,
           required |-> 0, positions |-> 1, variadic |-> FALSE]
    BY DEF Parsers, Plain
  <2>2. DOMAIN cs = {"branch"} \cup UpstreamCommands /\ cs["branch"] = 2
    OBVIOUS
  <2> HIDE DEF cs
  <2>3. /\ "--help" \notin {"branch"} \cup UpstreamCommands
        /\ {"-r", "-a"} \cap ({"branch"} \cup UpstreamCommands) = {}
        /\ SetUpstream \in UpstreamCommands
    BY DEF UpstreamCommands, SetUpstream, SetUpstreamAttached
  <2> QED
    BY <1>2, <1>5, <2>1, <2>2, <2>3 DEF Described, Entries, Commands
<1>6. CASE t = "submodule"
  <2>1. Parsers["submodule"] =
          [commands |-> [c \in {"init", "update"} |-> IF c = "init" THEN 2 ELSE 3],
           flags |-> {}, exclusive |-> FALSE, required |-> 0, positions |-> 0,
           variadic |-> FALSE]
    BY DEF Parsers, Plain
  <2> QED
    BY <1>6, <2>1 DEF Foreign, Known, Commands
<1> QED
  BY <1>1, <1>3, <1>4, <1>5, <1>6

-----------------------------------------------------------------------------
(***************************************************************************)
(* A parser under way.  In an ordinary list of arguments the options       *)
(* passed are in given and the words passed in words, in their order; in   *)
(* one of the upstream commands of branch the value is in upstream as soon *)
(* as it is passed; and submodule has not got past its first argument.     *)
(***************************************************************************)
Tok == Tokens(Parser) \cup {tool}
Passed == {argv[i] : i \in {j \in DOMAIN argv \ WordPlaces : j < next}}
AsSpelt ==
  /\ next <= Len(argv) + 1
  /\ next > 1 => current = 2
  /\ after \in [Parser.flags -> {0, 2}]
  /\ given = Passed
  /\ words \in Seq(Tok) /\ Taken(WordPlaces, argv, next, words)
  /\ Parser.variadic => words = <<>> \/ next > Len(argv)
  /\ Parser.variadic \/ Len(words) <= Parser.positions
  /\ verdict \in {"refused", "usage"} => ~IsUsage
  /\ verdict = "accepted" => IsUsage /\ next = Len(argv) + 1 /\ fields = words

AsUpstream ==
  /\ next \in {1, 2, Len(argv) + 1}
  /\ given = {argv[i] : i \in {j \in {1, 2} : j < next}}
  /\ after \in [Parser.flags -> {0, 2}]
  /\ words = <<>>
  /\ next > 2 => /\ argv[2] = SetUpstream => upstream = argv[3]
                 /\ argv[2] = SetUpstreamAttached => upstream = "w"
  /\ verdict \in {"parsing", "accepted"}
  /\ verdict = "accepted" => next > Len(argv) /\ fields = <<>>

Knows == tool \in Known(Parser)
CliInv ==
  /\ tool \in Tools
  /\ argv \in Seq(Tok) /\ Len(argv) >= 1 /\ argv[1] = tool
  /\ next \in Nat \ {0}
  /\ verdict \in {"parsing", "usage", "refused", "accepted"}
  /\ Knows /\ Ordinary => AsSpelt
  /\ Knows /\ UpstreamTyped => AsUpstream
  /\ ~Knows => next = 1 /\ current = 1 /\ verdict \in {"parsing", "refused"}

LEMMA ParserIs ==
  ASSUME CliInv
  PROVE  IF Knows THEN Described(Parser, tool) ELSE Foreign(Parser, tool)
<1>1. Described(Parser, tool) \/ Foreign(Parser, tool)
  BY ToolsDescribed DEF CliInv, Parser
<1> QED
  BY <1>1 DEF Knows, Described, Foreign, Known, Entries

LEMMA Places ==
  ASSUME CliInv
  PROVE  /\ Len(argv) \in Nat /\ DOMAIN argv = 1..Len(argv)
         /\ WordPlaces \in SUBSET (1..Len(argv)) /\ WordPlaces \in SUBSET Nat
         /\ IsFiniteSet(WordPlaces)
         /\ \A i \in 1..Len(argv) : argv[i] \in Tok
<1>1. argv \in Seq(Tok)
  BY DEF CliInv
<1>2. Len(argv) \in Nat /\ DOMAIN argv = 1..Len(argv)
  BY <1>1, LenProperties
<1>3. WordPlaces \in SUBSET (1..Len(argv))
  BY <1>2 DEF WordPlaces
<1>4. IsFiniteSet(1..Len(argv)) /\ 1..Len(argv) \in SUBSET Nat
  BY <1>2, FS_Interval
<1> QED
  BY <1>1, <1>2, <1>3, <1>4, FS_Subset, ElementOfSeq

\* All that is said of the arguments remains.
LEMMA Stays ==
  ASSUME UNCHANGED <<tool, argv>>
  PROVE  /\ Parser' = Parser /\ Tok' = Tok /\ WordPlaces' = WordPlaces
         /\ (Knows' <=> Knows) /\ (IsUsage' <=> IsUsage) /\ Options' = Options
         /\ (Ordinary' <=> Ordinary) /\ (UpstreamTyped' <=> UpstreamTyped)
<1>1. Parser' = Parser
  BY DEF Parser
<1>2. Tok' = Tok /\ (Knows' <=> Knows)
  BY <1>1 DEF Tok, Tokens, Known, Commands, Knows
<1>3. WordPlaces' = WordPlaces
  BY <1>1 DEF WordPlaces, Known, Commands
<1>4. Options' = Options
  BY <1>3 DEF Options
<1>5. IsUsage' <=> IsUsage
  BY <1>1, <1>3, <1>4 DEF IsUsage
<1> QED
  BY <1>1, <1>2, <1>3, <1>4, <1>5 DEF Ordinary, Commands, Entries, UpstreamTyped

\* Whether the next argument is a word shows in its spelling.
LEMMA NextPlace ==
  ASSUME CliInv, Knows, Ordinary, Parsing
  PROVE  /\ next \in 1..Len(argv)
         /\ next \in WordPlaces <=> Arg \notin Known(Parser)
         /\ next = 1 => Arg = tool
<1>1. next \in 1..Len(argv) /\ DOMAIN argv = 1..Len(argv)
  BY Places DEF CliInv, Parsing
<1>2. next = 1 => Arg = tool
  BY DEF CliInv, Arg
<1>3. CASE ~Parser.variadic
  BY <1>1, <1>2, <1>3 DEF WordPlaces, Arg
<1>4. CASE Parser.variadic
  <2>1. Arg \notin Known(Parser) => next \in WordPlaces
    BY <1>1, <1>4 DEF WordPlaces, Arg
  <2>2. ASSUME next \in WordPlaces, Arg \in Known(Parser)
        PROVE  FALSE
    <3>1. PICK j \in 1..next : argv[j] \notin Known(Parser)
      BY <1>4, <2>2 DEF WordPlaces
    <3>2. j \in WordPlaces /\ j < next
      BY <1>1, <1>4, <2>2, <3>1 DEF WordPlaces, Arg
    <3>3. Len(words) = Rank(WordPlaces, next) /\ words = <<>> /\ next \in Nat
      BY <1>1, <1>4 DEF CliInv, AsSpelt, Taken, Parsing
    <3>4. Rank(WordPlaces, j) \in Nat /\ Rank(WordPlaces, j) + 1 <= Rank(WordPlaces, next)
      BY <3>2, <3>3, Places, RankGrows, RankType
    <3>5. Len(words) = 0
      BY <3>3, EmptySeq
    <3> QED
      BY <3>3, <3>4, <3>5
  <2> QED
    BY <1>2, <1>1, <2>1, <2>2
<1> QED
  BY <1>3, <1>4

LEMMA PassedNext ==
  ASSUME CliInv, next \in 1..Len(argv), next' = next + 1, UNCHANGED <<tool, argv>>
  PROVE  /\ next \notin WordPlaces => Passed' = Passed \cup {Arg}
         /\ next \in WordPlaces => Passed' = Passed
<1>1. WordPlaces' = WordPlaces /\ DOMAIN argv = 1..Len(argv) /\ Len(argv) \in Nat
  BY Stays, Places
<1> DEFINE D == DOMAIN argv \ WordPlaces
<1>2. \A j \in D : j < next + 1 <=> j < next \/ j = next
  BY <1>1
<1>3. Passed' = {argv[i] : i \in {j \in D : j < next + 1}}
  BY <1>1 DEF Passed
<1>4. CASE next \notin WordPlaces
  <2>1. {j \in D : j < next + 1} = {j \in D : j < next} \cup {next}
    BY <1>1, <1>2, <1>4
  <2> QED
    BY <1>3, <1>4, <2>1 DEF Passed, Arg
<1>5. CASE next \in WordPlaces
  <2>1. {j \in D : j < next + 1} = {j \in D : j < next}
    BY <1>2, <1>5
  <2> QED
    BY <1>3, <1>5, <2>1 DEF Passed
<1> QED
  BY <1>4, <1>5

\* An upstream command has no other options, and no words.
LEMMA UpstreamNext ==
  ASSUME CliInv, Knows, UpstreamTyped, Parsing
  PROVE  /\ next \in {1, 2} /\ Arg \in Commands(Parser)
         /\ next = 1 => Arg = "branch"
         /\ next = 2 => Arg \in UpstreamCommands
<1>1. next \in {1, 2} /\ tool = "branch" /\ Described(Parser, tool)
  BY ParserIs, Places DEF CliInv, AsUpstream, UpstreamTyped, Parsing
<1>2. argv[1] = tool /\ argv[2] \in UpstreamCommands
  BY DEF CliInv, UpstreamTyped, UpstreamCommands
<1> QED
  BY <1>1, <1>2 DEF Arg, Described, Entries

-----------------------------------------------------------------------------
(***************************************************************************)
(* The steps of a parser that knows the name it is called by.              *)
(***************************************************************************)
LEMMA FlagSound ==
  ASSUME CliInv, Knows, Flag
  PROVE  CliInv'
<1>1. /\ UNCHANGED <<tool, argv, current, words, upstream, fields, verdict>>
      /\ given' = given \cup {Arg} /\ next' = next + 1
      /\ after' = [after EXCEPT ![Arg] = current]
      /\ Parsing /\ Arg \in Parser.flags
  BY DEF Flag, See
<1>2. Arg \in Known(Parser) /\ Arg \notin Commands(Parser) /\ Arg # tool
  BY <1>1, ParserIs DEF Known, Described, Entries
<1>3. ASSUME Ordinary
      PROVE  AsSpelt'
  <2>1. AsSpelt
    BY <1>3 DEF CliInv
  <2>2. next \in 1..Len(argv) /\ next \notin WordPlaces /\ next # 1
    BY <1>1, <1>2, <1>3, NextPlace
  <2>3. given' = Passed'
    BY <1>1, <2>1, <2>2, PassedNext DEF AsSpelt
  <2>4. Taken(WordPlaces, argv, next + 1, words)
    BY <2>1, <2>2, Places, TakenSkips DEF AsSpelt
  <2>5. current = 2 /\ after' \in [Parser.flags -> {0, 2}]
    BY <1>1, <2>1, <2>2 DEF AsSpelt
  <2>6. Len(argv) \in Nat /\ next' <= Len(argv) + 1 /\ next' \in Nat
    BY <1>1, <2>2, Places
  <2> QED
    BY <1>1, <2>1, <2>2, <2>3, <2>4, <2>5, <2>6, Stays DEF AsSpelt, Parsing
<1>4. ~UpstreamTyped
  BY <1>1, <1>2, UpstreamNext
<1>5. next' \in Nat \ {0}
  BY <1>1 DEF CliInv
<1> QED
  BY <1>1, <1>3, <1>4, <1>5, Stays DEF CliInv

LEMMA HelpSound ==
  ASSUME CliInv, Knows, Help
  PROVE  CliInv'
<1>1. /\ UNCHANGED <<tool, argv, after, current, words, upstream, fields, verdict>>
      /\ given' = given \cup {Arg} /\ next' = next + 1
      /\ Parsing /\ Arg = "--help"
  BY DEF Help, See
<1>2. Arg \in Known(Parser) /\ Arg \notin Commands(Parser) /\ Arg # tool
  BY <1>1, ParserIs DEF Known, Described, Entries
<1>3. ASSUME Ordinary
      PROVE  AsSpelt'
  <2>1. AsSpelt
    BY <1>3 DEF CliInv
  <2>2. next \in 1..Len(argv) /\ next \notin WordPlaces /\ next # 1
    BY <1>1, <1>2, <1>3, NextPlace
  <2>3. given' = Passed'
    BY <1>1, <2>1, <2>2, PassedNext DEF AsSpelt
  <2>4. Taken(WordPlaces, argv, next + 1, words)
    BY <2>1, <2>2, Places, TakenSkips DEF AsSpelt
  <2>5. current = 2
    BY <1>1, <2>1, <2>2 DEF AsSpelt
  <2>6. Len(argv) \in Nat /\ next' <= Len(argv) + 1 /\ next' \in Nat
    BY <1>1, <2>2, Places
  <2> QED
    BY <1>1, <2>1, <2>2, <2>3, <2>4, <2>5, <2>6, Stays DEF AsSpelt, Parsing
<1>4. ~UpstreamTyped
  BY <1>1, <1>2, UpstreamNext
<1>5. next' \in Nat \ {0}
  BY <1>1 DEF CliInv
<1> QED
  BY <1>1, <1>3, <1>4, <1>5, Stays DEF CliInv

LEMMA CommandSound ==
  ASSUME CliInv, Knows, Command
  PROVE  CliInv'
<1>1. /\ UNCHANGED <<tool, argv, after, words, fields>>
      /\ given' = given \cup {Arg}
      /\ current' = Parser.commands[Arg]
      /\ next' = IF Arg = SetUpstream THEN next + 2 ELSE next + 1
      /\ upstream' = IF Arg = SetUpstream /\ next < Len(argv) THEN argv[next + 1]
                     ELSE IF Arg = SetUpstreamAttached THEN "w" ELSE upstream
      /\ verdict' = IF next' > Len(argv) + 1 THEN "refused" ELSE verdict
      /\ Parsing /\ Arg \in Commands(Parser)
  BY DEF Command
<1>2. /\ Arg \in Known(Parser) /\ Described(Parser, tool) /\ verdict = "parsing"
  BY <1>1, ParserIs DEF Known, Parsing
<1>3. ASSUME Ordinary
      PROVE  AsSpelt' /\ verdict' = verdict
  <2>1. AsSpelt
    BY <1>3 DEF CliInv
  <2>2. next \in 1..Len(argv) /\ next \notin WordPlaces
    BY <1>1, <1>2, <1>3, NextPlace
  <2>3. Arg \in Entries(Parser)
    BY <1>1, <1>3, <2>2, Places DEF Ordinary, Arg
  <2>4. next' = next + 1 /\ current' = 2
    BY <1>1, <1>2, <2>3 DEF Described
  <2>5. given' = Passed'
    BY <1>1, <2>1, <2>2, <2>4, PassedNext DEF AsSpelt
  <2>6. Taken(WordPlaces, argv, next + 1, words)
    <3>1. Taken(WordPlaces, argv, next, words) /\ WordPlaces \in SUBSET Nat /\ next \in Nat
      BY <2>1, <2>2, Places DEF AsSpelt
    <3> QED
      BY <2>2, <3>1, TakenSkips
  <2>7. Len(argv) \in Nat /\ next' <= Len(argv) + 1 /\ next' \in Nat
    BY <2>2, <2>4, Places
  <2>8. verdict' = verdict
    BY <1>1, <2>7
  <2> QED
    BY <1>1, <1>2, <2>1, <2>2, <2>4, <2>5, <2>6, <2>7, <2>8, Stays DEF AsSpelt, Parsing
<1>4. ASSUME UpstreamTyped
      PROVE  AsUpstream' /\ verdict' = verdict
  <2>1. /\ next \in {1, 2}
        /\ next = 1 => Arg = "branch"
        /\ next = 2 => Arg \in UpstreamCommands
    BY <1>1, <1>4, UpstreamNext
  <2>2. AsUpstream /\ Len(argv) \in Nat /\ Len(argv) >= 2
    BY <1>4, Places DEF CliInv, UpstreamTyped
  <2>3. CASE next = 1
    <3>1. next' = 2 /\ Arg = argv[1] /\ verdict' = verdict
      BY <1>1, <2>1, <2>2, <2>3 DEF SetUpstream, Arg
    <3>2. {j \in {1, 2} : j < next'} = {1} /\ {j \in {1, 2} : j < next} = {}
      BY <2>3, <3>1
    <3> QED
      BY <1>1, <1>2, <2>2, <3>1, <3>2, Stays DEF AsUpstream
  <2>4. CASE next = 2
    <3>1. Arg = argv[2]
      BY <2>4 DEF Arg
    <3>2. next' = Len(argv) + 1 /\ verdict' = verdict
      BY <1>1, <1>4, <2>2, <2>4, <3>1
         DEF UpstreamTyped, SetUpstream, SetUpstreamAttached
    <3>3. {j \in {1, 2} : j < next'} = {1, 2} /\ {j \in {1, 2} : j < next} = {1}
      BY <2>2, <2>4, <3>2
    <3>4. /\ argv[2] = SetUpstream => upstream' = argv[3]
          /\ argv[2] = SetUpstreamAttached => upstream' = "w"
      BY <1>1, <1>4, <2>2, <2>4, <3>1
         DEF UpstreamTyped, SetUpstream, SetUpstreamAttached
    <3> QED
      BY <1>1, <1>2, <2>2, <3>1, <3>2, <3>3, <3>4, Stays DEF AsUpstream
  <2> QED
    BY <2>1, <2>3, <2>4
<1>5. next' \in Nat \ {0} /\ verdict' \in {"parsing", "refused"}
  BY <1>1, <1>2 DEF CliInv
<1> QED
  BY <1>1, <1>3, <1>4, <1>5, Stays DEF CliInv

LEMMA PositionalSound ==
  ASSUME CliInv, Knows, Positional
  PROVE  CliInv'
<1>1. /\ UNCHANGED <<tool, argv, given, after, current, upstream, fields, verdict>>
      /\ words' = Append(words, Arg) /\ next' = next + 1
      /\ Parsing /\ Arg \notin Known(Parser)
      /\ current = 2 /\ Len(words) < Parser.positions
  BY DEF Positional, IsWord
<1>2. ASSUME Ordinary
      PROVE  AsSpelt'
  <2>1. AsSpelt
    BY <1>2 DEF CliInv
  <2>2. next \in WordPlaces /\ next \in 1..Len(argv)
    BY <1>1, <1>2, NextPlace
  <2>3. given' = Passed'
    BY <1>1, <2>1, <2>2, PassedNext DEF AsSpelt
  <2>4. Arg \in Tok /\ words \in Seq(Tok)
    BY <2>1, <2>2, Places DEF AsSpelt, Arg
  <2>5. words' \in Seq(Tok) /\ Len(words') = Len(words) + 1 /\ Len(words) \in Nat
    BY <1>1, <2>4, AppendProperties, LenProperties
  <2>6. Taken(WordPlaces, argv, next + 1, words')
    BY <1>1, <2>1, <2>2, <2>4, Places, TakenNext DEF AsSpelt, Arg
  <2>7. Len(argv) \in Nat /\ next' <= Len(argv) + 1 /\ next' \in Nat
    BY <1>1, <2>2, Places
  <2>8. ~Parser.variadic
    BY <1>1, <2>5, ParserIs DEF Described
  <2> QED
    BY <1>1, <2>1, <2>2, <2>3, <2>5, <2>6, <2>7, <2>8, ParserIs, Stays
       DEF AsSpelt, Parsing, Described
<1>3. ~UpstreamTyped
  BY <1>1, UpstreamNext DEF Known
<1>4. next' \in Nat \ {0}
  BY <1>1 DEF CliInv
<1> QED
  BY <1>1, <1>2, <1>3, <1>4, Stays DEF CliInv

\* add: everything from the first word on.
LEMMA VariadicSound ==
  ASSUME CliInv, Knows, Variadic
  PROVE  CliInv'
<1>1. /\ UNCHANGED <<tool, argv, given, after, current, upstream, fields, verdict>>
      /\ words' = SubSeq(argv, next, Len(argv)) /\ next' = Len(argv) + 1
      /\ Parsing /\ Arg \notin Known(Parser)
      /\ current = 2 /\ Parser.variadic
  BY DEF Variadic, IsWord
<1>2. Len(argv) \in Nat /\ DOMAIN argv = 1..Len(argv)
  BY Places
<1>3. ASSUME Ordinary
      PROVE  AsSpelt'
  <2>1. AsSpelt
    BY <1>3 DEF CliInv
  <2>2. next \in WordPlaces /\ next \in 1..Len(argv)
    BY <1>1, <1>3, NextPlace
  <2>3. words = <<>> /\ Rank(WordPlaces, next) = 0
    <3>1. words = <<>> /\ Len(words) = Rank(WordPlaces, next)
      BY <1>1, <1>2, <2>1, <2>2 DEF AsSpelt, Taken
    <3> QED
      BY <3>1, EmptySeq
  <2>4. ASSUME NEW j \in WordPlaces, j < next
        PROVE  FALSE
    <3>1. Rank(WordPlaces, j) \in Nat /\ Rank(WordPlaces, j) + 1 <= Rank(WordPlaces, next)
      BY <2>2, <2>4, Places, RankGrows, RankType
    <3> QED
      BY <2>3, <3>1
  <2>5. WordPlaces = next..Len(argv)
    <3>1. \A i \in next..Len(argv) : i \in WordPlaces
      BY <1>1, <1>2, <2>2 DEF WordPlaces, Arg
    <3>2. \A i \in WordPlaces : i \in next..Len(argv)
      BY <1>2, <2>2, <2>4, Places
    <3> QED
      BY <3>1, <3>2
  <2>6. \A i \in next..Len(argv) : argv[i] \in Tok
    BY <2>2, Places
  <2>7. Taken(WordPlaces, argv, Len(argv) + 1, words')
    BY <1>1, <1>2, <2>2, <2>5, <2>6, TakenRest
  <2>8. words' \in Seq(Tok)
    BY <1>1, <1>2, <2>2, <2>6, SubSeqProperties
  <2>9. given' = Passed'
    <3>1. \A j \in DOMAIN argv \ WordPlaces : j < next' <=> j < next
      BY <1>1, <1>2, <2>2, <2>5
    <3>2. {j \in DOMAIN argv \ WordPlaces : j < next'}
            = {j \in DOMAIN argv \ WordPlaces : j < next}
      BY <3>1
    <3> QED
      BY <1>1, <2>1, <3>2, Stays DEF AsSpelt, Passed
  <2> QED
    BY <1>1, <1>2, <2>1, <2>7, <2>8, <2>9, Stays DEF AsSpelt, Parsing
<1>4. ~UpstreamTyped
  BY <1>1, UpstreamNext DEF Known
<1>5. next' \in Nat \ {0}
  BY <1>1, <1>2
<1> QED
  BY <1>1, <1>3, <1>4, <1>5, Stays DEF CliInv

\* One word too many.
LEMMA UnknownSound ==
  ASSUME CliInv, Knows, Unknown
  PROVE  CliInv'
<1>1. /\ UNCHANGED <<tool, argv, next, given, after, current, words, upstream, fields>>
      /\ verdict' = "refused"
      /\ Parsing /\ Arg \notin Known(Parser)
      /\ ~(current = 2 /\ (Len(words) < Parser.positions \/ Parser.variadic))
  BY DEF Unknown, IsWord
<1>2. ASSUME Ordinary
      PROVE  AsSpelt'
  <2>1. AsSpelt
    BY <1>2 DEF CliInv
  <2>2. next \in WordPlaces /\ next \in 1..Len(argv) /\ next # 1
    BY <1>1, <1>2, NextPlace DEF Knows
  <2>3. ~Parser.variadic /\ ~(Len(words) < Parser.positions)
    BY <1>1, <2>1, <2>2 DEF AsSpelt
  <2>4. Rank(WordPlaces, next) + 1 <= Cardinality(WordPlaces)
        /\ Cardinality(WordPlaces) \in Nat
    BY <2>2, Places, RankBelow, FS_CardinalityType
  <2>5. Len(words) = Rank(WordPlaces, next) /\ Len(words) \in Nat
    BY <2>1, LenProperties DEF AsSpelt, Taken
  <2>6. Parser.positions \in Nat
    BY ParserIs DEF Described
  <2>7. ~IsUsage
    BY <2>3, <2>4, <2>5, <2>6 DEF IsUsage
  <2>8. Passed' = Passed
    BY <1>1, Stays DEF Passed
  <2> QED
    BY <1>1, <2>1, <2>7, <2>8, Stays DEF AsSpelt
<1>3. ~UpstreamTyped
  BY <1>1, UpstreamNext DEF Known
<1> QED
  BY <1>1, <1>2, <1>3, Stays DEF CliInv

LEMMA ValidateSound ==
  ASSUME CliInv, Knows, Validate
  PROVE  CliInv'
<1>1. /\ UNCHANGED <<tool, argv, next, given, after, current, words, upstream>>
      /\ verdict = "parsing" /\ next > Len(argv)
  BY DEF Validate
<1>2. \/ "--help" \in given /\ verdict' = "usage" /\ fields' = fields
      \/ "--help" \notin given /\ ~Enough /\ verdict' = "refused" /\ fields' = fields
      \/ /\ "--help" \notin given /\ Enough /\ verdict' = "accepted"
         /\ fields' = IF given \cap Commands(Parser) \subseteq Entries(Parser)
                        THEN words ELSE <<>>
  BY DEF Validate
<1>3. Len(argv) \in Nat /\ DOMAIN argv = 1..Len(argv) /\ Described(Parser, tool)
  BY Places, ParserIs
<1>4. ASSUME Ordinary
      PROVE  AsSpelt'
  <2>1. AsSpelt /\ next = Len(argv) + 1
    BY <1>1, <1>3, <1>4 DEF CliInv, AsSpelt
  <2>2. given = Options
    <3>1. {j \in DOMAIN argv \ WordPlaces : j < next} = DOMAIN argv \ WordPlaces
      BY <1>3, <2>1
    <3> QED
      BY <2>1, <3>1 DEF AsSpelt, Passed, Options
  <2>3. Len(words) = Cardinality(WordPlaces)
    BY <1>3, <2>1, Places, RankOfAll DEF AsSpelt, Taken
  <2>4. tool \in Options
    <3>1. 1 \in DOMAIN argv /\ argv[1] = tool /\ argv[1] \in Known(Parser)
      BY <1>3 DEF CliInv, Knows
    <3>2. 1 \notin WordPlaces
      BY <3>1 DEF WordPlaces
    <3> QED
      BY <3>1, <3>2 DEF Options
  <2>5. given \cap Entries(Parser) # {}
    BY <1>3, <2>2, <2>4 DEF Described
  <2>6. given \cap Commands(Parser) \subseteq Entries(Parser)
    BY <1>4, <2>2 DEF Ordinary, Options
  <2>7. Parser.variadic \/ Cardinality(WordPlaces) <= Parser.positions
    BY <2>1, <2>3 DEF AsSpelt
  <2>8. \A f \in Parser.flags : after[f] \in {0, 2}
    BY <2>1 DEF AsSpelt
  <2>9. Enough /\ "--help" \notin given <=> IsUsage
    BY <2>2, <2>3, <2>4, <2>5, <2>7, <2>8 DEF Enough, IsUsage
  <2>10. Passed' = Passed
    BY <1>1, Stays DEF Passed
  <2> QED
    BY <1>1, <1>2, <2>1, <2>6, <2>9, <2>10, Stays DEF AsSpelt
<1>5. ASSUME UpstreamTyped
      PROVE  AsUpstream'
  <2>1. AsUpstream /\ next = Len(argv) + 1 /\ next > 2
    BY <1>1, <1>3, <1>5 DEF CliInv, AsUpstream, UpstreamTyped
  <2>2. given = {argv[1], argv[2]}
    <3>1. {j \in {1, 2} : j < next} = {1, 2}
      BY <1>3, <2>1
    <3> QED
      BY <2>1, <3>1 DEF AsUpstream
  <2>3. argv[1] = tool /\ tool = "branch" /\ argv[2] \in UpstreamCommands
    BY <1>5 DEF UpstreamTyped, CliInv, UpstreamCommands
  <2>4. /\ argv[1] \in Commands(Parser) /\ argv[2] \in Commands(Parser)
        /\ tool \in Entries(Parser) /\ argv[2] \notin Entries(Parser)
    BY <1>3, <2>3 DEF Described, Entries
  <2>5. "--help" \notin given /\ given \cap Parser.flags = {}
    BY <1>3, <2>2, <2>4 DEF Described
  <2>6. Enough
    <3>1. Cardinality(given \cap Parser.flags) <= 1
      BY <2>5, FS_EmptySet
    <3>2. Len(words) >= Parser.required
      BY <1>3, <2>1, <2>3, EmptySeq DEF Described, AsUpstream
    <3> QED
      BY <2>1, <2>2, <2>3, <2>4, <3>1, <3>2 DEF Enough, AsUpstream
  <2>7. verdict' = "accepted" /\ fields' = <<>>
    BY <1>2, <2>1, <2>5, <2>6 DEF AsUpstream
  <2> QED
    BY <1>1, <2>1, <2>7, Stays DEF AsUpstream
<1>6. verdict' \in {"usage", "refused", "accepted"}
  BY <1>2
<1> QED
  BY <1>1, <1>4, <1>5, <1>6, Stays DEF CliInv

-----------------------------------------------------------------------------
\* A parser that does not know its name stops there.
LEMMA ForeignSound ==
  ASSUME CliInv, ~Knows, Next
  PROVE  CliInv'
<1>1. /\ next = 1 /\ current = 1 /\ Arg = tool /\ Len(argv) >= 1 /\ Len(argv) \in Nat
      /\ ~Parser.variadic
  BY ParserIs, Places DEF CliInv, Arg, Foreign
<1>2. Unknown
  BY <1>1 DEF Next, Help, Flag, Command, Positional, Variadic, Validate, Known, Knows
<1>3. /\ UNCHANGED <<tool, argv, next, current>> /\ verdict' = "refused"
  BY <1>2 DEF Unknown
<1> QED
  BY <1>3, Stays DEF CliInv

LEMMA CliInitSound == Init => CliInv
<1> SUFFICES ASSUME Init
             PROVE  CliInv
  OBVIOUS
<1>1. /\ tool \in Tools /\ next = 1 /\ given = {} /\ words = <<>> /\ current = 1
      /\ after = [f \in Parsers[tool].flags |-> 0]
      /\ verdict = "parsing"
  BY DEF Init
<1>2. PICK n \in 0..MaxArgs :
        \E args \in [1..n -> Tokens(Parsers[tool])] : argv = <<tool>> \o args
  BY DEF Init
<1>3. PICK args \in [1..n -> Tokens(Parsers[tool])] : argv = <<tool>> \o args
  BY <1>2
<1>4. /\ argv \in Seq(Tok) /\ Len(argv) \in Nat /\ Len(argv) >= 1 /\ argv[1] = tool
  <2>1. n \in Nat
    BY <1>2, CliAssumption
  <2>2. args \in Seq(Tok) /\ Len(args) = n
    <3>1. args \in Seq(Tokens(Parser)) /\ Len(args) = n
      BY <2>1 DEF Parser
    <3> QED
      BY <3>1, SeqMonotonic DEF Tok
  <2>3. <<tool>> \in Seq(Tok) /\ Len(<<tool>>) = 1 /\ <<tool>>[1] = tool
    BY DEF Tok
  <2>4. /\ argv \in Seq(Tok) /\ Len(argv) = Len(<<tool>>) + Len(args)
        /\ \A i \in 1..Len(<<tool>>) + Len(args) :
             argv[i] = IF i <= Len(<<tool>>) THEN <<tool>>[i] ELSE args[i - Len(<<tool>>)]
    BY <1>3, <2>2, <2>3, ConcatProperties
  <2> QED
    BY <2>1, <2>2, <2>3, <2>4
<1>5. DOMAIN argv = 1..Len(argv) /\ WordPlaces \in SUBSET (1..Len(argv))
  BY <1>4, LenProperties DEF WordPlaces
<1>6. words \in Seq(Tok) /\ Len(words) = 0
  BY <1>1, EmptySeq
<1>7. Knows => AsSpelt
  <2>1. Taken(WordPlaces, argv, next, words)
    <3>1. Rank(WordPlaces, 1) = 0
      BY <1>4, <1>5, RankFromStart
    <3>2. \A i \in WordPlaces : ~(i < 1)
      BY <1>5
    <3> QED
      BY <1>1, <1>6, <3>1, <3>2 DEF Taken
  <2>2. Passed = {}
    BY <1>1, <1>5 DEF Passed
  <2>3. Knows => Parser.positions \in Nat
    BY <1>1, ToolsDescribed DEF Described, Foreign, Knows, Parser
  <2> QED
    BY <1>1, <1>4, <1>6, <2>1, <2>2, <2>3 DEF AsSpelt, Parser
<1>8. AsUpstream
  BY <1>1 DEF AsUpstream, Parser
<1> QED
  BY <1>1, <1>4, <1>7, <1>8 DEF CliInv

LEMMA CliInvAccepts == CliInv => AcceptedAsSpelt
<1> SUFFICES ASSUME CliInv
             PROVE  AcceptedAsSpelt
  OBVIOUS
<1>1. UsagesAccepted
  <2>1. SUFFICES ASSUME verdict # "parsing", Ordinary
                 PROVE  /\ verdict = "accepted" <=> IsUsage
                        /\ verdict = "accepted" => given = Options /\ fields = Arguments
    BY DEF UsagesAccepted
  <2>2. CASE Knows
    <3>1. AsSpelt /\ (verdict = "accepted" <=> IsUsage)
      BY <2>1, <2>2 DEF CliInv, AsSpelt
    <3>2. ASSUME verdict = "accepted"
          PROVE  given = Options
      <4>1. {j \in DOMAIN argv \ WordPlaces : j < next} = DOMAIN argv \ WordPlaces
        BY <3>1, <3>2, Places DEF AsSpelt
      <4> QED
        BY <3>1, <4>1 DEF AsSpelt, Passed, Options
    <3>3. ASSUME verdict = "accepted"
          PROVE  fields = Arguments
      BY <3>1, <3>3, Places, TakenAll DEF AsSpelt, Arguments
    <3> QED
      BY <3>1, <3>2, <3>3
  <2>3. CASE ~Knows
    <3>1. ~Parser.variadic /\ verdict = "refused"
      BY <2>1, <2>3, ParserIs DEF CliInv, Foreign
    <3>2. tool \notin Options
      BY <2>3, <3>1 DEF Options, WordPlaces, Knows
    <3> QED
      BY <3>1, <3>2 DEF IsUsage
  <2> QED
    BY <2>2, <2>3
<1>2. UpstreamAccepted
  <2>1. SUFFICES ASSUME verdict # "parsing", UpstreamTyped
                 PROVE  /\ verdict = "accepted" /\ given = {argv[1], argv[2]}
                        /\ fields = <<>>
                        /\ argv[2] = SetUpstream => upstream = argv[3]
                        /\ argv[2] = SetUpstreamAttached => upstream = "w"
    BY DEF UpstreamAccepted
  <2>2. AsUpstream /\ verdict = "accepted"
    BY <2>1, ParserIs DEF CliInv, AsUpstream, Foreign, UpstreamTyped
  <2>3. next > Len(argv) /\ fields = <<>> /\ next > 2
    BY <2>1, <2>2, Places DEF AsUpstream, UpstreamTyped
  <2>4. {j \in {1, 2} : j < next} = {1, 2}
    BY <2>3, Places DEF CliInv
  <2>5. given = {argv[1], argv[2]}
    BY <2>2, <2>4 DEF AsUpstream
  <2> QED
    BY <2>2, <2>3, <2>5 DEF AsUpstream
<1> QED
  BY <1>1, <1>2 DEF AcceptedAsSpelt

(***************************************************************************)
(* For any words and any number of arguments: a parser accepts what is a   *)
(* usage of its command by the spelling and nothing else, and hands on the *)
(* options and the arguments in their order.  Any string may be a word, of *)
(* all six commands: submodule, which does not know its name, has none.    *)
(***************************************************************************)
THEOREM SpeltIsAccepted == Spec => []AcceptedAsSpelt
<1>1. CliInv /\ [Next]_vars => CliInv'
  <2>1. SUFFICES ASSUME CliInv, [Next]_vars
                 PROVE  CliInv'
    OBVIOUS
  <2>2. CASE UNCHANGED vars
    <3>1. /\ UNCHANGED <<tool, argv>>
          /\ UNCHANGED <<next, given, after, current, words, upstream, fields, verdict>>
      BY <2>2 DEF vars
    <3>2. Passed' = Passed
      BY <3>1, Stays DEF Passed
    <3>3. (AsSpelt' <=> AsSpelt) /\ (AsUpstream' <=> AsUpstream)
      BY <3>1, <3>2, Stays DEF AsSpelt, AsUpstream
    <3> QED
      BY <2>1, <3>1, <3>3, Stays DEF CliInv
  <2>3. CASE Next /\ Knows
    BY <2>1, <2>3, FlagSound, HelpSound, CommandSound, PositionalSound, VariadicSound,
       UnknownSound, ValidateSound DEF Next
  <2> QED
    BY <2>1, <2>2, <2>3, ForeignSound
<1> QED
  BY CliInitSound, <1>1, CliInvAccepts, PTL DEF Spec
=============================================================================
