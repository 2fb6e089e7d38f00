---------------------------- MODULE CommandLine ----------------------------
(***************************************************************************)
(* options_parse (options.cpp): the options of the command line one after  *)
(* the other, then the merge of -each into the engines and the last        *)
(* checks.  An argument is an option with what belongs to it,              *)
(*   [name, args]                                                          *)
(* where args is what follows the option: one value, two, or a sequence of *)
(* settings [key, value].  Numbers are the numbers after their conversion, *)
(* alpha, beta and freq in percent; an option always has its parameters.   *)
(***************************************************************************)
EXTENDS Integers, Sequences, FiniteSetsExt

CONSTANTS Argument,   \* the arguments to choose from
          MaxArgs     \* bound on their number

VARIABLES argv,      \* the arguments read
          o,         \* Options
          eo,        \* vector of EngineOptions
          each, eachSet,
          pc         \* "parse", "ready", "died"

vars == <<argv, o, eo, each, eachSet, pc>>

\* <<option, what it sets>>, for options without a parameter
Flags ==
  {<<"-repeat", "repeat">>, <<"-transform", "transform">>, <<"-gauntlet", "gauntlet">>,
   <<"-loseonly", "saveLoseOnly">>, <<"-log", "log">>, <<"-debug", "debug">>,
   <<"-debug", "log">>, <<"-sendbyboard", "sendByBoard">>, <<"-fatalerror", "fatalError">>}

\* <<option, where its parameter goes>>
Values ==
  {<<"-concurrency", "concurrency">>, <<"-games", "games">>, <<"-rounds", "rounds">>,
   <<"-pgn", "pgn">>, <<"-sgf", "sgf">>, <<"-msg", "msg">>,
   <<"-drawafter", "forceDrawAfter">>, <<"-rule", "gameRule">>,
   <<"-boardsize", "boardSize">>, <<"-resign", "resign">>, <<"-draw", "draw">>}

OptionsIn(pairs) == {pair[1] : pair \in pairs}
Sections == {"-engine", "-each", "-openings", "-sample", "-sprt"}

\* The settings of a section are a sequence.
ASSUME CommandLineAssumption ==
  /\ MaxArgs \in Nat
  /\ \A a \in Argument : a.name \in Sections =>
       Len(a.args) \in Nat /\ DOMAIN a.args = 1 .. Len(a.args)

\* useTURN is ~sendByBoard; random is (order = "random").
OptionsDefault ==
  [repeat |-> FALSE, transform |-> FALSE, gauntlet |-> FALSE, saveLoseOnly |-> FALSE,
   log |-> FALSE, debug |-> FALSE, sendByBoard |-> FALSE, fatalError |-> FALSE,
   concurrency |-> 1, games |-> 1, rounds |-> 1, pgn |-> "", sgf |-> "", msg |-> "",
   forceDrawAfter |-> 0, gameRule |-> 0, boardSize |-> 15,
   resign |-> <<0, 0>>, draw |-> <<0, 0>>, sprt |-> FALSE,
   elo0 |-> 0, elo1 |-> 0, alpha |-> 5, beta |-> 5,
   openings |-> "", type |-> "offset", order |-> "sequential", srand |-> 0,
   fileName |-> "", format |-> "csv", compress |-> FALSE, freq |-> 100]

EngineDefault ==
  [cmd |-> "", name |-> "", options |-> <<>>, timeoutMatch |-> 0, timeoutTurn |-> 0,
   increment |-> 0, nodes |-> 0, depth |-> 0, numThreads |-> 0,
   maxMemory |-> 367001600, tolerance |-> 3000]

Init ==
  /\ argv = <<>> /\ o = OptionsDefault
  /\ eo = <<>> /\ each = EngineDefault /\ eachSet = FALSE
  /\ pc = "parse"

-----------------------------------------------------------------------------
\* options_parse_eo

EngineField == [cmd |-> "cmd", name |-> "name", depth |-> "depth", nodes |-> "nodes",
                maxmemory |-> "maxMemory", thread |-> "numThreads"]

\* options_parse_tc_gomocup: <<match, turn, increment>>; a tc without turn
\* time has -1 there.
TimeControl(e, tc) ==
  [e EXCEPT !.timeoutMatch = 1000 * tc[1],
            !.timeoutTurn = 1000 * (IF tc[2] = -1 THEN tc[1] ELSE tc[2]),
            !.increment = 1000 * tc[3]]

SetEngine(e, s) ==
  CASE s.key = "tc" -> TimeControl(e, s.value)
    [] s.key = "tolerance" -> [e EXCEPT !.tolerance = 1000 * s.value]
    [] s.key = "option" -> [e EXCEPT !.options = Append(@, s.value)]
    [] s.key \in DOMAIN EngineField -> [e EXCEPT ![EngineField[s.key]] = s.value]

EngineKeys == DOMAIN EngineField \cup {"tc", "tolerance", "option"}

\* The values that the settings of a section may have
Legal(name, s) ==
  CASE name \in {"-engine", "-each"} -> s.key \in EngineKeys
    [] name = "-openings" ->
         \/ s.key \in {"file", "srand"}
         \/ s.key = "type" /\ s.value \in {"pos", "offset"}
         \/ s.key = "order" /\ s.value \in {"random", "sequential"}
    [] name = "-sprt" -> s.key \in {"elo0", "elo1", "alpha", "beta"}
    [] name = "-sample" ->
         \/ s.key \in {"freq", "file"}
         \/ s.key = "format" /\ s.value \in {"csv", "bin", "bin_lz4", "binpack", "binpack_lz4"}

\* options_parse_openings: offset and sequential are accepted and set nothing.
SetOpenings(opts, s) ==
  CASE s.key = "file" -> [opts EXCEPT !.openings = s.value]
    [] s.key = "srand" -> [opts EXCEPT !.srand = s.value]
    [] s.value \in {"offset", "sequential"} -> opts
    [] s.key \in {"type", "order"} /\ s.value \in {"pos", "random"} ->
         [opts EXCEPT ![s.key] = s.value]

\* options_parse_sample: a format that is not compressed does not set compress.
SetSample(opts, s) ==
  CASE s.key = "freq" -> [opts EXCEPT !.freq = s.value]
    [] s.key = "file" -> [opts EXCEPT !.fileName = s.value]
    [] s.key = "format" /\ s.value \in {"csv", "bin", "binpack"} ->
         [opts EXCEPT !.format = s.value]
    [] s.value = "bin_lz4" -> [opts EXCEPT !.format = "bin", !.compress = TRUE]
    [] s.value = "binpack_lz4" -> [opts EXCEPT !.format = "binpack", !.compress = TRUE]

\* A setting of a section with this name
SetOption(name, opts, s) ==
  CASE name \in {"-engine", "-each"} -> SetEngine(opts, s)
    [] name = "-openings" -> SetOpenings(opts, s)
    [] name = "-sample" -> SetSample(opts, s)
    [] name = "-sprt" -> [opts EXCEPT ![s.key] = s.value]

\* What the loop over the settings of a makes of opts.
Parsed(a, opts) ==
  LET after[n \in 0 .. Len(a.args)] ==
        IF n = 0 THEN opts ELSE SetOption(a.name, after[n - 1], a.args[n])
  IN  after[Len(a.args)]

DefaultFileName(opts) ==
  IF opts.fileName # "" THEN opts.fileName
  ELSE "sample." \o opts.format
       \o (IF opts.compress /\ opts.format # "csv" THEN ".lz4" ELSE "")

SprtValid(opts) ==
  /\ opts.elo0 < opts.elo1
  /\ opts.alpha \in 1 .. 99 /\ opts.beta \in 1 .. 99

-----------------------------------------------------------------------------
\* options_parse

Die == pc' = "died" /\ UNCHANGED <<o, eo, each, eachSet>>

\* The next argument is a.
Reads(a) == pc = "parse" /\ Len(argv) < MaxArgs /\ argv' = Append(argv, a)

Flag(a) ==
  /\ a.name \in OptionsIn(Flags) /\ Reads(a)
  /\ o' = [field \in DOMAIN o |-> IF <<a.name, field>> \in Flags THEN TRUE ELSE o[field]]
  /\ UNCHANGED <<eo, each, eachSet, pc>>

\* -rule and -boardsize are checked at once.
BadValue(a) ==
  \/ a.name = "-rule" /\ a.args \notin {0, 1, 4}
  \/ a.name = "-boardsize" /\ a.args \notin 5 .. 22

Value(a) ==
  /\ a.name \in OptionsIn(Values) /\ Reads(a)
  /\ \/ BadValue(a) /\ Die
     \/ /\ ~BadValue(a)
        /\ o' = [field \in DOMAIN o |->
                    IF <<a.name, field>> \in Values THEN a.args ELSE o[field]]
        /\ UNCHANGED <<eo, each, eachSet, pc>>

AllLegal(a) == \A i \in DOMAIN a.args : Legal(a.name, a.args[i])

Engine(a) ==
  /\ a.name = "-engine" /\ Reads(a)
  /\ \/ ~AllLegal(a) /\ Die
     \/ /\ AllLegal(a)
        /\ eo' = Append(eo, Parsed(a, EngineDefault))
        /\ UNCHANGED <<o, each, eachSet, pc>>

Each(a) ==
  /\ a.name = "-each" /\ Reads(a)
  /\ \/ ~AllLegal(a) /\ Die
     \/ /\ AllLegal(a)
        /\ each' = Parsed(a, each) /\ eachSet' = TRUE
        /\ UNCHANGED <<o, eo, pc>>

\* The sections -openings, -sample and -sprt; the last is validated at its end.
Section(a) ==
  /\ a.name \in {"-openings", "-sample", "-sprt"} /\ Reads(a)
  /\ LET named == Parsed(a, o)
         tested == Parsed(a, [o EXCEPT !.sprt = TRUE])
     IN  \/ ~AllLegal(a) /\ Die
         \/ /\ AllLegal(a) /\ a.name = "-sprt" /\ ~SprtValid(tested) /\ Die
         \/ /\ AllLegal(a)
            /\ \/ a.name = "-openings" /\ o' = named
               \/ a.name = "-sample" /\ o' = [named EXCEPT !.fileName = DefaultFileName(named)]
               \/ a.name = "-sprt" /\ SprtValid(tested) /\ o' = tested
            /\ UNCHANGED <<eo, each, eachSet, pc>>

Unknown(a) ==
  /\ a.name \notin OptionsIn(Flags) \cup OptionsIn(Values) \cup Sections
  /\ Reads(a) /\ Die

\* Mutation: an engine keeps what it has set itself.
MergedIfUnset(e) ==
  [field \in DOMAIN e |->
     IF field = "options" THEN e.options \o each.options
     ELSE IF e[field] # EngineDefault[field] THEN e[field] ELSE each[field]]

\* What an option of an engine is when it is not set
Unset(field) == IF field \in {"cmd", "name"} THEN "" ELSE 0

\* What -each leaves of an engine: what is not set is not taken.
Merged(e) ==
  [field \in DOMAIN e |->
     IF field = "options" THEN e.options \o each.options
     ELSE IF each[field] = Unset(field) THEN e[field] ELSE each[field]]

\* Mutation: -sprt is accepted for a tournament.
EnoughForAny == Len(eo) >= 2

EnginesFit == Len(eo) >= 2 /\ (o.sprt => Len(eo) = 2)

EndOfLine ==
  /\ pc = "parse"
  /\ eo' = IF eachSet THEN [k \in DOMAIN eo |-> Merged(eo[k])] ELSE eo
  /\ pc' = IF EnginesFit THEN "ready" ELSE "died"
  /\ UNCHANGED <<argv, o, each, eachSet>>

Done == pc # "parse" /\ UNCHANGED vars

Next ==
  \/ \E a \in Argument :
       Flag(a) \/ Value(a) \/ Engine(a) \/ Each(a) \/ Section(a) \/ Unknown(a)
  \/ EndOfLine
  \/ Done

Spec == Init /\ [][Next]_vars

-----------------------------------------------------------------------------
Names(s, field) ==
  CASE s.key = "tc" -> field \in {"timeoutMatch", "timeoutTurn", "increment"}
    [] s.key = "tolerance" -> field = "tolerance"
    [] s.key = "option" -> field = "options"
    [] s.key \in DOMAIN EngineField -> field = EngineField[s.key]

\* Where settings name the field, and the value they give it last
NamedAt(settings, field) == {j \in DOMAIN settings : Names(settings[j], field)}

LastValue(settings, field, default) ==
  IF NamedAt(settings, field) = {} THEN default
  ELSE SetEngine(EngineDefault, settings[Max(NamedAt(settings, field))])[field]

\* The -each of a command line that name the field
Naming(line, field) ==
  {i \in DOMAIN line : line[i].name = "-each" /\ NamedAt(line[i].args, field) # {}}

\* The value -each gives, which is the default of a new engine if no -each
\* names the option
OfEach(line, field) ==
  CASE \A i \in DOMAIN line : line[i].name # "-each" -> Unset(field)
    [] Naming(line, field) # {} ->
         LastValue(line[Max(Naming(line, field))].args, field, EngineDefault[field])
    [] OTHER -> EngineDefault[field]

\* The raw options among settings, and those of all -each
OptionValues(settings) ==
  LET values[j \in 0 .. Len(settings)] ==
        IF j = 0 THEN <<>>
        ELSE IF settings[j].key = "option" THEN Append(values[j - 1], settings[j].value)
        ELSE values[j - 1]
  IN  values[Len(settings)]

OptionsOfEach(line) ==
  LET values[i \in 0 .. Len(line)] ==
        IF i = 0 THEN <<>>
        ELSE IF line[i].name = "-each" THEN values[i - 1] \o OptionValues(line[i].args)
        ELSE values[i - 1]
  IN  values[Len(line)]

\* The number of engines in the first n arguments
EnginesIn(line, n) == Cardinality({i \in 1 .. n : line[i].name = "-engine"})

(***************************************************************************)
(* README.md:35: the options of -each are applied to every engine, those   *)
(* named before -each and those named after it; the last -each wins, and   *)
(* an engine keeps its own value where -each has none.  Tolerance and      *)
(* memory have a default that is not zero: every -each has a value of      *)
(* them, and an engine's own value does not survive one that is not zero.  *)
(***************************************************************************)
EachReachesAllEngines ==
  pc = "ready" =>
    /\ Len(eo) = EnginesIn(argv, Len(argv))
    /\ \A i \in DOMAIN argv : argv[i].name = "-engine" =>
         LET engine == eo[EnginesIn(argv, i)]
             own == argv[i].args
         IN  /\ engine.options = OptionValues(own) \o OptionsOfEach(argv)
             /\ \A field \in DOMAIN EngineDefault \ {"options"} :
                  engine[field] = IF OfEach(argv, field) # Unset(field)
                                    THEN OfEach(argv, field)
                                    ELSE LastValue(own, field, EngineDefault[field])

(***************************************************************************)
(* What is accepted is what the other parts are written for: a board that  *)
(* fits into its margin, a rule they know, two engines and a test with two *)
(* hypotheses for SPRT, in whatever order and however often it was said.   *)
(***************************************************************************)
AcceptedIsPlayable ==
  pc = "ready" =>
    /\ o.boardSize \in 5 .. 22 /\ o.gameRule \in {0, 1, 4}
    /\ Len(eo) >= 2
    /\ o.sprt => Len(eo) = 2 /\ o.elo0 < o.elo1
=============================================================================
