-------------------------- MODULE CommandLineProofs --------------------------
(***************************************************************************)
(* AcceptedIsPlayable and EachReachesAllEngines for command lines of any   *)
(* length and any arguments.  The loop over the settings of a section is a *)
(* function defined by recursion: what it does is shown setting by setting.*)
(***************************************************************************)
EXTENDS CommandLine, LibraryProofs

Fields == DOMAIN OptionsDefault

\* The sections that set options, and what none of their settings touches
OptionSections == {"-openings", "-sample", "-sprt"}

Untouched(name) ==
  {"boardSize", "gameRule", "sprt"} \cup (IF name = "-sprt" THEN {} ELSE {"elo0", "elo1"})

\* Options with values in V, like opts where the section does not touch them
Like(name, opts, V) ==
  {x \in [Fields -> V] : \A field \in Untouched(name) : x[field] = opts[field]}

Constants == {TRUE, "bin", "binpack"}

LEMMA FieldNames ==
  /\ {"boardSize", "gameRule", "sprt", "elo0", "elo1", "alpha", "beta", "openings", "type",
      "order", "srand", "fileName", "format", "compress", "freq"} \subseteq Fields
  /\ OptionsDefault.boardSize = 15 /\ OptionsDefault.gameRule = 0
  /\ OptionsDefault.sprt = FALSE
  /\ OptionsDefault = [field \in Fields |-> OptionsDefault[field]]
BY DEF Fields, OptionsDefault

\* An assignment to a field that the section may set
LEMMA FieldSet ==
  ASSUME NEW name, NEW opts, NEW V, NEW x \in Like(name, opts, V),
         NEW field \in Fields \ Untouched(name), NEW v \in V
  PROVE  [x EXCEPT ![field] = v] \in Like(name, opts, V)
<1> DEFINE y == [x EXCEPT ![field] = v]
<1>1. x \in [Fields -> V] /\ \A f \in Untouched(name) : x[f] = opts[f]
  BY Zenon DEF Like
<1>2. Untouched(name) \subseteq Fields
  BY FieldNames DEF Untouched
<1>3. y \in [Fields -> V] /\ \A f \in Fields \ {field} : y[f] = x[f]
  BY <1>1
<1> HIDE DEF y
<1>4. \A f \in Untouched(name) : y[f] = opts[f]
  BY <1>1, <1>2, <1>3
<1> QED
  BY <1>3, <1>4, Zenon DEF Like, y

LEMMA SettingKeeps ==
  ASSUME NEW name \in OptionSections, NEW opts, NEW V, Constants \subseteq V,
         NEW x \in Like(name, opts, V), NEW s, s.value \in V, Legal(name, s)
  PROVE  SetOption(name, x, s) \in Like(name, opts, V)
<1> DEFINE L == Like(name, opts, V)
<1>1. CASE name = "-openings"
  <2>1. SetOption(name, x, s) = SetOpenings(x, s)
    BY <1>1 DEF SetOption
  <2>2. {"openings", "type", "order", "srand"} \subseteq Fields \ Untouched(name)
    BY FieldNames DEF Untouched
  <2>3. /\ [x EXCEPT !.openings = s.value] \in L /\ [x EXCEPT !.srand = s.value] \in L
        /\ [x EXCEPT !["type"] = s.value] \in L /\ [x EXCEPT !["order"] = s.value] \in L
    BY <2>2, FieldSet
  <2> HIDE DEF L
  <2>4. \/ s.key \in {"file", "srand"}
        \/ s.key = "type" /\ s.value \in {"pos", "offset"}
        \/ s.key = "order" /\ s.value \in {"random", "sequential"}
    BY <1>1 DEF Legal
  <2>5. SetOpenings(x, s) \in L
    BY <2>3, <2>4 DEF SetOpenings, L
  <2> QED
    BY <2>1, <2>5 DEF L
<1>2. CASE name = "-sample"
  <2>1. SetOption(name, x, s) = SetSample(x, s)
    BY <1>2 DEF SetOption
  <2>2. {"freq", "fileName", "format", "compress"} \subseteq Fields \ Untouched(name)
    BY FieldNames, <1>2 DEF Untouched
  <2>3. /\ [x EXCEPT !.freq = s.value] \in L /\ [x EXCEPT !.fileName = s.value] \in L
        /\ [x EXCEPT !.format = s.value] \in L
        /\ [x EXCEPT !.format = "bin"] \in L /\ [x EXCEPT !.format = "binpack"] \in L
    BY <2>2, FieldSet DEF Constants
  <2>4. /\ [x EXCEPT !.format = "bin", !.compress = TRUE] \in L
        /\ [x EXCEPT !.format = "binpack", !.compress = TRUE] \in L
    BY <2>2, <2>3, FieldSet DEF Constants
  <2> HIDE DEF L
  <2>5. \/ s.key \in {"freq", "file"}
        \/ s.key = "format" /\ s.value \in {"csv", "bin", "bin_lz4", "binpack", "binpack_lz4"}
    BY <1>2 DEF Legal
  <2>6. SetSample(x, s) \in L
    BY <2>3, <2>4, <2>5 DEF SetSample
  <2> QED
    BY <2>1, <2>6 DEF L
<1>3. CASE name = "-sprt"
  <2>1. SetOption(name, x, s) = [x EXCEPT ![s.key] = s.value]
    BY <1>3 DEF SetOption
  <2>2. s.key \in {"elo0", "elo1", "alpha", "beta"}
    BY <1>3 DEF Legal
  <2>3. s.key \in Fields \ Untouched(name)
    BY <1>3, <2>2, FieldNames DEF Untouched
  <2> QED
    <3>1. \A k \in Fields \ Untouched(name) : [x EXCEPT ![k] = s.value] \in Like(name, opts, V)
      BY FieldSet, Zenon
    <3> QED
      BY <2>1, <2>3, <3>1, Zenon
<1> QED
  BY <1>1, <1>2, <1>3 DEF OptionSections

\* The options after the first settings of a
SetRuns(L, a, opts) ==
  {after \in [0 .. Len(a.args) -> L] :
     /\ after[0] = opts
     /\ \A i \in 1 .. Len(a.args) : after[i] = SetOption(a.name, after[i - 1], a.args[i])}

(***************************************************************************)
(* The loop over the settings of a section, setting by setting.            *)
(***************************************************************************)
LEMMA ParsedRun ==
  ASSUME NEW a, Len(a.args) \in Nat, NEW L, NEW opts \in L,
         \A x \in L, i \in 1 .. Len(a.args) : SetOption(a.name, x, a.args[i]) \in L
  PROVE  \E after \in SetRuns(L, a, opts) : Parsed(a, opts) = after[Len(a.args)]
<1> DEFINE n == Len(a.args)
           name == a.name
           step == [xi \in L \X (1 .. n) |-> SetOption(name, xi[1], a.args[xi[2]])]
           Defines(f) == f = [i \in 0 .. n |->
                                IF i = 0 THEN opts ELSE SetOption(name, f[i - 1], a.args[i])]
<1>1. n \in Nat
  OBVIOUS
<1>2. \A x \in L, i \in 1 .. n : SetOption(name, x, a.args[i]) \in L
  OBVIOUS
<1>4. step \in [L \X (1 .. n) -> L]
  BY <1>2
<1>5. \A x \in L, i \in 1 .. n : step[<<x, i>>] = SetOption(name, x, a.args[i])
  OBVIOUS
<1> HIDE DEF step, n, name
<1>6. \E f : f \in LoopRuns(L, opts, n, step)
  BY <1>1, <1>4, LoopExists, Zenon
<1>7. PICK f \in [0 .. n -> L] :
        f[0] = opts /\ \A i \in 1 .. n : f[i] = step[<<f[i - 1], i>>]
  BY <1>6, Zenon DEF LoopRuns
<1>8. Defines(f)
  <2>1. ASSUME NEW i \in 0 .. n
        PROVE  f[i] = IF i = 0 THEN opts ELSE SetOption(name, f[i - 1], a.args[i])
    <3>1. CASE i = 0
      BY <1>7, <3>1, Zenon
    <3>2. CASE i # 0
      <4>1. i \in 1 .. n /\ i - 1 \in 0 .. n
        BY <1>1, <3>2
      <4>2. f[i - 1] \in L
        BY <1>7, <4>1
      <4> QED
        BY <1>5, <1>7, <3>2, <4>1, <4>2, Zenon
    <3> QED
      BY <3>1, <3>2
  <2>2. f = [i \in 0 .. n |-> f[i]]
    BY <1>7
  <2> QED
    BY <2>1, <2>2
<1> DEFINE after == CHOOSE h : Defines(h)
<1>9. Defines(after) /\ Parsed(a, opts) = after[n]
  <2>1. Parsed(a, opts) = after[n]
    BY DEF Parsed, n, name
  <2> HIDE DEF Defines
  <2> QED
    BY <1>8, <2>1, Zenon
<1> HIDE DEF after
<1>10. \A i \in 0 .. n : after[i] = IF i = 0 THEN opts
                                    ELSE SetOption(name, after[i - 1], a.args[i])
  BY <1>9
<1>11. \A i \in 0 .. n : after[i] \in L
  <2> DEFINE T == {i \in 0 .. n : after[i] \in L}
  <2>1. 0 \in T
    BY <1>1, <1>10
  <2>2. ASSUME NEW i \in 1 .. n, i - 1 \in T
        PROVE  i \in T
    <3>1. after[i - 1] \in L /\ i \in 0 .. n /\ i # 0
      BY <1>1, <2>2
    <3>2. after[i] \in L
      BY <1>2, <1>10, <3>1, Zenon
    <3> QED
      BY <3>1, <3>2
  <2> HIDE DEF T
  <2>3. \A i \in 0 .. n : i \in T
    BY <1>1, <2>1, <2>2, Induction, Zenon
  <2> QED
    BY <2>3 DEF T
<1>12. after \in [0 .. n -> L] /\ after[0] = opts
  <2>1. after = [i \in 0 .. n |-> after[i]]
    BY <1>9
  <2>2. 0 \in 0 .. n
    BY <1>1
  <2> QED
    BY <1>10, <1>11, <2>1, <2>2
<1>13. \A i \in 1 .. n : after[i] = SetOption(name, after[i - 1], a.args[i])
  BY <1>1, <1>10
<1> QED
  BY <1>9, <1>12, <1>13, Zenon DEF n, name, SetRuns

(***************************************************************************)
(* What a section of options keeps.                                        *)
(***************************************************************************)
LEMMA ParsedKeeps ==
  ASSUME NEW a \in Argument, a.name \in OptionSections, AllLegal(a),
         NEW opts, DOMAIN opts = Fields, opts = [field \in Fields |-> opts[field]]
  PROVE  \E V : Parsed(a, opts) \in Like(a.name, opts, V)
<1> DEFINE n == Len(a.args)
           name == a.name
           V == Constants \cup {opts[field] : field \in Fields}
                  \cup {a.args[i].value : i \in 1 .. n}
           L == Like(name, opts, V)
<1>1. n \in Nat /\ DOMAIN a.args = 1 .. n
  BY CommandLineAssumption DEF OptionSections, Sections
<1>2. ASSUME NEW x \in L, NEW i \in 1 .. n
      PROVE  SetOption(name, x, a.args[i]) \in L
  <2>1. Legal(name, a.args[i])
    BY <1>1 DEF AllLegal
  <2>2. Constants \subseteq V /\ a.args[i].value \in V
    OBVIOUS
  <2> HIDE DEF V
  <2> QED
    BY <2>1, <2>2, SettingKeeps, Zenon
<1>3. opts \in L
  <2>1. opts \in [Fields -> V]
    OBVIOUS
  <2> HIDE DEF V
  <2> QED
    BY <2>1 DEF Like
<1> HIDE DEF L
<1>4. PICK after \in SetRuns(L, a, opts) : Parsed(a, opts) = after[n]
  BY <1>1, <1>2, <1>3, ParsedRun
<1>5. after[n] \in L
  BY <1>1, <1>4 DEF SetRuns
<1> QED
  BY <1>4, <1>5, Zenon DEF L, name

-----------------------------------------------------------------------------
\* What is accepted so far can be played; engines are only added.
OptionsFit ==
  /\ DOMAIN o = Fields /\ o = [field \in Fields |-> o[field]]
  /\ o.boardSize \in 5 .. 22 /\ o.gameRule \in {0, 1, 4}
  /\ o.sprt \in BOOLEAN /\ (o.sprt => o.elo0 < o.elo1)

IInv ==
  /\ OptionsFit
  /\ Len(eo) \in Nat /\ eo = [k \in 1 .. Len(eo) |-> eo[k]]
  /\ pc = "ready" => EnginesFit

LEMMA InitFits == Init => IInv
<1> SUFFICES ASSUME Init PROVE IInv
  OBVIOUS
<1>1. o = OptionsDefault /\ eo = <<>> /\ pc = "parse"
  BY DEF Init
<1>2. OptionsFit
  <2>1. /\ DOMAIN o = Fields /\ o = [field \in Fields |-> o[field]]
        /\ o.boardSize \in 5 .. 22 /\ o.gameRule \in {0, 1, 4}
    BY <1>1, FieldNames DEF Fields
  <2>2. o.sprt \in BOOLEAN /\ ~o.sprt
    BY <1>1, FieldNames, Zenon
  <2> QED
    BY <2>1, <2>2, Zenon DEF OptionsFit
<1>3. Len(eo) \in Nat /\ eo = [k \in 1 .. Len(eo) |-> eo[k]]
  BY <1>1
<1> QED
  BY <1>1, <1>2, <1>3 DEF IInv

LEMMA FlagFits ==
  ASSUME OptionsFit, NEW a, Flag(a)
  PROVE  OptionsFit'
<1>1. o' = [field \in DOMAIN o |-> IF <<a.name, field>> \in Flags THEN TRUE ELSE o[field]]
  BY DEF Flag
<1>2. \A field \in {"boardSize", "gameRule", "sprt", "elo0", "elo1"} :
        <<a.name, field>> \notin Flags
  BY DEF Flags
<1>3. /\ DOMAIN o' = Fields /\ o' = [field \in Fields |-> o'[field]]
      /\ \A field \in {"boardSize", "gameRule", "sprt", "elo0", "elo1"} : o'[field] = o[field]
  BY <1>1, <1>2, FieldNames DEF OptionsFit
<1> QED
  BY <1>3 DEF OptionsFit

LEMMA ValueFits ==
  ASSUME OptionsFit, NEW a, Value(a)
  PROVE  OptionsFit'
<1>1. CASE o' = o
  BY <1>1 DEF OptionsFit
<1>2. CASE /\ ~BadValue(a)
           /\ o' = [field \in DOMAIN o |->
                      IF <<a.name, field>> \in Values THEN a.args ELSE o[field]]
  <2>1. /\ <<a.name, "boardSize">> \in Values => a.name = "-boardsize"
        /\ <<a.name, "gameRule">> \in Values => a.name = "-rule"
        /\ <<a.name, "sprt">> \notin Values
        /\ <<a.name, "elo0">> \notin Values /\ <<a.name, "elo1">> \notin Values
    BY DEF Values
  <2>2. /\ a.name = "-boardsize" => a.args \in 5 .. 22
        /\ a.name = "-rule" => a.args \in {0, 1, 4}
    BY <1>2 DEF BadValue
  <2>3. /\ DOMAIN o' = Fields /\ o' = [field \in Fields |-> o'[field]]
        /\ \A field \in Fields :
             o'[field] = IF <<a.name, field>> \in Values THEN a.args ELSE o[field]
    BY <1>2 DEF OptionsFit
  <2>4. o'.boardSize \in 5 .. 22
    BY <2>1, <2>2, <2>3, FieldNames DEF OptionsFit
  <2>5. o'.gameRule \in {0, 1, 4}
    BY <2>1, <2>2, <2>3, FieldNames DEF OptionsFit
  <2>6. o'.sprt = o.sprt /\ o'.elo0 = o.elo0 /\ o'.elo1 = o.elo1
    BY <2>1, <2>3, FieldNames
  <2> QED
    BY <2>3, <2>4, <2>5, <2>6 DEF OptionsFit
<1> QED
  BY <1>1, <1>2 DEF Value, Die

LEMMA SectionFits ==
  ASSUME OptionsFit, NEW a \in Argument, Section(a)
  PROVE  OptionsFit'
<1> DEFINE tested == [o EXCEPT !.sprt = TRUE]
<1>1. CASE o' = o
  BY <1>1 DEF OptionsFit
<1>2. ASSUME AllLegal(a), a.name \in {"-openings", "-sample"}
      PROVE  \E V : Parsed(a, o) \in Like(a.name, o, V)
  BY <1>2, ParsedKeeps DEF OptionSections, OptionsFit
<1>3. CASE AllLegal(a) /\ a.name = "-openings" /\ o' = Parsed(a, o)
  <2>1. PICK V : o' \in Like(a.name, o, V)
    BY <1>2, <1>3
  <2>2. /\ o' \in [Fields -> V]
        /\ \A field \in {"boardSize", "gameRule", "sprt", "elo0", "elo1"} : o'[field] = o[field]
    BY <1>3, <2>1 DEF Like, Untouched
  <2> QED
    BY <2>2 DEF OptionsFit
<1>4. CASE /\ AllLegal(a) /\ a.name = "-sample"
           /\ o' = [Parsed(a, o) EXCEPT !.fileName = DefaultFileName(Parsed(a, o))]
  <2> DEFINE named == Parsed(a, o)
  <2>1. PICK V : named \in Like(a.name, o, V)
    BY <1>2, <1>4
  <2>2. /\ named \in [Fields -> V]
        /\ \A field \in {"boardSize", "gameRule", "sprt", "elo0", "elo1"} :
             named[field] = o[field]
    BY <1>4, <2>1 DEF Like, Untouched
  <2> HIDE DEF named
  <2>3. /\ DOMAIN o' = Fields /\ o' = [field \in Fields |-> o'[field]]
        /\ \A field \in {"boardSize", "gameRule", "sprt", "elo0", "elo1"} : o'[field] = o[field]
    BY <1>4, <2>2, FieldNames DEF named
  <2> QED
    BY <2>3 DEF OptionsFit
<1>5. CASE /\ AllLegal(a) /\ a.name = "-sprt"
           /\ SprtValid(Parsed(a, tested)) /\ o' = Parsed(a, tested)
  <2>1. /\ DOMAIN tested = Fields /\ tested = [field \in Fields |-> tested[field]]
        /\ tested.boardSize = o.boardSize /\ tested.gameRule = o.gameRule
        /\ tested.sprt = TRUE
    BY FieldNames DEF OptionsFit
  <2> HIDE DEF tested
  <2>2. PICK V : o' \in Like(a.name, tested, V)
    BY <1>5, <2>1, ParsedKeeps DEF OptionSections
  <2>3. /\ o' \in [Fields -> V]
        /\ \A field \in {"boardSize", "gameRule", "sprt"} : o'[field] = tested[field]
    BY <2>2 DEF Like, Untouched
  <2>4. o'.elo0 < o'.elo1
    BY <1>5 DEF SprtValid
  <2> QED
    BY <2>1, <2>3, <2>4 DEF OptionsFit
<1> QED
  BY <1>1, <1>3, <1>4, <1>5 DEF Section, Die, tested

\* An engine more
LEMMA EngineAdded ==
  ASSUME Len(eo) \in Nat, eo = [k \in 1 .. Len(eo) |-> eo[k]], NEW e, eo' = Append(eo, e)
  PROVE  Len(eo') \in Nat /\ eo' = [k \in 1 .. Len(eo') |-> eo'[k]]
<1> DEFINE T == {eo[k] : k \in 1 .. Len(eo)} \cup {e}
<1>1. eo \in [1 .. Len(eo) -> T]
  OBVIOUS
<1>2. e \in T
  OBVIOUS
<1> HIDE DEF T
<1>3. eo \in Seq(T)
  BY <1>1, IsASequence
<1>4. eo' \in Seq(T)
  BY <1>2, <1>3
<1>5. Len(eo') \in Nat /\ eo' \in [1 .. Len(eo') -> T]
  BY <1>4, LenProperties, Zenon
<1> QED
  BY <1>5

LEMMA StepFits ==
  ASSUME IInv, [Next]_vars
  PROVE  IInv'
<1>1. OptionsFit /\ Len(eo) \in Nat /\ eo = [k \in 1 .. Len(eo) |-> eo[k]]
  BY DEF IInv
<1>2. ASSUME NEW a \in Argument, Flag(a) \/ Value(a) \/ Section(a)
      PROVE  IInv'
  <2>1. eo' = eo /\ pc' # "ready"
    BY <1>2 DEF Flag, Value, Section, Reads, Die
  <2>2. OptionsFit'
    BY <1>1, <1>2, FlagFits, ValueFits, SectionFits
  <2> QED
    BY <1>1, <2>1, <2>2 DEF IInv
<1>3. ASSUME NEW a \in Argument, Engine(a) \/ Each(a) \/ Unknown(a)
      PROVE  IInv'
  <2>1. o' = o /\ pc' # "ready" /\ (eo' = eo \/ \E e : eo' = Append(eo, e))
    BY <1>3 DEF Engine, Each, Unknown, Reads, Die
  <2>2. OptionsFit'
    BY <1>1, <2>1 DEF OptionsFit
  <2>3. Len(eo') \in Nat /\ eo' = [k \in 1 .. Len(eo') |-> eo'[k]]
    BY <1>1, <2>1, EngineAdded, Zenon
  <2> QED
    BY <2>1, <2>2, <2>3 DEF IInv
<1>4. CASE EndOfLine
  <2>1. /\ o' = o /\ (pc' = "ready" => EnginesFit)
        /\ \/ eo' = eo
           \/ eo' = [k \in DOMAIN eo |-> Merged(eo[k])]
    BY <1>4 DEF EndOfLine
  <2>2. OptionsFit'
    BY <1>1, <2>1 DEF OptionsFit
  <2>3. Len(eo') = Len(eo) /\ eo' = [k \in 1 .. Len(eo') |-> eo'[k]]
    BY <1>1, <2>1
  <2> QED
    BY <1>1, <2>1, <2>2, <2>3 DEF IInv, EnginesFit
<1>5. CASE UNCHANGED vars
  BY <1>5 DEF vars, IInv, OptionsFit, EnginesFit
<1> QED
  BY <1>2, <1>3, <1>4, <1>5 DEF Next, Done

(***************************************************************************)
(* What is accepted, however long the command line is and whatever it      *)
(* says more than once, is what the other parts are written for: a board   *)
(* that fits into its margin, a rule they know, two engines, and a test    *)
(* with two hypotheses for SPRT.                                           *)
(***************************************************************************)
THEOREM AcceptedCanBePlayed == Spec => []AcceptedIsPlayable
<1>1. IInv => AcceptedIsPlayable
  BY DEF IInv, OptionsFit, EnginesFit, AcceptedIsPlayable
<1> QED
  BY <1>1, InitFits, StepFits, PTL DEF Spec

-----------------------------------------------------------------------------
EngineFields == DOMAIN EngineDefault

\* An engine whose raw options are of U
IsEngine(e, U) ==
  /\ DOMAIN e = EngineFields /\ e = [field \in EngineFields |-> e[field]]
  /\ e.options \in Seq(U)

LEMMA EngineFieldNames ==
  /\ EngineFields = {"cmd", "name", "options", "timeoutMatch", "timeoutTurn", "increment",
                     "nodes", "depth", "numThreads", "maxMemory", "tolerance"}
  /\ EngineDefault.options = <<>>
  /\ \A U : IsEngine(EngineDefault, U)
<1>1. EngineFields = {"cmd", "name", "options", "timeoutMatch", "timeoutTurn", "increment",
                      "nodes", "depth", "numThreads", "maxMemory", "tolerance"}
  BY SMT DEF EngineFields, EngineDefault
<1>3. EngineDefault.options = <<>>
  BY SMT DEF EngineDefault
<1>4. EngineDefault = [field \in EngineFields |-> EngineDefault[field]]
  <2> DEFINE m == 367001600
             t == 3000
  <2>1. EngineDefault = [cmd |-> "", name |-> "", options |-> <<>>, timeoutMatch |-> 0,
                         timeoutTurn |-> 0, increment |-> 0, nodes |-> 0, depth |-> 0,
                         numThreads |-> 0, maxMemory |-> m, tolerance |-> t]
    BY SMT DEF EngineDefault
  <2> HIDE DEF m, t
  <2>2. EngineDefault = [field \in DOMAIN EngineDefault |-> EngineDefault[field]]
    BY <2>1, Zenon
  <2> QED
    BY <2>2, Zenon DEF EngineFields
<1>2. \A U : EngineDefault.options \in Seq(U)
  BY <1>3
<1> QED
  BY <1>1, <1>2, <1>3, <1>4, Zenon DEF IsEngine, EngineFields

LEMMA EngineFieldsSet ==
  /\ DOMAIN EngineField = {"cmd", "name", "depth", "nodes", "maxmemory", "thread"}
  /\ \A key \in DOMAIN EngineField : EngineField[key] \in EngineFields \ {"options"}
BY EngineFieldNames DEF EngineField

\* z is the engine e after the setting s.
SetFrom(z, e, s) ==
  /\ z.options = IF s.key = "option" THEN Append(e.options, s.value) ELSE e.options
  /\ \A field \in EngineFields \ {"options"} :
       z[field] = IF Names(s, field) THEN SetEngine(EngineDefault, s)[field] ELSE e[field]

LEMMA EngineSet ==
  ASSUME NEW U, NEW e, IsEngine(e, U), NEW s, s.key \in EngineKeys, s.value \in U
  PROVE  IsEngine(SetEngine(e, s), U) /\ SetFrom(SetEngine(e, s), e, s)
<1>1. CASE s.key = "tc"
  <2>0. s.key \notin {"tolerance", "option"} /\ s.key \notin DOMAIN EngineField
    BY <1>1, EngineFieldsSet
  <2> DEFINE tm == 1000 * s.value[1]
             tt == 1000 * (IF s.value[2] = -1 THEN s.value[1] ELSE s.value[2])
             ti == 1000 * s.value[3]
  <2>1. SetEngine(e, s) = TimeControl(e, s.value)
    BY <1>1, <2>0, Zenon DEF SetEngine
  <2>2. SetEngine(EngineDefault, s) = TimeControl(EngineDefault, s.value)
    BY <1>1, <2>0, Zenon DEF SetEngine
  <2>3. \A field : Names(s, field) <=> field \in {"timeoutMatch", "timeoutTurn", "increment"}
    BY <1>1, <2>0, Zenon DEF Names
  <2>4. \A x : TimeControl(x, s.value) =
          [x EXCEPT !.timeoutMatch = tm, !.timeoutTurn = tt, !.increment = ti]
    BY Zenon DEF TimeControl
  <2> HIDE DEF tm, tt, ti
  <2>5. SetEngine(e, s) = [e EXCEPT !.timeoutMatch = tm, !.timeoutTurn = tt, !.increment = ti]
    BY <2>1, <2>4
  <2>6. SetEngine(EngineDefault, s) =
          [EngineDefault EXCEPT !.timeoutMatch = tm, !.timeoutTurn = tt, !.increment = ti]
    BY <2>2, <2>4
  <2> QED
    BY <1>1, <2>3, <2>5, <2>6, EngineFieldNames DEF IsEngine, SetFrom
<1>2. CASE s.key = "tolerance"
  <2>0. s.key \notin {"tc", "option"} /\ s.key \notin DOMAIN EngineField
    BY <1>2, EngineFieldsSet
  <2> DEFINE v == 1000 * s.value
  <2>1. SetEngine(e, s) = [e EXCEPT !.tolerance = v]
    BY <1>2, <2>0, Zenon DEF SetEngine
  <2>2. SetEngine(EngineDefault, s) = [EngineDefault EXCEPT !.tolerance = v]
    BY <1>2, <2>0, Zenon DEF SetEngine
  <2>3. \A field : Names(s, field) <=> field = "tolerance"
    BY <1>2, <2>0, Zenon DEF Names
  <2> HIDE DEF v
  <2> QED
    BY <1>2, <2>1, <2>2, <2>3, EngineFieldNames DEF IsEngine, SetFrom
<1>3. CASE s.key = "option"
  <2>0. s.key \notin {"tc", "tolerance"} /\ s.key \notin DOMAIN EngineField
    BY <1>3, EngineFieldsSet
  <2>1. SetEngine(e, s) = [e EXCEPT !.options = Append(@, s.value)]
    BY <1>3, <2>0, Zenon DEF SetEngine
  <2>2. \A field : Names(s, field) <=> field = "options"
    BY <1>3, <2>0, Zenon DEF Names
  <2>3. Append(e.options, s.value) \in Seq(U)
    BY DEF IsEngine
  <2> QED
    BY <1>3, <2>1, <2>2, <2>3, EngineFieldNames DEF IsEngine, SetFrom
<1>4. CASE s.key \in DOMAIN EngineField
  <2>0. s.key \notin {"tc", "tolerance", "option"}
    BY <1>4, EngineFieldsSet
  <2> DEFINE k == EngineField[s.key]
  <2>1. SetEngine(e, s) = [e EXCEPT ![k] = s.value]
    BY <1>4, <2>0 DEF SetEngine
  <2>2. SetEngine(EngineDefault, s) = [EngineDefault EXCEPT ![k] = s.value]
    BY <1>4, <2>0 DEF SetEngine
  <2>3. \A field : Names(s, field) <=> field = k
    BY <1>4, <2>0 DEF Names
  <2>4. k \in EngineFields \ {"options"}
    BY <1>4, EngineFieldsSet
  <2> HIDE DEF k
  <2> QED
    BY <2>0, <2>1, <2>2, <2>3, <2>4, EngineFieldNames DEF IsEngine, SetFrom
<1> QED
  BY <1>1, <1>2, <1>3, <1>4 DEF EngineKeys

LEMMA MaxIs ==
  ASSUME NEW T, T \subseteq Int, NEW m \in T, \A y \in T : m >= y
  PROVE  Max(T) = m
<1>1. \E x \in T : \A y \in T : x >= y
  OBVIOUS
<1>2. Max(T) \in T /\ \A y \in T : Max(T) >= y
  BY <1>1, Zenon DEF Max
<1>3. Max(T) >= m /\ m >= Max(T) /\ Max(T) \in Int /\ m \in Int
  BY <1>2
<1> QED
  BY <1>3

LEMMA MaxIn ==
  ASSUME NEW n \in Nat, NEW T, T \subseteq 1 .. n, T # {}
  PROVE  Max(T) \in T /\ \A y \in T : Max(T) >= y
<1> DEFINE R == {n - x : x \in T}
<1>1. R \subseteq Nat /\ R # {}
  <2>1. \A x \in T : n - x \in Nat
    OBVIOUS
  <2> QED
    BY <2>1
<1>2. PICK r \in R : \A y \in R : r <= y
  <2> HIDE DEF R
  <2> QED
    BY <1>1, SmallestElement
<1>3. PICK x \in T : r = n - x
  OBVIOUS
<1>4. \A y \in T : x >= y
  <2>1. \A y \in T : r <= n - y
    BY <1>2
  <2> QED
    BY <1>3, <2>1
<1>5. Max(T) = x
  <2>1. T \subseteq Int /\ x \in T
    OBVIOUS
  <2> QED
    BY <1>4, <2>1, MaxIs, Zenon
<1> QED
  BY <1>4, <1>5

\* Records of engines, as a set, with given values
Engines(U, V) == {e \in [EngineFields -> V] : e.options \in Seq(U)}

LEMMA EnginesAre ==
  ASSUME NEW U, NEW V, NEW e \in Engines(U, V)
  PROVE  IsEngine(e, U)
BY DEF Engines, IsEngine

\* The raw options in the first settings, and in the first arguments of a line
OptionRuns(U, settings) ==
  {v \in [0 .. Len(settings) -> Seq(U)] :
     /\ v[0] = <<>>
     /\ \A j \in 1 .. Len(settings) :
          v[j] = IF settings[j].key = "option" THEN Append(v[j - 1], settings[j].value)
                                               ELSE v[j - 1]}

EachRuns(U, line) ==
  {v \in [0 .. Len(line) -> Seq(U)] :
     /\ v[0] = <<>>
     /\ \A i \in 1 .. Len(line) :
          v[i] = IF line[i].name = "-each" THEN v[i - 1] \o OptionValues(line[i].args)
                                           ELSE v[i - 1]}

(***************************************************************************)
(* The raw options of settings, one after the other.                       *)
(***************************************************************************)
LEMMA OptionValuesRun ==
  ASSUME NEW U, NEW settings, Len(settings) \in Nat,
         \A j \in 1 .. Len(settings) : settings[j].value \in U
  PROVE  \E v \in OptionRuns(U, settings) : OptionValues(settings) = v[Len(settings)]
<1> DEFINE n == Len(settings)
           L == Seq(U)
           Next1(x, j) == IF settings[j].key = "option" THEN Append(x, settings[j].value)
                                                        ELSE x
           step == [xj \in L \X (1 .. n) |-> Next1(xj[1], xj[2])]
           Defines(f) == f = [j \in 0 .. n |-> IF j = 0 THEN <<>> ELSE Next1(f[j - 1], j)]
<1>1. n \in Nat
  OBVIOUS
<1>2. ASSUME NEW x \in L, NEW j \in 1 .. n
      PROVE  Next1(x, j) \in L
  <2>1. settings[j].value \in U
    OBVIOUS
  <2>2. Append(x, settings[j].value) \in Seq(U)
    BY <2>1
  <2> QED
    BY <2>2
<1>3. <<>> \in L
  OBVIOUS
<1> HIDE DEF L, Next1
<1>4. step \in [L \X (1 .. n) -> L]
  BY <1>2
<1>5. \A x \in L, j \in 1 .. n : step[<<x, j>>] = Next1(x, j)
  OBVIOUS
<1> HIDE DEF step, n
<1>6. \E f : f \in LoopRuns(L, <<>>, n, step)
  BY <1>1, <1>3, <1>4, LoopExists, Zenon
<1>7. PICK f \in [0 .. n -> L] :
        f[0] = <<>> /\ \A j \in 1 .. n : f[j] = step[<<f[j - 1], j>>]
  BY <1>6, Zenon DEF LoopRuns
<1>8. Defines(f)
  <2>1. ASSUME NEW j \in 0 .. n
        PROVE  f[j] = IF j = 0 THEN <<>> ELSE Next1(f[j - 1], j)
    <3>1. CASE j = 0
      BY <1>7, <3>1, Zenon
    <3>2. CASE j # 0
      <4>1. j \in 1 .. n /\ j - 1 \in 0 .. n
        BY <1>1, <3>2
      <4>2. f[j - 1] \in L
        BY <1>7, <4>1
      <4> QED
        BY <1>5, <1>7, <3>2, <4>1, <4>2, Zenon
    <3> QED
      BY <3>1, <3>2
  <2>2. f = [j \in 0 .. n |-> f[j]]
    BY <1>7
  <2> QED
    BY <2>1, <2>2
<1> DEFINE v == CHOOSE h : Defines(h)
<1>9. Defines(v) /\ OptionValues(settings) = v[n]
  <2>1. OptionValues(settings) = v[n]
    BY DEF OptionValues, n, Next1
  <2> HIDE DEF Defines
  <2> QED
    BY <1>8, <2>1, Zenon
<1> HIDE DEF v
<1>10. \A j \in 0 .. n : v[j] = IF j = 0 THEN <<>> ELSE Next1(v[j - 1], j)
  BY <1>9
<1>11. \A j \in 0 .. n : v[j] \in L
  <2> DEFINE T == {j \in 0 .. n : v[j] \in L}
  <2>1. 0 \in T
    BY <1>1, <1>3, <1>10
  <2>2. ASSUME NEW j \in 1 .. n, j - 1 \in T
        PROVE  j \in T
    <3>1. v[j - 1] \in L /\ j \in 0 .. n /\ j # 0
      BY <1>1, <2>2
    <3>2. v[j] \in L
      BY <1>2, <1>10, <3>1, Zenon
    <3> QED
      BY <3>1, <3>2
  <2> HIDE DEF T
  <2>3. \A j \in 0 .. n : j \in T
    BY <1>1, <2>1, <2>2, Induction, Zenon
  <2> QED
    BY <2>3 DEF T
<1>12. v \in [0 .. n -> L] /\ v[0] = <<>>
  <2>1. v = [j \in 0 .. n |-> v[j]]
    BY <1>9
  <2>2. 0 \in 0 .. n
    BY <1>1
  <2> QED
    BY <1>10, <1>11, <2>1, <2>2
<1>13. \A j \in 1 .. n : v[j] = Next1(v[j - 1], j)
  BY <1>1, <1>10
<1> QED
  BY <1>9, <1>12, <1>13 DEF Next1, n, L, OptionRuns

LEMMA OptionValuesType ==
  ASSUME NEW U, NEW settings, Len(settings) \in Nat,
         \A j \in 1 .. Len(settings) : settings[j].value \in U
  PROVE  OptionValues(settings) \in Seq(U)
<1>1. PICK v \in OptionRuns(U, settings) : OptionValues(settings) = v[Len(settings)]
  BY OptionValuesRun, Zenon
<1>2. v \in [0 .. Len(settings) -> Seq(U)]
  BY DEF OptionRuns
<1> QED
  BY <1>1, <1>2

(***************************************************************************)
(* The raw options of all -each, argument by argument.                     *)
(***************************************************************************)
LEMMA OptionsOfEachRun ==
  ASSUME NEW U, NEW line, Len(line) \in Nat,
         \A i \in 1 .. Len(line) : line[i].name = "-each" => OptionValues(line[i].args) \in Seq(U)
  PROVE  \E v \in EachRuns(U, line) : OptionsOfEach(line) = v[Len(line)]
<1> DEFINE n == Len(line)
           L == Seq(U)
           Next1(x, i) == IF line[i].name = "-each" THEN x \o OptionValues(line[i].args)
                                                    ELSE x
           step == [xi \in L \X (1 .. n) |-> Next1(xi[1], xi[2])]
           Defines(f) == f = [i \in 0 .. n |-> IF i = 0 THEN <<>> ELSE Next1(f[i - 1], i)]
<1>1. n \in Nat
  OBVIOUS
<1>2. ASSUME NEW x \in L, NEW i \in 1 .. n
      PROVE  Next1(x, i) \in L
  <2>1. CASE line[i].name = "-each"
    <3>1. OptionValues(line[i].args) \in Seq(U)
      BY <2>1
    <3>2. x \o OptionValues(line[i].args) \in Seq(U)
      BY <3>1
    <3> QED
      BY <2>1, <3>2
  <2> QED
    BY <2>1
<1>3. <<>> \in L
  OBVIOUS
<1> HIDE DEF L, Next1
<1>4. step \in [L \X (1 .. n) -> L]
  BY <1>2
<1>5. \A x \in L, i \in 1 .. n : step[<<x, i>>] = Next1(x, i)
  OBVIOUS
<1> HIDE DEF step, n
<1>6. \E f : f \in LoopRuns(L, <<>>, n, step)
  BY <1>1, <1>3, <1>4, LoopExists, Zenon
<1>7. PICK f \in [0 .. n -> L] :
        f[0] = <<>> /\ \A i \in 1 .. n : f[i] = step[<<f[i - 1], i>>]
  BY <1>6, Zenon DEF LoopRuns
<1>8. Defines(f)
  <2>1. ASSUME NEW i \in 0 .. n
        PROVE  f[i] = IF i = 0 THEN <<>> ELSE Next1(f[i - 1], i)
    <3>1. CASE i = 0
      BY <1>7, <3>1, Zenon
    <3>2. CASE i # 0
      <4>1. i \in 1 .. n /\ i - 1 \in 0 .. n
        BY <1>1, <3>2
      <4>2. f[i - 1] \in L
        BY <1>7, <4>1
      <4> QED
        BY <1>5, <1>7, <3>2, <4>1, <4>2, Zenon
    <3> QED
      BY <3>1, <3>2
  <2>2. f = [i \in 0 .. n |-> f[i]]
    BY <1>7
  <2> QED
    BY <2>1, <2>2
<1> DEFINE v == CHOOSE h : Defines(h)
<1>9. Defines(v) /\ OptionsOfEach(line) = v[n]
  <2>1. OptionsOfEach(line) = v[n]
    BY DEF OptionsOfEach, n, Next1
  <2> HIDE DEF Defines
  <2> QED
    BY <1>8, <2>1, Zenon
<1> HIDE DEF v
<1>10. \A i \in 0 .. n : v[i] = IF i = 0 THEN <<>> ELSE Next1(v[i - 1], i)
  BY <1>9
<1>11. \A i \in 0 .. n : v[i] \in L
  <2> DEFINE T == {i \in 0 .. n : v[i] \in L}
  <2>1. 0 \in T
    BY <1>1, <1>3, <1>10
  <2>2. ASSUME NEW i \in 1 .. n, i - 1 \in T
        PROVE  i \in T
    <3>1. v[i - 1] \in L /\ i \in 0 .. n /\ i # 0
      BY <1>1, <2>2
    <3>2. v[i] \in L
      BY <1>2, <1>10, <3>1, Zenon
    <3> QED
      BY <3>1, <3>2
  <2> HIDE DEF T
  <2>3. \A i \in 0 .. n : i \in T
    BY <1>1, <2>1, <2>2, Induction, Zenon
  <2> QED
    BY <2>3 DEF T
<1>12. v \in [0 .. n -> L] /\ v[0] = <<>>
  <2>1. v = [i \in 0 .. n |-> v[i]]
    BY <1>9
  <2>2. 0 \in 0 .. n
    BY <1>1
  <2> QED
    BY <1>10, <1>11, <2>1, <2>2
<1>13. \A i \in 1 .. n : v[i] = Next1(v[i - 1], i)
  BY <1>1, <1>10
<1> QED
  BY <1>9, <1>12, <1>13 DEF Next1, n, L, EachRuns

(***************************************************************************)
(* One argument more.                                                      *)
(***************************************************************************)
LEMMA OptionsOfOneMore ==
  ASSUME NEW U, NEW line \in Seq(Argument), NEW a \in Argument,
         \A b \in Argument : b.name = "-each" => OptionValues(b.args) \in Seq(U)
  PROVE  OptionsOfEach(Append(line, a)) =
           IF a.name = "-each" THEN OptionsOfEach(line) \o OptionValues(a.args)
                               ELSE OptionsOfEach(line)
<1> DEFINE n == Len(line)
           more == Append(line, a)
<1>1. /\ n \in Nat /\ Len(more) = n + 1 /\ more[n + 1] = a
      /\ \A i \in 1 .. n : more[i] = line[i] /\ line[i] \in Argument
  OBVIOUS
<1>2. \A i \in 1 .. n + 1 : more[i] \in Argument
  BY <1>1
<1> HIDE DEF n, more
<1>3. PICK v \in [0 .. n -> Seq(U)] :
        /\ v[0] = <<>> /\ OptionsOfEach(line) = v[n]
        /\ \A i \in 1 .. n :
             v[i] = IF line[i].name = "-each" THEN v[i - 1] \o OptionValues(line[i].args)
                                              ELSE v[i - 1]
  <2>1. Len(line) \in Nat
    BY <1>1 DEF n
  <2>2. \A i \in 1 .. Len(line) : line[i].name = "-each" => OptionValues(line[i].args) \in Seq(U)
    BY <1>1 DEF n
  <2>3. \E u \in EachRuns(U, line) : OptionsOfEach(line) = u[Len(line)]
    BY <2>1, <2>2, OptionsOfEachRun, Zenon
  <2> QED
    BY <2>3 DEF n, EachRuns
<1>4. PICK w \in [0 .. n + 1 -> Seq(U)] :
        /\ w[0] = <<>> /\ OptionsOfEach(more) = w[n + 1]
        /\ \A i \in 1 .. n + 1 :
             w[i] = IF more[i].name = "-each" THEN w[i - 1] \o OptionValues(more[i].args)
                                              ELSE w[i - 1]
  <2>1. Len(more) \in Nat /\ Len(more) = n + 1
    BY <1>1
  <2>2. \A i \in 1 .. Len(more) : more[i].name = "-each" => OptionValues(more[i].args) \in Seq(U)
    BY <1>1, <1>2
  <2>3. \E w \in EachRuns(U, more) : OptionsOfEach(more) = w[Len(more)]
    BY <2>1, <2>2, OptionsOfEachRun, Zenon
  <2> QED
    BY <2>1, <2>3 DEF EachRuns
<1>5. w[n] = v[n]
  <2> DEFINE T == {i \in 0 .. n : w[i] = v[i]}
  <2>1. 0 \in T
    BY <1>1, <1>3, <1>4
  <2>2. ASSUME NEW i \in 1 .. n, i - 1 \in T
        PROVE  i \in T
    <3>1. i \in 0 .. n /\ i \in 1 .. n + 1 /\ w[i - 1] = v[i - 1] /\ more[i] = line[i]
      BY <1>1, <2>2
    <3>2. w[i] = v[i]
      BY <1>3, <1>4, <3>1, Zenon
    <3> QED
      BY <3>1, <3>2
  <2> HIDE DEF T
  <2>3. \A i \in 0 .. n : i \in T
    BY <1>1, <2>1, <2>2, Induction, Zenon
  <2>4. n \in 0 .. n
    BY <1>1
  <2> QED
    BY <2>3, <2>4 DEF T
<1>6. n + 1 \in 1 .. n + 1 /\ n + 1 - 1 = n
  BY <1>1
<1>7. w[n + 1] = IF a.name = "-each" THEN w[n] \o OptionValues(a.args) ELSE w[n]
  BY <1>1, <1>4, <1>6
<1> QED
  BY <1>3, <1>4, <1>5, <1>7, Zenon DEF more

\* Among the first i settings
NamedIn(settings, field, i) == {j \in 1 .. i : Names(settings[j], field)}

LEMMA NamedInOneMore ==
  ASSUME NEW settings, NEW field, NEW i \in Nat \ {0}
  PROVE  IF Names(settings[i], field)
           THEN NamedIn(settings, field, i) # {} /\ Max(NamedIn(settings, field, i)) = i
           ELSE NamedIn(settings, field, i) = NamedIn(settings, field, i - 1)
<1> DEFINE N == NamedIn(settings, field, i)
<1>1. CASE Names(settings[i], field)
  <2>1. N \subseteq Int /\ i \in N /\ \A y \in N : i >= y
    BY <1>1 DEF NamedIn
  <2> HIDE DEF N
  <2>2. Max(N) = i
    BY <2>1, MaxIs, Zenon
  <2> QED
    BY <1>1, <2>1, <2>2 DEF N
<1>2. CASE ~Names(settings[i], field)
  <2>1. \A j \in 1 .. i : Names(settings[j], field) => j \in 1 .. i - 1
    BY <1>2
  <2>2. 1 .. i - 1 \subseteq 1 .. i
    OBVIOUS
  <2>3. NamedIn(settings, field, i) = NamedIn(settings, field, i - 1)
    BY <2>1, <2>2 DEF NamedIn
  <2> QED
    BY <1>2, <2>3
<1> QED
  BY <1>1, <1>2

(***************************************************************************)
(* What an engine is after a section: every field has the value that the   *)
(* last setting of it gives, or the one from before; raw options are added.*)
(***************************************************************************)
LEMMA ParsedEngine ==
  ASSUME NEW a \in Argument, a.name \in {"-engine", "-each"}, AllLegal(a), NEW U,
         NEW x, IsEngine(x, U), \A j \in DOMAIN a.args : a.args[j].value \in U
  PROVE  /\ IsEngine(Parsed(a, x), U)
         /\ Parsed(a, x).options = x.options \o OptionValues(a.args)
         /\ \A field \in EngineFields \ {"options"} :
              Parsed(a, x)[field] = LastValue(a.args, field, x[field])
<1> DEFINE s == a.args
           n == Len(s)
           V == Seq(U) \cup {x[field] : field \in EngineFields}
                  \cup {SetEngine(EngineDefault, s[j])[field] : j \in 1 .. n, field \in EngineFields}
           L == Engines(U, V)
<1>1. n \in Nat /\ DOMAIN s = 1 .. n
  BY CommandLineAssumption DEF Sections
<1>2. \A j \in 1 .. n : s[j].key \in EngineKeys /\ s[j].value \in U
  BY <1>1 DEF AllLegal, Legal
<1>3. \A y : \A j \in 1 .. n : SetOption(a.name, y, s[j]) = SetEngine(y, s[j])
  BY Zenon DEF SetOption
<1>4. x \in L
  <2>1. x \in [EngineFields -> V] /\ x.options \in Seq(U)
    BY DEF IsEngine
  <2> HIDE DEF V
  <2> QED
    BY <2>1 DEF Engines
<1>5. /\ Seq(U) \subseteq V
      /\ \A j \in 1 .. n, field \in EngineFields : SetEngine(EngineDefault, s[j])[field] \in V
  OBVIOUS
<1> HIDE DEF V
<1>6. ASSUME NEW y \in L, NEW j \in 1 .. n
      PROVE  SetEngine(y, s[j]) \in L /\ SetFrom(SetEngine(y, s[j]), y, s[j])
  <2> DEFINE z == SetEngine(y, s[j])
  <2>1. IsEngine(y, U) /\ y \in [EngineFields -> V]
    BY EnginesAre DEF Engines
  <2>2. IsEngine(z, U) /\ SetFrom(z, y, s[j])
    BY <1>2, <2>1, EngineSet, Zenon
  <2> HIDE DEF z
  <2>3. \A field \in EngineFields : z[field] \in V
    BY <1>5, <2>1, <2>2 DEF IsEngine, SetFrom
  <2>4. z \in [EngineFields -> V]
    BY <2>2, <2>3 DEF IsEngine
  <2>5. z \in L
    BY <2>2, <2>4 DEF Engines, IsEngine
  <2> QED
    BY <2>2, <2>5 DEF z
<1> HIDE DEF L
<1>7. PICK after \in [0 .. n -> L] :
        /\ after[0] = x /\ Parsed(a, x) = after[n]
        /\ \A i \in 1 .. n : after[i] = SetEngine(after[i - 1], s[i])
  <2>1. \A y \in L, i \in 1 .. Len(a.args) : SetOption(a.name, y, a.args[i]) \in L
    <3>1. ASSUME NEW y \in L, NEW i \in 1 .. n
          PROVE  SetOption(a.name, y, s[i]) \in L
      BY <1>3, <1>6, <3>1
    <3> QED
      BY <3>1, Zenon
  <2>2. Len(a.args) \in Nat
    BY <1>1
  <2>3. \E after \in SetRuns(L, a, x) : Parsed(a, x) = after[Len(a.args)]
    BY <1>4, <2>1, <2>2, ParsedRun, Zenon
  <2>4. PICK after \in SetRuns(L, a, x) : Parsed(a, x) = after[Len(a.args)]
    BY <2>3
  <2>5. /\ after \in [0 .. n -> L] /\ after[0] = x
        /\ \A i \in 1 .. n : after[i] = SetOption(a.name, after[i - 1], s[i])
    BY Zenon DEF SetRuns
  <2>6. \A i \in 1 .. n : after[i] = SetEngine(after[i - 1], s[i])
    BY <1>3, <2>5, Zenon
  <2> QED
    BY <2>4, <2>5, <2>6
<1>8. PICK v \in [0 .. n -> Seq(U)] :
        /\ v[0] = <<>> /\ OptionValues(s) = v[n]
        /\ \A j \in 1 .. n :
             v[j] = IF s[j].key = "option" THEN Append(v[j - 1], s[j].value) ELSE v[j - 1]
  <2>1. Len(s) \in Nat /\ \A j \in 1 .. Len(s) : s[j].value \in U
    BY <1>1, <1>2
  <2> HIDE DEF s
  <2>2. PICK v \in OptionRuns(U, s) : OptionValues(s) = v[Len(s)]
    BY <2>1, OptionValuesRun, Zenon
  <2> QED
    BY <2>2 DEF OptionRuns
<1>9. x.options \in Seq(U)
  BY DEF IsEngine
<1> DEFINE Value1(field, i) ==
             IF NamedIn(s, field, i) = {} THEN x[field]
             ELSE SetEngine(EngineDefault, s[Max(NamedIn(s, field, i))])[field]
           T == {i \in 0 .. n :
                   /\ after[i].options = x.options \o v[i]
                   /\ \A field \in EngineFields \ {"options"} :
                        after[i][field] = Value1(field, i)}
<1>10. 0 \in T
  <2>1. \A field : NamedIn(s, field, 0) = {}
    BY DEF NamedIn
  <2>2. x.options \o <<>> = x.options
    BY <1>9
  <2> QED
    <3>1. 0 \in 0 .. n
      BY <1>1
    <3>2. after[0].options = x.options \o v[0]
      BY <1>7, <1>8, <2>2
    <3>3. \A field \in EngineFields \ {"options"} : after[0][field] = Value1(field, 0)
      BY <1>7, <2>1, Zenon
    <3> QED
      BY <3>1, <3>2, <3>3
<1>11. ASSUME NEW i \in 1 .. n, i - 1 \in T
       PROVE  i \in T
  <2>1. i \in 0 .. n /\ i \in Nat \ {0} /\ i - 1 \in 0 .. n
    BY <1>1
  <2>2. /\ after[i - 1].options = x.options \o v[i - 1]
        /\ \A field \in EngineFields \ {"options"} : after[i - 1][field] = Value1(field, i - 1)
    BY <1>11
  <2>3. after[i - 1] \in L /\ v[i - 1] \in Seq(U) /\ s[i].value \in U
    BY <1>2, <1>7, <1>8, <2>1
  <2>4. after[i] = SetEngine(after[i - 1], s[i])
    BY <1>7
  <2>5. after[i].options = x.options \o v[i]
    <3>1. Append(x.options \o v[i - 1], s[i].value) = x.options \o Append(v[i - 1], s[i].value)
      <4> DEFINE p == x.options
                 q == v[i - 1]
                 w == s[i].value
      <4>1. p \in Seq(U) /\ q \in Seq(U) /\ w \in U
        BY <1>9, <2>3
      <4> HIDE DEF p, q, w
      <4>2. <<w>> \in Seq(U) /\ p \o q \in Seq(U)
        BY <4>1
      <4>3. (p \o q) \o <<w>> = p \o (q \o <<w>>)
        BY <4>1, <4>2, ConcatAssociative
      <4>4. Append(p \o q, w) = p \o Append(q, w)
        BY <4>1, <4>2, <4>3, AppendIsConcat
      <4> QED
        BY <4>4 DEF p, q, w
    <3>2. after[i].options = IF s[i].key = "option"
                               THEN Append(after[i - 1].options, s[i].value)
                               ELSE after[i - 1].options
      BY <1>6, <2>3, <2>4 DEF SetFrom
    <3> QED
      BY <1>8, <2>2, <3>1, <3>2
  <2>6. ASSUME NEW field \in EngineFields \ {"options"}
        PROVE  after[i][field] = Value1(field, i)
    <3>1. after[i][field] = IF Names(s[i], field) THEN SetEngine(EngineDefault, s[i])[field]
                                                  ELSE after[i - 1][field]
      BY <1>6, <2>3, <2>4 DEF SetFrom
    <3>2. after[i - 1][field] = Value1(field, i - 1)
      BY <2>2
    <3>3. IF Names(s[i], field)
            THEN NamedIn(s, field, i) # {} /\ Max(NamedIn(s, field, i)) = i
            ELSE NamedIn(s, field, i) = NamedIn(s, field, i - 1)
      BY <2>1, NamedInOneMore
    <3> QED
      BY <3>1, <3>2, <3>3, Zenon
  <2> QED
    BY <2>1, <2>5, <2>6
<1> HIDE DEF T
<1>12. \A i \in 0 .. n : i \in T
  BY <1>1, <1>10, <1>11, Induction, Zenon
<1>13. n \in 0 .. n
  BY <1>1
<1>14. /\ after[n].options = x.options \o v[n]
       /\ \A field \in EngineFields \ {"options"} : after[n][field] = Value1(field, n)
  BY <1>12, <1>13 DEF T
<1>15. \A field : NamedIn(s, field, n) = NamedAt(s, field)
  BY <1>1 DEF NamedIn, NamedAt
<1>16. \A field : Value1(field, n) = LastValue(s, field, x[field])
  BY <1>15 DEF LastValue
<1>17. IsEngine(after[n], U)
  BY <1>7, <1>13, EnginesAre DEF L
<1> HIDE DEF Value1
<1> QED
  BY <1>7, <1>8, <1>14, <1>16, <1>17

\* The values in the sections of command lines
Given ==
  UNION {{a.args[j].value : j \in DOMAIN a.args} : a \in {b \in Argument : b.name \in Sections}}

\* What -each sets so far
EachGives(line, field) ==
  IF Naming(line, field) = {} THEN EngineDefault[field]
  ELSE LastValue(line[Max(Naming(line, field))].args, field, EngineDefault[field])

\* e is the engine that a sets.
SetBy(e, a) ==
  /\ IsEngine(e, Given)
  /\ e.options = OptionValues(a.args)
  /\ \A field \in EngineFields \ {"options"} :
       e[field] = LastValue(a.args, field, EngineDefault[field])

EachCollected ==
  /\ IsEngine(each, Given)
  /\ eachSet <=> \E i \in DOMAIN argv : argv[i].name = "-each"
  /\ each.options = OptionsOfEach(argv)
  /\ \A field \in EngineFields \ {"options"} : each[field] = EachGives(argv, field)

EnginesSet ==
  /\ Len(eo) = EnginesIn(argv, Len(argv))
  /\ \A i \in DOMAIN argv :
       argv[i].name = "-engine" => SetBy(eo[EnginesIn(argv, i)], argv[i])

EachInv ==
  /\ IInv
  /\ argv \in Seq(Argument) /\ eachSet \in BOOLEAN
  /\ pc = "parse" => EachCollected /\ EnginesSet
  /\ EachReachesAllEngines

LEMMA GivenValues ==
  ASSUME NEW a \in Argument, a.name \in Sections
  PROVE  /\ Len(a.args) \in Nat /\ DOMAIN a.args = 1 .. Len(a.args)
         /\ \A j \in DOMAIN a.args : a.args[j].value \in Given
BY CommandLineAssumption DEF Given

LEMMA GivenOptions ==
  ASSUME NEW a \in Argument, a.name \in Sections
  PROVE  OptionValues(a.args) \in Seq(Given)
BY GivenValues, OptionValuesType

LEMMA OneMore ==
  ASSUME NEW line \in Seq(Argument), NEW a \in Argument
  PROVE  /\ Len(line) \in Nat /\ DOMAIN line = 1 .. Len(line)
         /\ Append(line, a) \in Seq(Argument) /\ Len(Append(line, a)) = Len(line) + 1
         /\ DOMAIN Append(line, a) = 1 .. Len(line) + 1
         /\ Append(line, a)[Len(line) + 1] = a
         /\ \A i \in 1 .. Len(line) : Append(line, a)[i] = line[i]
OBVIOUS

(***************************************************************************)
(* Engines are numbered in the order of the arguments.                     *)
(***************************************************************************)
LEMMA EngineNumbers ==
  ASSUME NEW line, NEW n \in Nat
  PROVE  /\ EnginesIn(line, n) \in Nat
         /\ \A i \in 1 .. n : line[i].name = "-engine" =>
              EnginesIn(line, i) \in 1 .. EnginesIn(line, n)
<1> DEFINE E(i) == {j \in 1 .. i : line[j].name = "-engine"}
<1>1. ASSUME NEW i \in Nat
      PROVE  IsFiniteSet(E(i)) /\ Cardinality(E(i)) \in Nat
  <2>1. IsFiniteSet(1 .. i) /\ E(i) \subseteq 1 .. i
    BY FS_Interval
  <2> QED
    BY <2>1, FS_Subset, FS_CardinalityType
<1>2. ASSUME NEW i \in 1 .. n, line[i].name = "-engine"
      PROVE  Cardinality(E(i)) \in 1 .. Cardinality(E(n))
  <2>1. i \in Nat /\ i \in E(i) /\ E(i) \subseteq E(n)
    BY <1>2
  <2> HIDE DEF E
  <2>2. Cardinality(E(i)) <= Cardinality(E(n))
    BY <1>1, <2>1, FS_Subset
  <2>3. Cardinality(E(i)) # 0
    BY <1>1, <2>1, FS_EmptySet
  <2> QED
    BY <1>1, <2>1, <2>2, <2>3
<1> QED
  BY <1>1, <1>2 DEF EnginesIn

LEMMA EnginesOneMore ==
  ASSUME NEW line \in Seq(Argument), NEW a \in Argument
  PROVE  /\ \A i \in 0 .. Len(line) : EnginesIn(Append(line, a), i) = EnginesIn(line, i)
         /\ EnginesIn(Append(line, a), Len(line) + 1) =
              EnginesIn(line, Len(line)) + (IF a.name = "-engine" THEN 1 ELSE 0)
<1> DEFINE n == Len(line)
           more == Append(line, a)
           E == {j \in 1 .. n : line[j].name = "-engine"}
           F == {j \in 1 .. n + 1 : more[j].name = "-engine"}
<1>1. /\ n \in Nat /\ more[n + 1] = a
      /\ \A i \in 1 .. n : more[i] = line[i]
  BY OneMore
<1> HIDE DEF n, more
<1>2. ASSUME NEW i \in 0 .. n
      PROVE  EnginesIn(more, i) = EnginesIn(line, i)
  <2>1. \A j \in 1 .. i : more[j] = line[j]
    BY <1>1
  <2>2. {j \in 1 .. i : more[j].name = "-engine"} = {j \in 1 .. i : line[j].name = "-engine"}
    BY <2>1
  <2> QED
    BY <2>2 DEF EnginesIn
<1>3. IsFiniteSet(E) /\ Cardinality(E) \in Nat
  <2>1. IsFiniteSet(1 .. n) /\ E \subseteq 1 .. n
    BY <1>1, FS_Interval
  <2> QED
    BY <2>1, FS_Subset, FS_CardinalityType
<1>4. Cardinality(F) = Cardinality(E) + (IF a.name = "-engine" THEN 1 ELSE 0)
  <2>1. CASE a.name = "-engine"
    <3>1. n + 1 \notin E
      BY <1>1
    <3>2. F = E \cup {n + 1}
      BY <1>1, <2>1
    <3> HIDE DEF E, F
    <3> QED
      BY <1>3, <2>1, <3>1, <3>2, FS_AddElement
  <2>2. CASE a.name # "-engine"
    <3>1. F = E
      BY <1>1, <2>2
    <3> HIDE DEF E, F
    <3> QED
      BY <1>3, <2>2, <3>1
  <2> QED
    BY <2>1, <2>2
<1>5. EnginesIn(more, n + 1) = EnginesIn(line, n) + (IF a.name = "-engine" THEN 1 ELSE 0)
  BY <1>4 DEF EnginesIn
<1> QED
  BY <1>2, <1>5 DEF n, more

(***************************************************************************)
(* The last -each that names the field                                     *)
(***************************************************************************)
LEMMA EachOneMore ==
  ASSUME NEW line \in Seq(Argument), NEW a \in Argument, NEW field
  PROVE  EachGives(Append(line, a), field) =
           IF a.name = "-each" /\ NamedAt(a.args, field) # {}
             THEN LastValue(a.args, field, EngineDefault[field])
             ELSE EachGives(line, field)
<1> DEFINE n == Len(line)
           more == Append(line, a)
           N == Naming(line, field)
           M == Naming(more, field)
<1>1. /\ n \in Nat /\ more[n + 1] = a /\ DOMAIN line = 1 .. n /\ DOMAIN more = 1 .. n + 1
      /\ \A i \in 1 .. n : more[i] = line[i]
  BY OneMore
<1> HIDE DEF n, more
<1>2. CASE a.name = "-each" /\ NamedAt(a.args, field) # {}
  <2>1. n + 1 \in M /\ M \subseteq Int /\ \A y \in M : n + 1 >= y
    BY <1>1, <1>2 DEF Naming
  <2> HIDE DEF M
  <2>2. Max(M) = n + 1 /\ M # {}
    BY <2>1, MaxIs
  <2> QED
    BY <1>1, <1>2, <2>2 DEF EachGives, M, more
<1>3. CASE ~(a.name = "-each" /\ NamedAt(a.args, field) # {})
  <2>1. M = N
    <3>1. \A i \in 1 .. n + 1 : i \in 1 .. n \/ i = n + 1
      BY <1>1
    <3>2. n + 1 \notin M
      BY <1>1, <1>3 DEF Naming
    <3>3. \A i : i \in M <=> i \in N
      BY <1>1, <3>1, <3>2 DEF Naming
    <3> QED
      BY <3>3
  <2>2. N \subseteq 1 .. n
    BY <1>1 DEF Naming
  <2> HIDE DEF M, N
  <2>3. N # {} => Max(N) \in 1 .. n
    BY <1>1, <2>2, MaxIn
  <2>4. N # {} => more[Max(N)] = line[Max(N)]
    BY <1>1, <2>3
  <2> QED
    BY <1>3, <2>1, <2>4 DEF EachGives, M, N, more
<1> QED
  BY <1>2, <1>3

LEMMA LastOfNamed ==
  ASSUME NEW settings, NEW field, NEW d1, NEW d2, NamedAt(settings, field) # {}
  PROVE  LastValue(settings, field, d1) = LastValue(settings, field, d2)
BY DEF LastValue

LEMMA LastOfUnnamed ==
  ASSUME NEW settings, NEW field, NEW d, NamedAt(settings, field) = {}
  PROVE  LastValue(settings, field, d) = d
BY DEF LastValue

LEMMA InitCollected == Init => EachInv
<1> SUFFICES ASSUME Init PROVE EachInv
  OBVIOUS
<1>1. /\ argv = <<>> /\ eo = <<>> /\ each = EngineDefault /\ eachSet = FALSE /\ pc = "parse"
      /\ Len(argv) = 0 /\ DOMAIN argv = {} /\ argv \in Seq(Argument)
  BY DEF Init
<1>2. EachCollected
  <2>1. OptionsOfEach(argv) = <<>>
    <3>1. PICK v \in EachRuns(Given, argv) : OptionsOfEach(argv) = v[Len(argv)]
      BY <1>1, OptionsOfEachRun
    <3> QED
      BY <1>1, <3>1 DEF EachRuns
  <2>2. \A field : Naming(argv, field) = {}
    BY <1>1 DEF Naming
  <2>3. IsEngine(each, Given) /\ each.options = <<>>
    BY <1>1, EngineFieldNames
  <2>4. \A field : each[field] = EachGives(argv, field)
    BY <1>1, <2>2 DEF EachGives
  <2>5. ~eachSet /\ \A i \in DOMAIN argv : argv[i].name # "-each"
    BY <1>1
  <2> QED
    BY <2>1, <2>3, <2>4, <2>5 DEF EachCollected
<1>3. EnginesSet
  <2>1. Cardinality({i \in 1 .. 0 : argv[i].name = "-engine"}) = 0
    <3>1. {i \in 1 .. 0 : argv[i].name = "-engine"} = {}
      OBVIOUS
    <3> QED
      BY <3>1, FS_EmptySet
  <2> QED
    BY <1>1, <2>1 DEF EnginesSet, EnginesIn
<1>4. EachReachesAllEngines
  BY <1>1 DEF EachReachesAllEngines
<1> QED
  BY <1>1, <1>2, <1>3, <1>4, InitFits DEF EachInv

(***************************************************************************)
(* An argument that is no -each; one that is no engine                     *)
(***************************************************************************)
LEMMA EachStays ==
  ASSUME EachInv, pc = "parse", NEW a \in Argument, argv' = Append(argv, a),
         a.name # "-each", UNCHANGED <<each, eachSet>>
  PROVE  EachCollected'
<1> DEFINE n == Len(argv)
<1>1. /\ EachCollected /\ EnginesSet /\ argv \in Seq(Argument)
  BY DEF EachInv
<1>2. /\ n \in Nat /\ DOMAIN argv = 1 .. n /\ Len(argv') = n + 1 /\ DOMAIN argv' = 1 .. n + 1
      /\ argv'[n + 1] = a /\ \A i \in 1 .. n : argv'[i] = argv[i]
  BY <1>1, OneMore
<1> HIDE DEF n
<1>3. \A i \in 1 .. n + 1 : i \in 1 .. n \/ i = n + 1
  BY <1>2
<1>4. EachCollected'
  <2>1. OptionsOfEach(argv') = OptionsOfEach(argv)
    <3>1. \A b \in Argument : b.name = "-each" => OptionValues(b.args) \in Seq(Given)
      BY GivenOptions DEF Sections
    <3> QED
      BY <1>1, <3>1, OptionsOfOneMore
  <2>2. \A field : EachGives(argv', field) = EachGives(argv, field)
    BY <1>1, EachOneMore
  <2>3. (\E i \in DOMAIN argv' : argv'[i].name = "-each")
          <=> \E i \in DOMAIN argv : argv[i].name = "-each"
    BY <1>2, <1>3
  <2> QED
    BY <1>1, <2>1, <2>2, <2>3 DEF EachCollected
<1> QED
  BY <1>4

LEMMA EnginesStay ==
  ASSUME EachInv, pc = "parse", NEW a \in Argument, argv' = Append(argv, a),
         a.name # "-engine", UNCHANGED eo
  PROVE  EnginesSet'
<1> DEFINE n == Len(argv)
<1>1. /\ EachCollected /\ EnginesSet /\ argv \in Seq(Argument)
  BY DEF EachInv
<1>2. /\ n \in Nat /\ DOMAIN argv = 1 .. n /\ Len(argv') = n + 1 /\ DOMAIN argv' = 1 .. n + 1
      /\ argv'[n + 1] = a /\ \A i \in 1 .. n : argv'[i] = argv[i]
  BY <1>1, OneMore
<1> HIDE DEF n
<1>3. \A i \in 1 .. n + 1 : i \in 1 .. n \/ i = n + 1
  BY <1>2
<1>5. EnginesSet'
  <2>1. EnginesIn(argv', n + 1) = EnginesIn(argv, n) + 0
    BY <1>1, EnginesOneMore DEF n
  <2>2. EnginesIn(argv, n) \in Nat
    BY <1>2, EngineNumbers
  <2>3. Len(eo') = EnginesIn(argv', Len(argv'))
    BY <1>1, <1>2, <2>1, <2>2 DEF EnginesSet, n
  <2>4. ASSUME NEW i \in DOMAIN argv', argv'[i].name = "-engine"
        PROVE  SetBy(eo'[EnginesIn(argv', i)], argv'[i])
    <3>1. i \in 1 .. n /\ argv'[i] = argv[i] /\ i \in 0 .. n
      BY <1>2, <1>3, <2>4
    <3>2. EnginesIn(argv', i) = EnginesIn(argv, i)
      BY <1>1, <3>1, EnginesOneMore DEF n
    <3>3. SetBy(eo[EnginesIn(argv, i)], argv[i])
      BY <1>1, <1>2, <2>4, <3>1 DEF EnginesSet
    <3> QED
      BY <3>1, <3>2, <3>3
  <2> QED
    BY <2>3, <2>4 DEF EnginesSet
<1> QED
  BY <1>5

LEMMA EngineArgument ==
  ASSUME EachInv, pc = "parse", NEW a \in Argument, argv' = Append(argv, a),
         a.name = "-engine", AllLegal(a), eo' = Append(eo, Parsed(a, EngineDefault)),
         UNCHANGED <<each, eachSet>>
  PROVE  EachCollected' /\ EnginesSet'
<1> DEFINE n == Len(argv)
           e == Parsed(a, EngineDefault)
           l == Len(eo)
<1>1. /\ EachCollected /\ EnginesSet /\ argv \in Seq(Argument)
      /\ Len(eo) \in Nat /\ eo = [k \in 1 .. Len(eo) |-> eo[k]]
  BY DEF EachInv, IInv
<1>2. /\ n \in Nat /\ DOMAIN argv = 1 .. n /\ Len(argv') = n + 1 /\ DOMAIN argv' = 1 .. n + 1
      /\ argv'[n + 1] = a /\ \A i \in 1 .. n : argv'[i] = argv[i]
  BY <1>1, OneMore
<1> HIDE DEF n
<1>3. \A i \in 1 .. n + 1 : i \in 1 .. n \/ i = n + 1
  BY <1>2
<1>4. EachCollected'
  BY EachStays
<1>5. SetBy(e, a)
  <2>1. IsEngine(EngineDefault, Given) /\ EngineDefault.options = <<>>
    BY EngineFieldNames
  <2>2. \A j \in DOMAIN a.args : a.args[j].value \in Given
    BY GivenValues DEF Sections
  <2>3. /\ IsEngine(e, Given)
        /\ e.options = EngineDefault.options \o OptionValues(a.args)
        /\ \A field \in EngineFields \ {"options"} :
             e[field] = LastValue(a.args, field, EngineDefault[field])
    <3>1. a.name \in {"-engine", "-each"}
      OBVIOUS
    <3> HIDE DEF e
    <3> QED
      BY <2>1, <2>2, <3>1, ParsedEngine, Zenon DEF e
  <2> HIDE DEF e
  <2>4. OptionValues(a.args) \in Seq(Given)
    BY GivenOptions DEF Sections
  <2>5. <<>> \o OptionValues(a.args) = OptionValues(a.args)
    BY <2>4, ConcatEmptySeq
  <2> QED
    BY <2>1, <2>3, <2>5, Zenon DEF SetBy
<1> HIDE DEF e
<1>6. Len(eo') = l + 1 /\ eo'[l + 1] = e /\ \A k \in 1 .. l : eo'[k] = eo[k]
  <2> DEFINE T == {eo[k] : k \in 1 .. l} \cup {e}
  <2>1. eo \in [1 .. l -> T] /\ e \in T
    BY <1>1
  <2> HIDE DEF T
  <2>2. eo \in Seq(T)
    BY <1>1, <2>1, IsASequence DEF l
  <2> QED
    BY <2>1, <2>2 DEF e
<1>7. EnginesSet'
  <2>1. l = EnginesIn(argv, n) /\ l \in Nat
    BY <1>1 DEF EnginesSet, n
  <2>2. EnginesIn(argv', n + 1) = l + 1
    BY <1>1, <2>1, EnginesOneMore DEF n
  <2>3. Len(eo') = EnginesIn(argv', Len(argv'))
    BY <1>2, <1>6, <2>2
  <2>4. ASSUME NEW i \in DOMAIN argv', argv'[i].name = "-engine"
        PROVE  SetBy(eo'[EnginesIn(argv', i)], argv'[i])
    <3>1. CASE i \in 1 .. n
      <4>1. i \in 1 .. n /\ argv'[i] = argv[i] /\ i \in 0 .. n
        BY <1>2, <2>4, <3>1
      <4>2. EnginesIn(argv', i) = EnginesIn(argv, i)
        BY <1>1, <4>1, EnginesOneMore DEF n
      <4>3. EnginesIn(argv, i) \in 1 .. l
        BY <1>2, <2>1, <2>4, <4>1, EngineNumbers
      <4>4. SetBy(eo[EnginesIn(argv, i)], argv[i])
        BY <1>1, <1>2, <2>4, <4>1 DEF EnginesSet
      <4> QED
        BY <1>6, <4>1, <4>2, <4>3, <4>4
    <3>2. CASE i = n + 1
      BY <1>2, <1>5, <1>6, <2>2, <3>2
    <3> QED
      BY <1>2, <1>3, <2>4, <3>1, <3>2
  <2> HIDE DEF l
  <2> QED
    BY <2>3, <2>4 DEF EnginesSet
<1> QED
  BY <1>4, <1>7

LEMMA EachArgument ==
  ASSUME EachInv, pc = "parse", NEW a \in Argument, argv' = Append(argv, a),
         a.name = "-each", AllLegal(a), each' = Parsed(a, each), eachSet' = TRUE,
         UNCHANGED eo
  PROVE  EachCollected' /\ EnginesSet'
<1> DEFINE n == Len(argv)
<1>1. /\ EachCollected /\ EnginesSet /\ argv \in Seq(Argument)
  BY DEF EachInv
<1>2. /\ n \in Nat /\ DOMAIN argv = 1 .. n /\ Len(argv') = n + 1 /\ DOMAIN argv' = 1 .. n + 1
      /\ argv'[n + 1] = a /\ \A i \in 1 .. n : argv'[i] = argv[i]
  BY <1>1, OneMore
<1> HIDE DEF n
<1>4. /\ IsEngine(each', Given)
      /\ each'.options = each.options \o OptionValues(a.args)
      /\ \A field \in EngineFields \ {"options"} :
           each'[field] = LastValue(a.args, field, each[field])
  <2>1. IsEngine(each, Given)
    BY <1>1 DEF EachCollected
  <2>2. \A j \in DOMAIN a.args : a.args[j].value \in Given
    BY GivenValues DEF Sections
  <2>3. a.name \in {"-engine", "-each"}
    OBVIOUS
  <2>4. /\ IsEngine(Parsed(a, each), Given)
        /\ Parsed(a, each).options = each.options \o OptionValues(a.args)
        /\ \A field \in EngineFields \ {"options"} :
             Parsed(a, each)[field] = LastValue(a.args, field, each[field])
    BY <2>1, <2>2, <2>3, ParsedEngine, Zenon
  <2> QED
    BY <2>4, Zenon
<1>5. EachCollected'
  <2>1. OptionsOfEach(argv') = OptionsOfEach(argv) \o OptionValues(a.args)
    <3>1. \A b \in Argument : b.name = "-each" => OptionValues(b.args) \in Seq(Given)
      BY GivenOptions DEF Sections
    <3> QED
      BY <1>1, <3>1, OptionsOfOneMore
  <2>2. each'.options = OptionsOfEach(argv')
    BY <1>1, <1>4, <2>1 DEF EachCollected
  <2>3. ASSUME NEW field \in EngineFields \ {"options"}
        PROVE  each'[field] = EachGives(argv', field)
    <3>1. /\ each'[field] = LastValue(a.args, field, each[field])
          /\ each[field] = EachGives(argv, field)
      BY <1>1, <1>4 DEF EachCollected
    <3>2. CASE NamedAt(a.args, field) = {}
      BY <1>1, <3>1, <3>2, EachOneMore, LastOfUnnamed
    <3>3. CASE NamedAt(a.args, field) # {}
      <4>1. EachGives(argv', field) = LastValue(a.args, field, EngineDefault[field])
        BY <1>1, <3>3, EachOneMore
      <4> QED
        BY <3>1, <3>3, <4>1, LastOfNamed
    <3> QED
      BY <3>2, <3>3
  <2>4. eachSet' <=> \E i \in DOMAIN argv' : argv'[i].name = "-each"
    <3>1. n + 1 \in DOMAIN argv' /\ argv'[n + 1].name = "-each"
      BY <1>2
    <3> QED
      BY <3>1
  <2> QED
    BY <1>4, <2>2, <2>3, <2>4 DEF EachCollected
<1>6. EnginesSet'
  BY EnginesStay
<1> QED
  BY <1>5, <1>6

(***************************************************************************)
(* The merge                                                               *)
(***************************************************************************)
LEMMA MergeReaches ==
  ASSUME EachInv, EndOfLine
  PROVE  EachReachesAllEngines'
<1> DEFINE n == Len(argv)
           hasEach == \E i \in DOMAIN argv : argv[i].name = "-each"
           Final(e) == IF eachSet THEN Merged(e) ELSE e
<1>1. /\ EachCollected /\ EnginesSet /\ argv \in Seq(Argument) /\ argv' = argv
      /\ Len(eo) \in Nat /\ eo = [k \in 1 .. Len(eo) |-> eo[k]]
      /\ n \in Nat /\ DOMAIN argv = 1 .. n
  BY DEF EachInv, IInv, EndOfLine
<1>2. /\ Len(eo') = Len(eo)
      /\ \A k \in 1 .. Len(eo) : eo'[k] = Final(eo[k])
  <2>1. CASE eachSet
    <3>1. eo' = [k \in 1 .. Len(eo) |-> Merged(eo[k])]
      BY <1>1, <2>1 DEF EndOfLine
    <3> QED
      BY <1>1, <2>1, <3>1
  <2>2. CASE ~eachSet
    BY <2>2 DEF EndOfLine
  <2> QED
    BY <2>1, <2>2
<1>3. eachSet <=> hasEach
  BY <1>1 DEF EachCollected
<1>4. ASSUME NEW i \in DOMAIN argv, argv[i].name = "-engine"
      PROVE  LET engine == eo'[EnginesIn(argv, i)]
                 own == argv[i].args
             IN  /\ engine.options = OptionValues(own) \o OptionsOfEach(argv)
                 /\ \A field \in EngineFields \ {"options"} :
                      engine[field] = IF OfEach(argv, field) # Unset(field)
                                        THEN OfEach(argv, field)
                                        ELSE LastValue(own, field, EngineDefault[field])
  <2> DEFINE k == EnginesIn(argv, i)
             e == eo[k]
             own == argv[i].args
  <2>1. k \in 1 .. Len(eo)
    BY <1>1, <1>4, EngineNumbers DEF EnginesSet
  <2>2. SetBy(e, argv[i])
    BY <1>1, <1>4 DEF EnginesSet
  <2>3. eo'[k] = Final(e)
    BY <1>2, <2>1
  <2>4. /\ DOMAIN e = EngineFields /\ e.options = OptionValues(own)
        /\ \A field \in EngineFields \ {"options"} :
             e[field] = LastValue(own, field, EngineDefault[field])
    BY <2>2 DEF SetBy, IsEngine
  <2>5. OptionValues(own) \in Seq(Given)
    <3>1. argv[i] \in Argument
      BY <1>1
    <3> QED
      BY <1>4, <3>1, GivenOptions DEF Sections
  <2> HIDE DEF k, e, own, hasEach
  <2>6. CASE eachSet
    <3>1. eo'[k] = [field \in EngineFields |->
                      IF field = "options" THEN e.options \o each.options
                      ELSE IF each[field] = Unset(field) THEN e[field] ELSE each[field]]
      BY <2>3, <2>4, <2>6 DEF Merged
    <3>2. eo'[k].options = OptionValues(own) \o OptionsOfEach(argv)
      <4>1. "options" \in EngineFields
        BY EngineFieldNames
      <4> QED
        BY <1>1, <2>4, <3>1, <4>1 DEF EachCollected
    <3>3. ASSUME NEW field \in EngineFields \ {"options"}
          PROVE  eo'[k][field] = IF OfEach(argv, field) # Unset(field)
                                   THEN OfEach(argv, field)
                                   ELSE LastValue(own, field, EngineDefault[field])
      <4>1. eo'[k][field] = IF each[field] = Unset(field) THEN e[field] ELSE each[field]
        BY <3>1
      <4>2. each[field] = EachGives(argv, field)
        BY <1>1 DEF EachCollected
      <4>3. ~(\A j \in DOMAIN argv : argv[j].name # "-each")
        BY <1>3, <2>6 DEF hasEach
      <4>4. OfEach(argv, field) = EachGives(argv, field)
        BY <4>3, Zenon DEF OfEach, EachGives
      <4>5. e[field] = LastValue(own, field, EngineDefault[field])
        BY <2>4
      <4> QED
        BY <4>1, <4>2, <4>4, <4>5
    <3> QED
      BY <3>2, <3>3 DEF k, own
  <2>7. CASE ~eachSet
    <3>1. eo'[k] = e
      BY <2>3, <2>7
    <3>2. \A j \in DOMAIN argv : argv[j].name # "-each"
      BY <1>3, <2>7 DEF hasEach
    <3>3. \A field : OfEach(argv, field) = Unset(field)
      <4>1. \A field : Naming(argv, field) = {}
        BY <3>2 DEF Naming
      <4> QED
        BY <3>2, <4>1, Zenon DEF OfEach
    <3>4. OptionsOfEach(argv) = <<>>
      <4>1. each.options = OptionsOfEach(argv)
        BY <1>1 DEF EachCollected
      <4>2. PICK v \in EachRuns(Given, argv) : OptionsOfEach(argv) = v[n]
        <5>1. \A j \in 1 .. Len(argv) :
                argv[j].name = "-each" => OptionValues(argv[j].args) \in Seq(Given)
          BY <1>1, <3>2
        <5> QED
          BY <1>1, <5>1, OptionsOfEachRun
      <4>3. v[0] = <<>> /\ \A j \in 1 .. n : v[j] = v[j - 1]
        BY <1>1, <3>2, <4>2 DEF EachRuns
      <4> DEFINE T == {j \in 0 .. n : v[j] = <<>>}
      <4>4. 0 \in T /\ \A j \in 1 .. n : j - 1 \in T => j \in T
        BY <1>1, <4>3
      <4> HIDE DEF T
      <4>5. \A j \in 0 .. n : j \in T
        BY <1>1, <4>4, Induction, Zenon
      <4>6. n \in 0 .. n
        BY <1>1
      <4> QED
        BY <4>2, <4>5, <4>6 DEF T
    <3>5. OptionValues(own) \o <<>> = OptionValues(own)
      BY <2>5, ConcatEmptySeq
    <3> QED
      BY <2>4, <3>1, <3>3, <3>4, <3>5 DEF k, own
  <2> QED
    BY <2>6, <2>7
<1>5. Len(eo') = EnginesIn(argv, n)
  BY <1>1, <1>2 DEF EnginesSet
<1> QED
  BY <1>1, <1>4, <1>5 DEF EachReachesAllEngines, EngineFields

LEMMA StepCollects ==
  ASSUME EachInv, [Next]_vars
  PROVE  EachInv'
<1>1. IInv'
  BY StepFits DEF EachInv
<1>2. argv \in Seq(Argument) /\ eachSet \in BOOLEAN
  BY DEF EachInv
<1>3. ASSUME NEW a \in Argument,
             Flag(a) \/ Value(a) \/ Engine(a) \/ Each(a) \/ Section(a) \/ Unknown(a)
      PROVE  EachInv'
  <2>1. pc = "parse" /\ argv' = Append(argv, a) /\ pc' \in {"parse", "died"}
    BY <1>3 DEF Flag, Value, Engine, Each, Section, Unknown, Reads, Die
  <2>2. argv' \in Seq(Argument)
    BY <1>2, <2>1, OneMore
  <2>3. eachSet' \in BOOLEAN
    BY <1>2, <1>3 DEF Flag, Value, Engine, Each, Section, Unknown, Reads, Die
  <2>4. pc' = "parse" => EachCollected' /\ EnginesSet'
    <3>1. CASE Flag(a) \/ Value(a) \/ Section(a)
      <4>1. UNCHANGED <<eo, each, eachSet>>
        BY <3>1 DEF Flag, Value, Section, Die
      <4>2. a.name \notin {"-engine", "-each"}
        <5>1. \A pair \in Flags \cup Values : pair[1] \notin {"-engine", "-each"}
          BY DEF Flags, Values
        <5>2. CASE Section(a)
          BY <5>2 DEF Section
        <5>3. CASE Flag(a) \/ Value(a)
          <6>1. \E pair \in Flags \cup Values : a.name = pair[1]
            BY <5>3, Zenon DEF Flag, Value, OptionsIn
          <6> QED
            BY <5>1, <6>1
        <5> QED
          BY <3>1, <5>2, <5>3
      <4> QED
        BY <2>1, <4>1, <4>2, EachStays, EnginesStay
    <3>2. CASE Unknown(a)
      BY <3>2 DEF Unknown, Die
    <3>3. CASE Engine(a)
      BY <2>1, <3>3, EngineArgument DEF Engine, Die
    <3>4. CASE Each(a)
      BY <2>1, <3>4, EachArgument DEF Each, Die
    <3> QED
      BY <1>3, <3>1, <3>2, <3>3, <3>4
  <2>5. EachReachesAllEngines'
    BY <2>1 DEF EachReachesAllEngines
  <2> QED
    BY <1>1, <2>2, <2>3, <2>4, <2>5 DEF EachInv
<1>4. CASE EndOfLine
  <2>1. EachReachesAllEngines'
    BY <1>4, MergeReaches
  <2>2. pc' # "parse" /\ argv' = argv /\ eachSet' = eachSet
    BY <1>4 DEF EndOfLine
  <2> QED
    BY <1>1, <1>2, <2>1, <2>2 DEF EachInv
<1>5. CASE UNCHANGED vars
  <2>1. UNCHANGED <<argv, o, eo, each, eachSet, pc>>
    BY <1>5 DEF vars
  <2>2. EachReachesAllEngines' <=> EachReachesAllEngines
    BY <2>1 DEF EachReachesAllEngines
  <2>3. EachCollected' <=> EachCollected
    BY <2>1 DEF EachCollected
  <2>4. EnginesSet' <=> EnginesSet
    BY <2>1 DEF EnginesSet
  <2> QED
    BY <1>1, <2>1, <2>2, <2>3, <2>4 DEF EachInv
<1> QED
  BY <1>3, <1>4, <1>5 DEF Next, Done

(***************************************************************************)
(* -each for any number of engines and -each, in any order: every engine   *)
(* gets the raw options of all of them after its own, and of each other    *)
(* option what the last -each that names it says, unless that is what an   *)
(* option that is not set has.                                             *)
(***************************************************************************)
THEOREM EachReachesEveryEngine == Spec => []EachReachesAllEngines
<1>1. EachInv => EachReachesAllEngines
  BY DEF EachInv
<1> QED
  BY <1>1, InitCollected, StepCollects, PTL DEF Spec
=============================================================================
