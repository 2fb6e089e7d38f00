--------------------------- MODULE MCCommandLine ---------------------------
(***************************************************************************)
(* Model checking of CommandLine: all command lines of up to four of the   *)
(* arguments below, so that -each comes before, between and after the      *)
(* engines, and twice.                                                     *)
(***************************************************************************)
EXTENDS CommandLine

Arg(name, args) == [name |-> name, args |-> args]
Set(key, value) == [key |-> key, value |-> value]

\* tc=0/5+1 and tc=10; -each nodes=0 gives no value.
EngineArguments ==
  {Arg("-engine", <<>>),
   Arg("-engine", <<Set("tolerance", 7), Set("maxmemory", 1), Set("option", "b")>>),
   Arg("-engine", <<Set("tc", <<30, 2, 1>>), Set("nodes", 9)>>),
   Arg("-each", <<Set("tolerance", 5), Set("option", "a"), Set("cmd", "./e")>>),
   Arg("-each", <<Set("tc", <<0, 5, 1>>), Set("nodes", 0), Set("depth", 4)>>),
   Arg("-each", <<Set("tc", <<10, -1, 0>>), Set("name", "e"), Set("tolerance", 0)>>)}

SectionArguments ==
  {Arg("-sprt", <<Set("elo1", 5)>>), Arg("-sprt", <<Set("elo0", 5)>>),
   Arg("-openings", <<Set("file", "f"), Set("type", "pos"), Set("order", "random")>>),
   Arg("-openings", <<Set("type", "offset"), Set("srand", 3)>>),
   Arg("-sample", <<Set("freq", 25), Set("format", "bin_lz4")>>),
   Arg("-sample", <<Set("format", "csv"), Set("file", "s")>>)}

Values4 ==
  {Arg("-boardsize", 5), Arg("-boardsize", 23), Arg("-rule", 4), Arg("-rule", 2),
   Arg("-games", 2), Arg("-debug", <<>>)}

Wrong ==
  {Arg("-each", <<Set("ponder", 1)>>), Arg("-engine", <<Set("ponder", 1)>>),
   Arg("-openings", <<Set("type", "fen")>>), Arg("-ponder", <<>>)}

Arguments == EngineArguments \cup SectionArguments \cup Values4 \cup Wrong
=============================================================================
