----------------------------- MODULE SeqBuffer -----------------------------
(***************************************************************************)
(* The arithmetic of SeqWriter (seqwriter.cpp): a sorted buffer of records *)
(* that came too early, and the number of records already written.  A      *)
(* record is its idx, the number of the game it is about.                  *)
(***************************************************************************)
EXTENDS Integers, FiniteSets, SequencesExt

\* insert_sorted: in front of the first larger record (std::upper_bound).
InsertSorted(buf, idx) ==
  InsertAt(buf, 1 + Cardinality({j \in DOMAIN buf : buf[j] <= idx}), idx)

\* Mutation: the chunk need not start with the next record to be written.
ChunkFromAnywhere(buf, idxNext) ==
  Cardinality({i \in DOMAIN buf : \A j \in 1 .. i : buf[j] = buf[1] + j - 1})

\* The length i of the longest chunk buf[0..i-1] that continues the file.
Chunk(buf, idxNext) ==
  Cardinality({i \in DOMAIN buf : \A j \in 1 .. i : buf[j] = idxNext + j - 1})

\* A writer that nobody works on, and what is in its file.
NewWriter == [buf |-> <<>>, idxNext |-> 0, out |-> <<>>]

\* write_to_i(i)
WriteTo(wr, i) ==
  [buf     |-> SubSeq(wr.buf, i + 1, Len(wr.buf)),
   idxNext |-> wr.idxNext + i,
   out     |-> wr.out \o SubSeq(wr.buf, 1, i)]

\* SeqWriter::push, which runs under the writer's mutex
Push(wr, idx) ==
  LET buf == InsertSorted(wr.buf, idx)
  IN  WriteTo([wr EXCEPT !.buf = buf], Chunk(buf, wr.idxNext))

\* Mutation: the destructor only closes the file.
CloseOnly(wr) == wr

\* SeqWriter::~SeqWriter: the records that waited for a missing one as well
CloseWriter(wr) == WriteTo(wr, Len(wr.buf))
=============================================================================
