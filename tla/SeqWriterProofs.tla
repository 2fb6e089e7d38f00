-------------------------- MODULE SeqWriterProofs --------------------------
(***************************************************************************)
(* What SeqWriter does for every number of games and every set of games    *)
(* that are not saved: no record is lost or written twice, and the file is *)
(* that of OrderedLog.                                                     *)
(***************************************************************************)
EXTENDS SeqWriter, LibraryProofs

\* The k-th record of the stream of a writer: the first n games, then those
\* of the buffer b.
At(b, n, k) == IF k <= n THEN k - 1 ELSE b[k - n]

\* How many records of the buffer fputs took.
Written == IF todo = -1 THEN 0 ELSE count - todo

\* How many records there are.
Known == idxNext + Len(buf)

Live == state \in {"open", "closing"}

TypeInv ==
  /\ buf \in Seq(Nat) /\ idxNext \in Nat
  /\ todo \in Nat \cup {-1} /\ count \in Nat
  /\ stdio \in Seq(Nat) /\ file \in Seq(Nat)
  /\ given \in SUBSET Nat
  /\ state \in {"open", "closing", "closed", "lost"}

\* The buffer is sorted, after what was written, and has all that was not.
BufferInv ==
  Live =>
    /\ Increasing(buf)
    /\ \A i \in 1 .. Len(buf) : buf[i] >= idxNext
    /\ given = (0 .. idxNext - 1) \cup ToSet(buf)

\* Where write_to_i is: count, todo and the buffer agree.
WriteInv ==
  Live =>
    /\ todo = -1 => state = "open" /\ stdio = <<>>
    /\ todo # -1 => todo <= count /\ count <= Len(buf)
    /\ state = "open" /\ todo # -1 =>
         \A i \in 1 .. count : buf[i] = idxNext + i - 1
    /\ state = "closing" => count = Len(buf)

\* The file and stdio's buffer are what was written, without a gap.
FileInv ==
  Live =>
    /\ Len(file) + Len(stdio) = idxNext + Written
    /\ \A k \in 1 .. Len(file) : file[k] = At(buf, idxNext, k)
    /\ \A k \in 1 .. Len(stdio) : stdio[k] = At(buf, idxNext, Len(file) + k)

\* After the end of the destructor, or of the process.
EndInv ==
  /\ ~Live => stdio = <<>> /\ todo = -1
  /\ state = "closed" =>
       buf = <<>> /\ Increasing(file) /\ ToSet(file) = given

IInv == TypeInv /\ BufferInv /\ WriteInv /\ FileInv /\ EndInv

-----------------------------------------------------------------------------
(***************************************************************************)
(* The records that are saved are numbers of games.                        *)
(***************************************************************************)
LEMMA SavedType == Saved \subseteq Nat
BY GamesAssumption DEF Saved

(***************************************************************************)
(* The stream of a live writer: its records in the order of the games, the *)
(* written ones first; until the destructor these are the first games.     *)
(***************************************************************************)
LEMMA StreamOrder ==
  ASSUME IInv, Live
  PROVE  /\ Known \in Nat /\ Written \in 0 .. Len(buf) /\ Len(buf) \in Nat
         /\ Known = idxNext + Len(buf)
         /\ \A k \in 1 .. Known : At(buf, idxNext, k) \in Nat
         /\ \A i, j \in 1 .. Known : i < j => At(buf, idxNext, i) < At(buf, idxNext, j)
         /\ given = {At(buf, idxNext, k) : k \in 1 .. Known}
         /\ state = "open" => \A k \in 1 .. idxNext + Written : At(buf, idxNext, k) = k - 1
<1>1. /\ buf \in Seq(Nat) /\ idxNext \in Nat
      /\ Len(buf) \in Nat /\ DOMAIN buf = 1 .. Len(buf)
      /\ todo \in Nat \cup {-1} /\ count \in Nat
      /\ \A i \in 1 .. Len(buf) : buf[i] \in Nat /\ buf[i] >= idxNext
      /\ \A i, j \in 1 .. Len(buf) : i < j => buf[i] < buf[j]
      /\ given = (0 .. idxNext - 1) \cup ToSet(buf)
  BY LenProperties DEF IInv, TypeInv, BufferInv, Increasing
<1>2. /\ todo # -1 => todo <= count /\ count <= Len(buf)
      /\ state = "open" /\ todo # -1 =>
           \A i \in 1 .. count : buf[i] = idxNext + i - 1
  BY DEF IInv, WriteInv
<1>3. Written \in 0 .. Len(buf) /\ (todo # -1 => Written <= count)
  BY <1>1, <1>2 DEF Written
<1>4. Known \in Nat /\ Known = idxNext + Len(buf)
  BY <1>1 DEF Known
<1>5. \A k \in 1 .. idxNext : At(buf, idxNext, k) = k - 1
  BY <1>1 DEF At
<1>6. ASSUME NEW k \in 1 .. Known, k > idxNext
      PROVE  k - idxNext \in 1 .. Len(buf) /\ At(buf, idxNext, k) = buf[k - idxNext]
  <2>1. k - idxNext \in 1 .. Len(buf) /\ ~(k <= idxNext)
    BY <1>1, <1>4, <1>6
  <2> QED
    BY <2>1 DEF At
<1>7. ASSUME NEW k \in 1 .. Known
      PROVE  At(buf, idxNext, k) \in Nat
  <2>1. CASE k <= idxNext
    BY <1>1, <1>5, <2>1
  <2>2. CASE k > idxNext
    BY <1>1, <1>6, <2>2
  <2> QED
    BY <1>1, <1>4, <2>1, <2>2
<1>8. ASSUME NEW i \in 1 .. Known, NEW j \in 1 .. Known, i < j
      PROVE  At(buf, idxNext, i) < At(buf, idxNext, j)
  <2>1. CASE j <= idxNext
    <3>1. i \in 1 .. idxNext /\ j \in 1 .. idxNext
      BY <1>1, <1>4, <1>8, <2>1
    <3>2. At(buf, idxNext, i) = i - 1 /\ At(buf, idxNext, j) = j - 1
      BY <1>5, <3>1
    <3> QED
      BY <1>8, <3>1, <3>2
  <2>2. CASE i <= idxNext /\ j > idxNext
    <3>1. At(buf, idxNext, i) = i - 1
      BY <1>1, <1>4, <1>5, <2>2
    <3>2. j - idxNext \in 1 .. Len(buf) /\ At(buf, idxNext, j) = buf[j - idxNext]
      BY <1>6, <2>2
    <3>3. buf[j - idxNext] \in Nat /\ buf[j - idxNext] >= idxNext
      BY <1>1, <3>2
    <3> QED
      BY <1>1, <2>2, <3>1, <3>2, <3>3
  <2>3. CASE i > idxNext
    <3>1. j > idxNext
      BY <1>1, <1>4, <1>8, <2>3
    <3>2. /\ i - idxNext \in 1 .. Len(buf) /\ At(buf, idxNext, i) = buf[i - idxNext]
          /\ j - idxNext \in 1 .. Len(buf) /\ At(buf, idxNext, j) = buf[j - idxNext]
      BY <1>6, <2>3, <3>1
    <3>3. i - idxNext < j - idxNext
      BY <1>1, <1>4, <1>8
    <3> QED
      BY <1>1, <3>2, <3>3
  <2> QED
    BY <1>1, <1>4, <2>1, <2>2, <2>3
<1>9. given = {At(buf, idxNext, k) : k \in 1 .. Known}
  <2>1. ToSet(buf) = {buf[i] : i \in 1 .. Len(buf)}
    BY <1>1 DEF ToSet
  <2>2. ASSUME NEW k \in 1 .. Known
        PROVE  At(buf, idxNext, k) \in given
    <3>1. CASE k <= idxNext
      <4>1. At(buf, idxNext, k) = k - 1 /\ k - 1 \in 0 .. idxNext - 1
        BY <1>1, <1>4, <1>5, <3>1
      <4> QED
        BY <1>1, <4>1
    <3>2. CASE k > idxNext
      <4>1. k - idxNext \in 1 .. Len(buf) /\ At(buf, idxNext, k) = buf[k - idxNext]
        BY <1>6, <3>2
      <4> QED
        BY <1>1, <2>1, <4>1
    <3> QED
      BY <1>1, <1>4, <3>1, <3>2
  <2>3. ASSUME NEW r \in 0 .. idxNext - 1
        PROVE  \E k \in 1 .. Known : r = At(buf, idxNext, k)
    <3>1. r + 1 \in 1 .. Known /\ r + 1 \in 1 .. idxNext /\ r = (r + 1) - 1
      BY <1>1, <1>4
    <3> QED
      BY <1>5, <3>1
  <2>4. ASSUME NEW i \in 1 .. Len(buf)
        PROVE  \E k \in 1 .. Known : buf[i] = At(buf, idxNext, k)
    <3>1. /\ idxNext + i \in 1 .. Known /\ idxNext + i > idxNext
          /\ (idxNext + i) - idxNext = i
      BY <1>1, <1>4
    <3>2. At(buf, idxNext, idxNext + i) = buf[i]
      BY <1>6, <3>1
    <3> QED
      BY <3>1, <3>2
  <2>5. given \subseteq {At(buf, idxNext, k) : k \in 1 .. Known}
    BY <1>1, <2>1, <2>3, <2>4, Zenon
  <2> QED
    BY <2>2, <2>5
<1>10. ASSUME state = "open", NEW k \in 1 .. idxNext + Written
       PROVE  At(buf, idxNext, k) = k - 1
  <2>1. CASE k <= idxNext
    BY <1>1, <1>3, <1>5, <2>1
  <2>2. CASE k > idxNext
    <3>1. /\ k \in 1 .. Known /\ todo # -1 /\ k - idxNext \in 1 .. count
      BY <1>1, <1>3, <1>4, <2>2 DEF Written
    <3>2. At(buf, idxNext, k) = buf[k - idxNext] /\ buf[k - idxNext] = idxNext + (k - idxNext) - 1
      BY <1>2, <1>6, <1>10, <2>2, <3>1
    <3> QED
      BY <1>1, <3>1, <3>2
  <2> QED
    BY <1>1, <1>3, <2>1, <2>2
<1> QED
  BY <1>1, <1>3, <1>4, <1>7, <1>8, <1>9, <1>10

(***************************************************************************)
(* OrderedLog's conditions on a file.                                      *)
(***************************************************************************)
LEMMA LogConditions ==
  ASSUME NEW f, NEW S
  PROVE  /\ Log!InOrder(f, S) <=> IsSorted(f, <) /\ ToSet(f) = S
         /\ Log!Contiguous(f) <=> Log!InOrder(f, 0 .. Len(f) - 1)
         /\ Log!Begins(f, S) <=>
              /\ IsSorted(f, <) /\ ToSet(f) \subseteq S
              /\ \A i \in DOMAIN f, k \in S \ ToSet(f) : f[i] < k
<1>1. Log!ToSet(f) = ToSet(f)
  BY DEF Log!ToSet, ToSet
<1>2. Log!IsSorted(f, <) <=> IsSorted(f, <)
  BY DEF Log!IsSorted, IsSorted
<1> QED
  BY <1>1, <1>2, Zenon DEF Log!InOrder, Log!Contiguous, Log!Begins

(***************************************************************************)
(* A file that is a part of the stream: what OrderedLog says of it.        *)
(***************************************************************************)
LEMMA FileOfStream ==
  ASSUME IInv, Live,
         NEW f \in Seq(Nat), Len(f) <= Known, \A k \in 1 .. Len(f) : f[k] = At(buf, idxNext, k)
  PROVE  /\ Log!Begins(f, given)
         /\ Len(f) = Known => Log!InOrder(f, given)
         /\ state = "open" /\ Len(f) <= idxNext + Written => Log!Contiguous(f)
<1>1. /\ Known \in Nat /\ Written \in 0 .. Len(buf) /\ Len(buf) \in Nat
      /\ Known = idxNext + Len(buf) /\ idxNext \in Nat
      /\ \A k \in 1 .. Known : At(buf, idxNext, k) \in Nat
      /\ \A i, j \in 1 .. Known : i < j => At(buf, idxNext, i) < At(buf, idxNext, j)
      /\ given = {At(buf, idxNext, k) : k \in 1 .. Known}
      /\ state = "open" => \A k \in 1 .. idxNext + Written : At(buf, idxNext, k) = k - 1
  BY StreamOrder DEF IInv, TypeInv
<1>2. Len(f) \in Nat /\ DOMAIN f = 1 .. Len(f)
      /\ ToSet(f) = {f[k] : k \in 1 .. Len(f)}
  BY LenProperties DEF ToSet
<1>3. \A k \in 1 .. Len(f) : k \in 1 .. Known
  BY <1>1, <1>2
<1>4. IsSorted(f, <)
  BY <1>1, <1>3 DEF IsSorted
<1>5. ToSet(f) \subseteq given
  BY <1>1, <1>2, <1>3
<1>6. ASSUME NEW i \in DOMAIN f, NEW r \in given \ ToSet(f)
      PROVE  f[i] < r
  <2>1. PICK k \in 1 .. Known : r = At(buf, idxNext, k)
    BY <1>1
  <2>2. ~(k \in 1 .. Len(f))
    BY <1>2, <2>1
  <2>3. i \in 1 .. Len(f) /\ i \in 1 .. Known /\ i < k
    BY <1>1, <1>2, <1>3, <2>2
  <2> QED
    BY <1>1, <2>1, <2>3
<1>7. Log!Begins(f, given)
  BY <1>4, <1>5, <1>6, LogConditions, Zenon
<1>8. ASSUME Len(f) = Known
      PROVE  Log!InOrder(f, given)
  <2>1. ToSet(f) = given
    BY <1>1, <1>2, <1>8
  <2> QED
    BY <1>4, <2>1, LogConditions, Zenon
<1>9. ASSUME state = "open", Len(f) <= idxNext + Written
      PROVE  Log!Contiguous(f)
  <2>1. \A k \in 1 .. Len(f) : f[k] = k - 1
    <3>1. \A k \in 1 .. Len(f) : k \in 1 .. idxNext + Written
      BY <1>1, <1>2, <1>9
    <3> QED
      BY <1>1, <1>9, <3>1
  <2>2. ToSet(f) \subseteq 0 .. Len(f) - 1
    BY <1>2, <2>1
  <2>3. ASSUME NEW r \in 0 .. Len(f) - 1
        PROVE  r \in ToSet(f)
    <3>1. r + 1 \in 1 .. Len(f) /\ (r + 1) - 1 = r
      BY <1>2
    <3> QED
      BY <1>2, <2>1, <3>1
  <2>4. ToSet(f) = 0 .. Len(f) - 1
    BY <2>2, <2>3
  <2> QED
    BY <1>4, <2>4, LogConditions, Zenon
<1> QED
  BY <1>7, <1>8, <1>9

(***************************************************************************)
(* stdio writes a record: the file goes on as the stream does.             *)
(***************************************************************************)
LEMMA SpilledFile ==
  ASSUME IInv, Live, stdio # <<>>
  PROVE  LET f == Append(file, Head(stdio))
         IN  /\ f \in Seq(Nat) /\ Len(f) = Len(file) + 1
             /\ \A k \in 1 .. Len(f) : f[k] = At(buf, idxNext, k)
             /\ IsPrefix(file, f)
             /\ Tail(stdio) \in Seq(Nat) /\ Len(Tail(stdio)) = Len(stdio) - 1
             /\ \A k \in 1 .. Len(Tail(stdio)) : Tail(stdio)[k] = At(buf, idxNext, Len(f) + k)
<1> DEFINE f == Append(file, Head(stdio))
           t == Tail(stdio)
<1>1. /\ file \in Seq(Nat) /\ stdio \in Seq(Nat)
      /\ Len(file) \in Nat /\ Len(stdio) \in Nat \ {0}
      /\ \A k \in 1 .. Len(file) : file[k] = At(buf, idxNext, k)
      /\ \A k \in 1 .. Len(stdio) : stdio[k] = At(buf, idxNext, Len(file) + k)
  BY LenProperties, EmptySeq DEF IInv, TypeInv, FileInv
<1>2. /\ Head(stdio) \in Nat /\ Head(stdio) = stdio[1]
      /\ t \in Seq(Nat) /\ Len(t) = Len(stdio) - 1
      /\ \A k \in 1 .. Len(t) : t[k] = stdio[k + 1]
  BY <1>1, HeadTailProperties
<1>3. /\ f \in Seq(Nat) /\ Len(f) = Len(file) + 1
      /\ \A k \in 1 .. Len(file) : f[k] = file[k]
      /\ f[Len(file) + 1] = Head(stdio)
  BY <1>1, <1>2, AppendProperties
<1> HIDE DEF f, t
<1>4. ASSUME NEW k \in 1 .. Len(f)
      PROVE  f[k] = At(buf, idxNext, k)
  <2>1. CASE k \in 1 .. Len(file)
    BY <1>1, <1>3, <2>1
  <2>2. CASE k = Len(file) + 1
    <3>1. 1 \in 1 .. Len(stdio)
      BY <1>1
    <3>2. stdio[1] = At(buf, idxNext, Len(file) + 1)
      BY <1>1, <3>1
    <3> QED
      BY <1>2, <1>3, <2>2, <3>2
  <2> QED
    BY <1>1, <1>3, <2>1, <2>2
<1>5. IsPrefix(file, f)
  <2>1. Len(file) <= Len(f)
    BY <1>1, <1>3
  <2> QED
    BY <1>1, <1>3, <2>1, PrefixOf, Zenon
<1>6. ASSUME NEW k \in 1 .. Len(t)
      PROVE  t[k] = At(buf, idxNext, Len(f) + k)
  <2>1. k + 1 \in 1 .. Len(stdio) /\ Len(file) + (k + 1) = Len(f) + k
    BY <1>1, <1>2, <1>3
  <2> QED
    BY <1>1, <1>2, <2>1
<1> QED
  BY <1>2, <1>3, <1>4, <1>5, <1>6 DEF f, t

(***************************************************************************)
(* fflush: all that was written is in the file.                            *)
(***************************************************************************)
LEMMA FlushedFile ==
  ASSUME IInv, Live
  PROVE  LET f == file \o stdio
         IN  /\ f \in Seq(Nat) /\ Len(f) = idxNext + Written
             /\ \A k \in 1 .. Len(f) : f[k] = At(buf, idxNext, k)
             /\ IsPrefix(file, f)
<1> DEFINE f == file \o stdio
<1>1. /\ file \in Seq(Nat) /\ stdio \in Seq(Nat)
      /\ Len(file) \in Nat /\ Len(stdio) \in Nat
      /\ Len(file) + Len(stdio) = idxNext + Written
      /\ \A k \in 1 .. Len(file) : file[k] = At(buf, idxNext, k)
      /\ \A k \in 1 .. Len(stdio) : stdio[k] = At(buf, idxNext, Len(file) + k)
  BY LenProperties DEF IInv, TypeInv, FileInv
<1>2. /\ f \in Seq(Nat) /\ Len(f) = Len(file) + Len(stdio)
      /\ \A k \in 1 .. Len(file) + Len(stdio) :
           f[k] = IF k <= Len(file) THEN file[k] ELSE stdio[k - Len(file)]
  BY <1>1, ConcatProperties
<1> HIDE DEF f
<1>3. ASSUME NEW k \in 1 .. Len(file)
      PROVE  f[k] = file[k]
  <2>1. k \in 1 .. Len(file) + Len(stdio) /\ k <= Len(file)
    BY <1>1
  <2> QED
    BY <1>2, <2>1, Zenon
<1>4. ASSUME NEW k \in 1 .. Len(f)
      PROVE  f[k] = At(buf, idxNext, k)
  <2>1. CASE k <= Len(file)
    <3>1. k \in 1 .. Len(file)
      BY <1>1, <1>2, <2>1
    <3> QED
      BY <1>1, <1>3, <3>1
  <2>2. CASE ~(k <= Len(file))
    <3>1. k - Len(file) \in 1 .. Len(stdio) /\ Len(file) + (k - Len(file)) = k
      BY <1>1, <1>2, <2>2
    <3>2. stdio[k - Len(file)] = At(buf, idxNext, Len(file) + (k - Len(file)))
      BY <1>1, <3>1
    <3> QED
      BY <1>2, <2>2, <3>1, <3>2
  <2> QED
    BY <2>1, <2>2
<1>5. IsPrefix(file, f)
  <2>1. Len(file) <= Len(f)
    BY <1>1, <1>2
  <2> QED
    BY <1>1, <1>2, <1>3, <2>1, PrefixOf, Zenon
<1> QED
  BY <1>1, <1>2, <1>4, <1>5 DEF f

-----------------------------------------------------------------------------
LEMMA InitInv == Init => IInv
<1> SUFFICES ASSUME Init
             PROVE  IInv
  OBVIOUS
<1>1. <<>> \in Seq(Nat) /\ Len(<<>>) = 0 /\ ToSet(<<>>) = {}
  BY DEF ToSet
<1> QED
  BY <1>1 DEF Init, IInv, TypeInv, BufferInv, WriteInv, FileInv, EndInv, Live,
              Increasing, Written, At

(***************************************************************************)
(* push: the record goes into the buffer, or there is something to write.  *)
(***************************************************************************)
LEMMA PushRecordInv ==
  ASSUME IInv, NEW idx \in Saved, PushRecord(idx)
  PROVE  IInv'
<1>1. /\ state = "open" /\ state' = "open" /\ todo = -1 /\ idx \notin given
      /\ given' = given \cup {idx} /\ idx \in Nat
      /\ buf' = InsertSorted(buf, idx) /\ count' = Chunk(buf', idxNext)
      /\ todo' = IF count' = 0 THEN -1 ELSE count'
      /\ idxNext' = idxNext /\ stdio' = stdio /\ file' = file
  BY SavedType DEF PushRecord, Unlocked
<1>2. /\ TypeInv /\ Live /\ Live' /\ stdio = <<>>
      /\ buf \in Seq(Nat) /\ Increasing(buf) /\ idxNext \in Nat
      /\ Len(buf) \in Nat /\ DOMAIN buf = 1 .. Len(buf)
      /\ \A i \in 1 .. Len(buf) : buf[i] >= idxNext
      /\ given = (0 .. idxNext - 1) \cup ToSet(buf)
      /\ Len(file) + Len(stdio) = idxNext + Written
      /\ \A k \in 1 .. Len(file) : file[k] = At(buf, idxNext, k)
  BY <1>1, LenProperties DEF IInv, TypeInv, BufferInv, WriteInv, FileInv, Live
<1>3. idx \notin ToSet(buf) /\ idx >= idxNext
  BY <1>1, <1>2
<1>4. /\ buf' \in Seq(Nat) /\ Increasing(buf')
      /\ ToSet(buf') = ToSet(buf) \cup {idx}
      /\ DOMAIN buf' = 1 .. Len(buf')
  BY <1>1, <1>2, <1>3, InsertSortedOrder, LenProperties
<1>5. \A i \in 1 .. Len(buf') : buf'[i] >= idxNext
  <2>1. \A r \in ToSet(buf) : r >= idxNext
    BY <1>2 DEF ToSet
  <2>2. \A i \in 1 .. Len(buf') : buf'[i] \in ToSet(buf')
    BY <1>4 DEF ToSet
  <2> QED
    BY <1>3, <1>4, <2>1, <2>2
<1>6. /\ count' \in 0 .. Len(buf')
      /\ \A i \in 1 .. count' : buf'[i] = idxNext + i - 1
  BY <1>1, <1>2, <1>4, <1>5, ChunkContinues
<1>7. TypeInv'
  <2>1. count' \in Nat /\ todo' \in Nat \cup {-1}
    BY <1>1, <1>6
  <2>2. given' \in SUBSET Nat
    BY <1>1, <1>2 DEF TypeInv
  <2> QED
    BY <1>1, <1>2, <1>4, <2>1, <2>2 DEF TypeInv
<1>8. BufferInv'
  <2>1. given' = (0 .. idxNext - 1) \cup ToSet(buf')
    BY <1>1, <1>2, <1>4
  <2> QED
    BY <1>1, <1>4, <1>5, <2>1 DEF BufferInv
<1>9. WriteInv'
  <2>1. todo' # -1 => todo' <= count' /\ count' <= Len(buf')
    BY <1>1, <1>6
  <2> QED
    BY <1>1, <1>2, <1>6, <2>1 DEF WriteInv
<1>10. FileInv'
  <2>1. Written = 0 /\ Written' = 0
    BY <1>1, <1>6 DEF Written
  <2>2. Len(file) \in Nat /\ Len(stdio) = 0
    BY <1>2, LenProperties, EmptySeq DEF TypeInv
  <2>3. Len(file) = idxNext
    BY <1>2, <2>1, <2>2
  <2>4. \A k \in 1 .. Len(file) : At(buf', idxNext', k) = At(buf, idxNext, k)
    BY <1>1, <1>2, <2>3 DEF At
  <2>5. /\ Len(file') + Len(stdio') = idxNext' + Written'
        /\ \A k \in 1 .. Len(file') : file'[k] = At(buf', idxNext', k)
    BY <1>1, <1>2, <2>1, <2>4
  <2>6. \A k \in 1 .. Len(stdio') : stdio'[k] = At(buf', idxNext', Len(file') + k)
    BY <1>1, <2>2
  <2> QED
    BY <2>5, <2>6 DEF FileInv
<1>11. EndInv'
  BY <1>1 DEF EndInv, Live
<1> QED
  BY <1>7, <1>8, <1>9, <1>10, <1>11 DEF IInv

(***************************************************************************)
(* fputs: the next record of the buffer.                                   *)
(***************************************************************************)
LEMMA FputsInv ==
  ASSUME IInv, Fputs
  PROVE  IInv'
<1>1. /\ todo > 0 /\ todo' = todo - 1
      /\ stdio' = Append(stdio, buf[count - todo + 1])
      /\ UNCHANGED <<buf, idxNext, count, file, given, state>>
  BY DEF Fputs
<1>2. /\ TypeInv /\ BufferInv /\ WriteInv /\ Live
      /\ todo \in Nat /\ count \in Nat /\ todo <= count /\ count <= Len(buf)
      /\ buf \in Seq(Nat) /\ Len(buf) \in Nat /\ idxNext \in Nat
      /\ \A i \in 1 .. Len(buf) : buf[i] \in Nat
      /\ stdio \in Seq(Nat) /\ Len(stdio) \in Nat /\ Len(file) \in Nat
      /\ Len(file) + Len(stdio) = idxNext + Written
      /\ \A k \in 1 .. Len(file) : file[k] = At(buf, idxNext, k)
      /\ \A k \in 1 .. Len(stdio) : stdio[k] = At(buf, idxNext, Len(file) + k)
  <2>1. TypeInv /\ BufferInv /\ WriteInv /\ EndInv /\ FileInv
    BY DEF IInv
  <2>2. todo \in Nat /\ todo # -1
    BY <1>1, <2>1 DEF TypeInv
  <2>3. Live
    BY <2>1, <2>2 DEF EndInv
  <2> QED
    BY <2>1, <2>2, <2>3, LenProperties DEF TypeInv, WriteInv, FileInv
<1>3. count - todo + 1 \in 1 .. Len(buf) /\ Written = count - todo
      /\ Written' = count - todo + 1 /\ todo' \in Nat /\ todo' <= count
  <2>1. Written = count - todo /\ Written' = count - (todo - 1)
    BY <1>1, <1>2 DEF Written
  <2>2. /\ todo \in Nat /\ todo > 0 /\ todo' = todo - 1 /\ count \in Nat /\ todo <= count
        /\ count <= Len(buf) /\ Len(buf) \in Nat
    BY <1>1, <1>2, Zenon
  <2> QED
    BY ONLY <2>1, <2>2, SMT
<1>4. buf[count - todo + 1] \in Nat
  BY <1>2, <1>3
<1> DEFINE e == buf[count - todo + 1]
<1> HIDE DEF e
<1>5. /\ stdio' \in Seq(Nat) /\ Len(stdio') = Len(stdio) + 1
      /\ \A k \in 1 .. Len(stdio) : stdio'[k] = stdio[k]
      /\ stdio'[Len(stdio) + 1] = e
  <2>1. stdio' = Append(stdio, e) /\ e \in Nat
    BY <1>1, <1>4 DEF e
  <2> QED
    BY <1>2, <2>1, AppendProperties
<1>6. At(buf, idxNext, Len(file) + (Len(stdio) + 1)) = e
  <2>1. Len(file) + (Len(stdio) + 1) = idxNext + (count - todo + 1)
    <3>1. Len(file) + Len(stdio) = idxNext + (count - todo)
      BY <1>2, <1>3
    <3> QED
      BY <1>2, <3>1
  <2>2. /\ ~(idxNext + (count - todo + 1) <= idxNext)
        /\ (idxNext + (count - todo + 1)) - idxNext = count - todo + 1
    BY <1>2, <1>3
  <2> QED
    BY <2>1, <2>2 DEF At, e
<1>7. \A k : At(buf', idxNext', k) = At(buf, idxNext, k)
  BY <1>1 DEF At
<1>8. TypeInv'
  BY <1>1, <1>2, <1>3, <1>5 DEF TypeInv
<1>9. BufferInv'
  BY <1>1, <1>2 DEF BufferInv, Live
<1>10. WriteInv'
  <2>1. /\ todo # -1 /\ todo' # -1 /\ todo' <= count' /\ count' <= Len(buf')
    <3>1. todo # -1 /\ todo' # -1
      BY <1>2, <1>3
    <3>2. todo' <= count' /\ count' <= Len(buf')
      BY <1>1, <1>2, <1>3
    <3> QED
      BY <3>1, <3>2
  <2>2. /\ state' = "open" => \A i \in 1 .. count' : buf'[i] = idxNext' + i - 1
        /\ state' = "closing" => count' = Len(buf')
    BY <1>1, <1>2, <2>1 DEF WriteInv
  <2> QED
    BY <2>1, <2>2 DEF WriteInv
<1>11. FileInv'
  <2>1. Len(file') + Len(stdio') = idxNext' + Written'
    <3>1. /\ Len(file') = Len(file) /\ idxNext' = idxNext
          /\ Len(file) + Len(stdio) = idxNext + (count - todo)
      BY <1>1, <1>2, <1>3
    <3>2. Len(stdio') = Len(stdio) + 1 /\ Written' = count - todo + 1
      BY <1>3, <1>5
    <3> QED
      BY <1>2, <3>1, <3>2
  <2>2. \A k \in 1 .. Len(file') : file'[k] = At(buf', idxNext', k)
    BY <1>1, <1>2, <1>7
  <2>3. ASSUME NEW k \in 1 .. Len(stdio')
        PROVE  stdio'[k] = At(buf', idxNext', Len(file') + k)
    <3>1. At(buf', idxNext', Len(file') + k) = At(buf, idxNext, Len(file) + k)
      BY <1>1, <1>7
    <3>2. CASE k \in 1 .. Len(stdio)
      BY <1>2, <1>5, <3>1, <3>2
    <3>3. CASE k = Len(stdio) + 1
      BY <1>5, <1>6, <3>1, <3>3
    <3> QED
      BY <1>2, <1>5, <3>2, <3>3
  <2> QED
    BY <2>1, <2>2, <2>3 DEF FileInv
<1>12. EndInv'
  BY <1>1, <1>2 DEF EndInv, Live
<1> QED
  BY <1>8, <1>9, <1>10, <1>11, <1>12 DEF IInv

(***************************************************************************)
(* A full buffer of stdio: nothing changes for the writer.                 *)
(***************************************************************************)
LEMMA SpillInv ==
  ASSUME IInv, Spill
  PROVE  IInv'
<1>1. /\ stdio # <<>>
      /\ file' = Append(file, Head(stdio)) /\ stdio' = Tail(stdio)
      /\ UNCHANGED <<buf, idxNext, todo, count, given, state>>
  BY DEF Spill
<1>2. TypeInv /\ BufferInv /\ WriteInv /\ FileInv /\ Live /\ todo # -1
  BY <1>1 DEF IInv, EndInv, WriteInv
<1>3. /\ file' \in Seq(Nat) /\ Len(file') = Len(file) + 1
      /\ \A k \in 1 .. Len(file') : file'[k] = At(buf, idxNext, k)
      /\ stdio' \in Seq(Nat) /\ Len(stdio') = Len(stdio) - 1
      /\ \A k \in 1 .. Len(stdio') : stdio'[k] = At(buf, idxNext, Len(file') + k)
  BY <1>1, <1>2, SpilledFile
<1>4. \A k : At(buf', idxNext', k) = At(buf, idxNext, k)
  BY <1>1 DEF At
<1>5. Len(file) \in Nat /\ Len(stdio) \in Nat
      /\ Len(file) + Len(stdio) = idxNext + Written
  BY <1>2, LenProperties DEF TypeInv, FileInv
<1>6. TypeInv'
  BY <1>1, <1>2, <1>3 DEF TypeInv
<1>7. BufferInv'
  BY <1>1, <1>2 DEF BufferInv, Live
<1>8. WriteInv'
  BY <1>1, <1>2 DEF WriteInv, Live
<1>9. FileInv'
  <2>1. Written' = Written
    BY <1>1 DEF Written
  <2>2. Len(file') + Len(stdio') = idxNext' + Written'
    BY <1>1, <1>3, <1>5, <2>1
  <2> QED
    BY <1>3, <1>4, <2>2 DEF FileInv
<1>10. EndInv'
  BY <1>1, <1>2 DEF EndInv, Live
<1> QED
  BY <1>6, <1>7, <1>8, <1>9, <1>10 DEF IInv

(***************************************************************************)
(* The end of push: the chunk is in the file, the rest of the buffer comes *)
(* after it.                                                               *)
(***************************************************************************)
LEMMA FlushInv ==
  ASSUME IInv, Flush
  PROVE  IInv'
<1>1. /\ todo = 0 /\ state = "open" /\ todo' = -1
      /\ file' = file \o stdio /\ stdio' = <<>>
      /\ buf' = SubSeq(buf, count + 1, Len(buf))
      /\ idxNext' = idxNext + count
      /\ UNCHANGED <<count, given, state>>
  BY DEF Flush
<1>2. /\ TypeInv /\ Live /\ Live'
      /\ count \in 0 .. Len(buf) /\ Written = count
      /\ buf \in Seq(Nat) /\ Len(buf) \in Nat /\ idxNext \in Nat
      /\ \A i \in 1 .. Len(buf) : buf[i] \in Nat
      /\ DOMAIN buf = 1 .. Len(buf)
      /\ \A i \in 1 .. count : buf[i] = idxNext + i - 1
      /\ \A i, j \in 1 .. Len(buf) : i < j => buf[i] < buf[j]
      /\ \A i \in 1 .. Len(buf) : buf[i] >= idxNext
      /\ given = (0 .. idxNext - 1) \cup ToSet(buf)
  BY <1>1, LenProperties
     DEF IInv, TypeInv, BufferInv, WriteInv, Live, Written, Increasing
<1>3. /\ buf' \in Seq(Nat) /\ Len(buf') = Len(buf) - count
      /\ \A i \in 1 .. Len(buf) - count : buf'[i] = buf[count + i]
  BY <1>1, <1>2, RestPlaces
<1>4. /\ file' \in Seq(Nat) /\ Len(file') = idxNext + count
      /\ \A k \in 1 .. Len(file') : file'[k] = At(buf, idxNext, k)
  BY <1>1, <1>2, FlushedFile
<1>5. TypeInv'
  <2>1. idxNext' \in Nat /\ stdio' \in Seq(Nat) /\ todo' \in Nat \cup {-1}
    BY <1>1, <1>2
  <2> QED
    BY <1>1, <1>2, <1>3, <1>4, <2>1 DEF TypeInv
<1>6. BufferInv'
  <2>1. Increasing(buf')
    <3> SUFFICES ASSUME NEW i \in 1 .. Len(buf) - count,
                        NEW j \in 1 .. Len(buf) - count, i < j
                 PROVE  buf'[i] < buf'[j]
      BY <1>3 DEF Increasing
    <3>1. /\ count + i \in 1 .. Len(buf) /\ count + j \in 1 .. Len(buf)
          /\ count + i < count + j
      BY <1>2
    <3>2. buf[count + i] < buf[count + j]
      BY <1>2, <3>1
    <3> QED
      BY <1>3, <3>2
  <2>2. ASSUME NEW i \in 1 .. Len(buf')
        PROVE  buf'[i] >= idxNext'
    <3>1. i \in 1 .. Len(buf) - count /\ count + i \in 1 .. Len(buf)
      BY <1>2, <1>3
    <3>2. CASE count = 0
      BY <1>1, <1>2, <1>3, <3>1, <3>2
    <3>3. CASE count # 0
      <4>1. count \in 1 .. count /\ count \in 1 .. Len(buf) /\ count < count + i
        BY <1>2, <3>1, <3>3
      <4>2. buf[count] = idxNext + count - 1 /\ buf[count] < buf[count + i]
        BY <1>2, <3>1, <4>1
      <4>3. buf[count + i] \in Nat
        BY <1>2, <3>1
      <4>4. buf'[i] = buf[count + i] /\ buf[count + i] >= idxNext + count
        <5>1. buf'[i] = buf[count + i]
          BY <1>3, <3>1
        <5>2. idxNext \in Nat /\ count \in Nat
          BY <1>2
        <5> QED
          BY ONLY <4>2, <4>3, <5>1, <5>2, SMT
      <4> QED
        BY <1>1, <4>4
    <3> QED
      BY <3>2, <3>3
  <2>3. given' = (0 .. idxNext' - 1) \cup ToSet(buf')
    <3>1. /\ ToSet(buf) = {buf[i] : i \in 1 .. Len(buf)}
          /\ ToSet(buf') = {buf'[i] : i \in 1 .. Len(buf) - count}
      BY <1>2, <1>3, LenProperties DEF ToSet
    <3>2. ASSUME NEW i \in 1 .. Len(buf)
          PROVE  buf[i] \in (0 .. idxNext' - 1) \cup ToSet(buf')
      <4>1. CASE i <= count
        <5>1. buf[i] = idxNext + i - 1
          BY <1>2, <4>1
        <5> QED
          BY <1>1, <1>2, <4>1, <5>1
      <4>2. CASE i > count
        <5>1. i - count \in 1 .. Len(buf) - count /\ count + (i - count) = i
          BY <1>2, <4>2
        <5>2. buf'[i - count] = buf[i]
          BY <1>3, <5>1
        <5> QED
          BY <3>1, <5>1, <5>2
      <4> QED
        BY <1>2, <4>1, <4>2
    <3>3. ASSUME NEW i \in 1 .. Len(buf) - count
          PROVE  buf'[i] \in ToSet(buf)
      <4>1. count + i \in 1 .. Len(buf)
        BY <1>2
      <4> QED
        BY <1>3, <3>1, <4>1
    <3>4. ASSUME NEW r \in 0 .. idxNext' - 1, ~(r \in 0 .. idxNext - 1)
          PROVE  r \in ToSet(buf)
      <4>1. /\ (r - idxNext) + 1 \in 1 .. count /\ (r - idxNext) + 1 \in 1 .. Len(buf)
            /\ idxNext + ((r - idxNext) + 1) - 1 = r
        BY <1>1, <1>2, <3>4
      <4>2. buf[(r - idxNext) + 1] = r
        BY <1>2, <4>1
      <4> QED
        BY <3>1, <4>1, <4>2
    <3>5. \A r \in 0 .. idxNext - 1 : r \in 0 .. idxNext' - 1
      BY <1>1, <1>2
    <3>6. given \subseteq (0 .. idxNext' - 1) \cup ToSet(buf')
      BY <1>2, <3>1, <3>2, <3>5, Zenon
    <3>7. (0 .. idxNext' - 1) \cup ToSet(buf') \subseteq given
      BY <1>2, <3>1, <3>3, <3>4, Zenon
    <3> QED
      BY <1>1, <3>6, <3>7, Zenon
  <2> QED
    BY <2>1, <2>2, <2>3 DEF BufferInv
<1>7. WriteInv'
  BY <1>1 DEF WriteInv, Live
<1>8. FileInv'
  <2>1. Written' = 0 /\ Len(stdio') = 0
    BY <1>1 DEF Written
  <2>2. Len(file') + Len(stdio') = idxNext' + Written'
    BY <1>1, <1>2, <1>4, <2>1
  <2>3. ASSUME NEW k \in 1 .. Len(file')
        PROVE  file'[k] = At(buf', idxNext', k)
    <3>1. At(buf, idxNext, k) = k - 1
      BY <1>1, <1>2, <1>4, StreamOrder
    <3>2. At(buf', idxNext', k) = k - 1
      BY <1>1, <1>2, <1>4 DEF At
    <3> QED
      BY <1>4, <3>1, <3>2
  <2>4. \A k \in 1 .. Len(stdio') : stdio'[k] = At(buf', idxNext', Len(file') + k)
    BY <2>1
  <2> QED
    BY <2>2, <2>3, <2>4 DEF FileInv
<1>9. EndInv'
  BY <1>1, <1>2 DEF EndInv, Live
<1> QED
  BY <1>5, <1>6, <1>7, <1>8, <1>9 DEF IInv

(***************************************************************************)
(* The destructor writes all that is left.                                 *)
(***************************************************************************)
LEMMA DestroyInv ==
  ASSUME IInv, Destroy
  PROVE  IInv'
<1>1. /\ state = "open" /\ todo = -1 /\ state' = "closing"
      /\ count' = Len(buf) /\ todo' = Len(buf)
      /\ UNCHANGED <<buf, idxNext, stdio, file, given>>
  BY DEF Destroy, Unlocked
<1>2. /\ TypeInv /\ BufferInv /\ FileInv /\ Live /\ Live'
      /\ Len(buf) \in Nat
  BY <1>1, LenProperties DEF IInv, TypeInv, Live
<1>3. \A k : At(buf', idxNext', k) = At(buf, idxNext, k)
  BY <1>1 DEF At
<1>4. Written = 0 /\ Written' = 0
  BY <1>1, <1>2 DEF Written
<1>5. TypeInv'
  BY <1>1, <1>2 DEF TypeInv
<1>6. BufferInv'
  BY <1>1, <1>2 DEF BufferInv
<1>7. WriteInv'
  <2>1. todo' # -1 /\ todo' <= count' /\ count' <= Len(buf')
    BY <1>1, <1>2
  <2> QED
    BY <1>1, <2>1 DEF WriteInv
<1>8. FileInv'
  BY <1>1, <1>2, <1>3, <1>4 DEF FileInv
<1>9. EndInv'
  BY <1>1, <1>2 DEF EndInv
<1> QED
  BY <1>5, <1>6, <1>7, <1>8, <1>9 DEF IInv

(***************************************************************************)
(* The destructor has closed the file: it is the whole stream.             *)
(***************************************************************************)
LEMMA DestroyedInv ==
  ASSUME IInv, Destroyed
  PROVE  /\ IInv'
         /\ Log!InOrder(file', given) /\ IsPrefix(file, file')
<1>1. /\ state = "closing" /\ todo = 0 /\ state' = "closed" /\ todo' = -1
      /\ file' = file \o stdio /\ stdio' = <<>> /\ buf' = <<>>
      /\ idxNext' = idxNext + count
      /\ UNCHANGED <<count, given>>
  BY DEF Destroyed
<1>2. /\ TypeInv /\ Live /\ count = Len(buf) /\ Written = count
      /\ idxNext \in Nat /\ Len(buf) \in Nat
  BY <1>1, LenProperties DEF IInv, TypeInv, WriteInv, Live, Written
<1>3. /\ file' \in Seq(Nat) /\ Len(file') = Known /\ IsPrefix(file, file')
      /\ \A k \in 1 .. Len(file') : file'[k] = At(buf, idxNext, k)
  BY <1>1, <1>2, FlushedFile DEF Known
<1>4. Log!InOrder(file', given)
  <2>1. Len(file') <= Known
    BY <1>2, <1>3 DEF Known
  <2> QED
    BY <1>2, <1>3, <2>1, FileOfStream
<1>5. IsSorted(file', <) /\ ToSet(file') = given
  BY <1>4, LogConditions, Zenon
<1>10. Increasing(file')
  BY <1>5 DEF IsSorted, Increasing
<1>6. TypeInv'
  BY <1>1, <1>2, <1>3 DEF TypeInv
<1>7. ~Live'
  BY <1>1 DEF Live
<1>8. BufferInv' /\ WriteInv' /\ FileInv'
  BY <1>7 DEF BufferInv, WriteInv, FileInv
<1>9. EndInv'
  BY <1>1, <1>5, <1>10, Zenon DEF EndInv
<1> QED
  BY <1>3, <1>4, <1>6, <1>8, <1>9 DEF IInv

(***************************************************************************)
(* SIGINT: what is not in the file is lost.                                *)
(***************************************************************************)
LEMMA InterruptInv ==
  ASSUME IInv, Interrupt
  PROVE  IInv'
<1>1. /\ state' = "lost" /\ stdio' = <<>> /\ todo' = -1
      /\ UNCHANGED <<buf, idxNext, count, file, given>>
  BY DEF Interrupt
<1>2. TypeInv'
  BY <1>1 DEF IInv, TypeInv
<1>3. ~Live'
  BY <1>1 DEF Live
<1> QED
  BY <1>1, <1>2, <1>3 DEF IInv, BufferInv, WriteInv, FileInv, EndInv

LEMMA UnchangedInv ==
  ASSUME IInv, UNCHANGED vars
  PROVE  IInv'
<1>1. UNCHANGED <<buf, idxNext, todo, count, stdio, file, given, state>>
  BY DEF vars
<1>2. TypeInv'
  BY <1>1 DEF IInv, TypeInv
<1>3. BufferInv'
  BY <1>1 DEF IInv, BufferInv, Live
<1>4. WriteInv'
  BY <1>1 DEF IInv, WriteInv, Live
<1>5. FileInv'
  BY <1>1 DEF IInv, FileInv, Live, Written
<1>6. EndInv'
  BY <1>1, Zenon DEF IInv, EndInv, Live
<1> QED
  BY <1>2, <1>3, <1>4, <1>5, <1>6 DEF IInv

(***************************************************************************)
(* The invariant holds in every run of SeqWriter.                          *)
(***************************************************************************)
THEOREM Invariance == Spec => []IInv
<1>1. Init => IInv
  BY InitInv
<1>2. IInv /\ [Next]_vars => IInv'
  <2> SUFFICES ASSUME IInv, [Next]_vars
               PROVE  IInv'
    OBVIOUS
  <2>1. ASSUME NEW idx \in Saved, PushRecord(idx)
        PROVE  IInv'
    BY <2>1, PushRecordInv
  <2>2. CASE Fputs
    BY <2>2, FputsInv
  <2>3. CASE Spill
    BY <2>3, SpillInv
  <2>4. CASE Flush
    BY <2>4, FlushInv
  <2>5. CASE Destroyed
    BY <2>5, DestroyedInv
  <2>6. CASE Destroy
    BY <2>6, DestroyInv
  <2>7. CASE Interrupt
    BY <2>7, InterruptInv
  <2>8. CASE Done \/ UNCHANGED vars
    BY <2>8, UnchangedInv DEF Done
  <2> QED
    BY <2>1, <2>2, <2>3, <2>4, <2>5, <2>6, <2>7, <2>8 DEF Next, Write
<1> QED
  BY <1>1, <1>2, PTL DEF Spec

(***************************************************************************)
(* NothingLostNorDoubled: the buffer and the file have every record that   *)
(* was pushed, and as many places as there are records.                    *)
(***************************************************************************)
THEOREM RecordsKept == Spec => []NothingLostNorDoubled
<1>1. IInv => NothingLostNorDoubled
  <2> SUFFICES ASSUME IInv, todo = -1, state # "lost"
               PROVE  /\ Len(buf) + Len(file) = Cardinality(given)
                      /\ ToSet(buf) \cup ToSet(file) = given
    BY DEF NothingLostNorDoubled, Unlocked
  <2>1. /\ buf \in Seq(Nat) /\ file \in Seq(Nat) /\ idxNext \in Nat
        /\ Len(buf) \in Nat /\ Len(file) \in Nat
        /\ DOMAIN file = 1 .. Len(file)
    BY LenProperties DEF IInv, TypeInv
  <2>2. CASE state = "closed"
    <3>1. buf = <<>> /\ Increasing(file) /\ ToSet(file) = given
      BY <2>2 DEF IInv, EndInv
    <3>2. \A k \in 1 .. Len(file) : file[k] \in Nat
      BY <2>1, LenProperties
    <3>3. \A i, j \in 1 .. Len(file) : i # j => file[i] # file[j]
      BY <2>1, <3>1, <3>2 DEF Increasing
    <3>4. Cardinality(ToSet(file)) = Len(file)
      BY <2>1, <3>3, DifferentRecords
    <3>5. Len(buf) = 0 /\ DOMAIN buf = {}
      <4>1. Len(buf) = 0
        BY <3>1, EmptySeq
      <4> QED
        BY <2>1, <4>1, LenProperties
    <3>6. ToSet(buf) = {}
      BY <3>5 DEF ToSet
    <3> QED
      <4>1. Len(buf) + Len(file) = Len(file)
        BY <2>1, <3>5
      <4> QED
        BY <3>1, <3>4, <3>6, <4>1
  <2>3. CASE state # "closed"
    <3>1. Live /\ state = "open" /\ stdio = <<>>
      BY <2>3 DEF IInv, TypeInv, Live, WriteInv
    <3>2. Written = 0 /\ Len(stdio) = 0 /\ Len(file) = idxNext
      <4>1. Written = 0 /\ Len(stdio) = 0
        BY <3>1 DEF Written
      <4>2. Len(file) + Len(stdio) = idxNext + Written
        BY <3>1 DEF IInv, FileInv
      <4>3. Len(file) \in Nat /\ idxNext \in Nat
        BY <2>1
      <4>4. Len(file) = idxNext
        BY ONLY <4>1, <4>2, <4>3
      <4> QED
        BY <4>1, <4>4
    <3>3. \A k \in 1 .. idxNext : file[k] = k - 1
      <4>1. \A k \in 1 .. idxNext : file[k] = At(buf, idxNext, k)
        BY <3>1, <3>2 DEF IInv, FileInv
      <4> QED
        BY <2>1, <4>1 DEF At
    <3> DEFINE wr == [buf |-> buf, idxNext |-> idxNext, out |-> file]
    <3>4. Increasing(buf) /\ (\A i \in 1 .. Len(buf) : buf[i] >= idxNext)
          /\ given = (0 .. idxNext - 1) \cup ToSet(buf)
      BY <3>1 DEF IInv, BufferInv
    <3>5. ToSet(file) = 0 .. idxNext - 1
      <4>1. ToSet(file) = {file[k] : k \in 1 .. idxNext}
        BY <2>1, <3>2 DEF ToSet
      <4>2. ToSet(file) \subseteq 0 .. idxNext - 1
        BY <2>1, <3>3, <4>1
      <4>3. ASSUME NEW r \in 0 .. idxNext - 1
            PROVE  r \in ToSet(file)
        <5>1. r + 1 \in 1 .. idxNext /\ (r + 1) - 1 = r
          BY <2>1
        <5> QED
          BY <3>3, <4>1, <5>1
      <4> QED
        BY <4>2, <4>3
    <3>6. Cardinality(given) = idxNext + Len(buf)
      <4>1. /\ IsFiniteSet(ToSet(buf)) /\ Cardinality(ToSet(buf)) = Len(buf)
        <5>1. \A i \in 1 .. Len(buf) : buf[i] \in Nat
          BY <2>1, LenProperties
        <5>2. \A i, j \in 1 .. Len(buf) : i # j => buf[i] # buf[j]
          BY <2>1, <3>4, <5>1 DEF Increasing
        <5> QED
          BY <2>1, <5>2, DifferentRecords
      <4>2. /\ IsFiniteSet(ToSet(file)) /\ Cardinality(ToSet(file)) = idxNext
        <5>1. \A i, j \in 1 .. Len(file) : i # j => file[i] # file[j]
          BY <2>1, <3>2, <3>3
        <5> QED
          BY <2>1, <3>2, <5>1, DifferentRecords
      <4>3. ToSet(buf) \cap ToSet(file) = {}
        <5>1. \A r \in ToSet(buf) : r >= idxNext
          BY <2>1, <3>4, LenProperties DEF ToSet
        <5> QED
          BY <2>1, <3>5, <5>1
      <4>4. given = ToSet(buf) \cup ToSet(file)
        BY <3>4, <3>5
      <4>5. Cardinality(ToSet(buf) \cup ToSet(file))
              = Cardinality(ToSet(buf)) + Cardinality(ToSet(file))
                - Cardinality(ToSet(buf) \cap ToSet(file))
        BY <4>1, <4>2, FS_Union
      <4>6. Cardinality(ToSet(buf) \cap ToSet(file)) = 0
        BY <4>3, FS_EmptySet
      <4> QED
        BY <2>1, <4>1, <4>2, <4>4, <4>5, <4>6
    <3> QED
      BY <2>1, <3>2, <3>4, <3>5, <3>6
  <2> QED
    BY <2>2, <2>3
<1> QED
  BY <1>1, Invariance, PTL

(***************************************************************************)
(* ImplementsOrderedLog: every step of the writer, of stdio and of the     *)
(* process is a step of OrderedLog, or changes nothing that it knows.      *)
(***************************************************************************)
THEOREM WriterImplementsLog == Spec => ImplementsOrderedLog
<1>1. Init => Log!Init
  BY DEF Init, Log!Init
<1>2. IInv /\ [Next]_vars => [Log!Next]_(Log!vars)
  <2> SUFFICES ASSUME IInv, [Next]_vars
               PROVE  Log!Next \/ UNCHANGED <<given, file, state>>
    BY DEF Log!vars
  <2> USE DEF Log!Next
  <2>0. \A s, t : IsPrefix(s, t) => Log!IsPrefix(s, t)
    BY DEF IsPrefix, Log!IsPrefix
  <2>1. ASSUME NEW idx \in Saved, PushRecord(idx)
        PROVE  Log!Next
    BY <2>1 DEF PushRecord, Log!Give
  <2>2. CASE Fputs
    BY <2>2 DEF Fputs
  <2>3. CASE Spill
    <3>1. /\ stdio # <<>> /\ file' = Append(file, Head(stdio))
          /\ UNCHANGED <<given, state, todo>>
      BY <2>3 DEF Spill
    <3>2. Live
      BY <3>1 DEF IInv, EndInv
    <3>3. /\ file' \in Seq(Nat) /\ Len(file') = Len(file) + 1
          /\ \A k \in 1 .. Len(file') : file'[k] = At(buf, idxNext, k)
          /\ IsPrefix(file, file')
      BY <3>1, <3>2, SpilledFile
    <3>4. Len(file') <= idxNext + Written /\ Len(file') <= Known
      <4>1. Len(stdio) \in Nat \ {0} /\ Len(file) \in Nat /\ idxNext \in Nat
            /\ Len(file) + Len(stdio) = idxNext + Written
        BY <3>1, <3>2, LenProperties, EmptySeq DEF IInv, TypeInv, FileInv
      <4>2. Written \in 0 .. Len(buf) /\ Len(buf) \in Nat
            /\ Known = idxNext + Len(buf)
        BY <3>2, StreamOrder
      <4> QED
        BY <3>3, <4>1, <4>2
    <3>5. /\ Log!Begins(file', given)
          /\ state = "open" => Log!Contiguous(file')
      BY <3>2, <3>3, <3>4, FileOfStream
    <3>6. Log!Grows
      BY <2>0, <3>3 DEF Log!Grows
    <3>7. CASE state = "open"
      <4>1. Log!ToSet(file') \subseteq given
        BY <3>5 DEF Log!Begins
      <4> QED
        BY <3>1, <3>5, <3>6, <3>7, <4>1 DEF Log!Extend
    <3>8. CASE state = "closing"
      BY <3>1, <3>5, <3>6, <3>8 DEF Log!ExtendLast
    <3> QED
      BY <3>2, <3>7, <3>8 DEF Live
  <2>4. CASE Flush
    <3>1. /\ state = "open" /\ file' = file \o stdio
          /\ UNCHANGED <<given, state>>
      BY <2>4 DEF Flush
    <3>2. Live
      BY <3>1 DEF Live
    <3>3. /\ file' \in Seq(Nat) /\ Len(file') = idxNext + Written
          /\ \A k \in 1 .. Len(file') : file'[k] = At(buf, idxNext, k)
          /\ IsPrefix(file, file')
      BY <3>1, <3>2, FlushedFile
    <3>4. Len(file') <= idxNext + Written /\ Len(file') <= Known
      BY <3>2, <3>3, StreamOrder DEF IInv, TypeInv
    <3>5. Log!Begins(file', given) /\ Log!Contiguous(file')
      BY <3>1, <3>2, <3>3, <3>4, FileOfStream
    <3>6. Log!Grows
      BY <2>0, <3>3 DEF Log!Grows
    <3>7. Log!ToSet(file') \subseteq given
      BY <3>5 DEF Log!Begins
    <3> QED
      BY <3>1, <3>5, <3>6, <3>7 DEF Log!Extend
  <2>5. CASE Destroyed
    <3>1. Log!InOrder(file', given) /\ IsPrefix(file, file')
      BY <2>5, DestroyedInv
    <3>2. Log!Grows
      BY <2>0, <3>1 DEF Log!Grows
    <3> QED
      BY <2>5, <3>1, <3>2 DEF Destroyed, Log!Close
  <2>6. CASE Destroy
    BY <2>6 DEF Destroy, Log!StartClose
  <2>7. CASE Interrupt
    BY <2>7 DEF Interrupt, Log!Lose
  <2>8. CASE Done \/ UNCHANGED vars
    BY <2>8 DEF Done, vars
  <2> QED
    BY <2>1, <2>2, <2>3, <2>4, <2>5, <2>6, <2>7, <2>8 DEF Next, Write
<1> QED
  BY <1>1, <1>2, Invariance, PTL DEF Spec, ImplementsOrderedLog, Log!Spec
=============================================================================
