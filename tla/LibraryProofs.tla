---------------------------- MODULE LibraryProofs ----------------------------
(***************************************************************************)
(* What several proofs stand on: loops; the schedule, whose pairs are num- *)
(* bered without gap or repetition, for every number of engines, rounds    *)
(* and games; the operations of SeqWriter on its buffer and its file.      *)
(***************************************************************************)
EXTENDS Schedule, SeqBuffer, FiniteSetTheorems, FunctionTheorems, SequenceTheorems,
        WellFoundedInduction, TLAPS

\* Loops

(***************************************************************************)
(* A set of naturals that is not empty has a smallest element.             *)
(***************************************************************************)
LEMMA SmallestElement ==
  ASSUME NEW T, T \subseteq Nat, T # {}
  PROVE  \E x \in T : \A y \in T : x <= y
<1>1. \E x \in T : \A y \in T : ~(<<y, x>> \in OpToRel(<, Nat))
  BY NatLessThanWellFounded, WFMin, Zenon
<1>2. PICK x \in T : \A y \in T : ~(y < x)
  BY <1>1, Zenon DEF OpToRel
<1>3. \A y \in T : x <= y
  BY <1>2
<1> QED
  BY <1>3, Zenon

(***************************************************************************)
(* Induction, of the numbers in a set.                                     *)
(***************************************************************************)
LEMMA Induction ==
  ASSUME NEW n \in Nat, NEW T, 0 \in T,
         \A i \in 1 .. n : i - 1 \in T => i \in T
  PROVE  \A i \in 0 .. n : i \in T
<1> DEFINE Missing == {i \in 0 .. n : i \notin T}
<1>1. SUFFICES ASSUME Missing # {} PROVE FALSE
  OBVIOUS
<1>2. PICK i \in Missing : \A j \in Missing : i <= j
  <2>1. Missing \subseteq Nat
    OBVIOUS
  <2> HIDE DEF Missing
  <2> QED
    BY <1>1, <2>1, SmallestElement
<1>3. i # 0
  OBVIOUS
<1>4. i \in 1 .. n /\ i - 1 \in 0 .. n /\ ~(i <= i - 1)
  BY <1>3
<1>5. i - 1 \in T
  BY <1>2, <1>4
<1> QED
  BY <1>4, <1>5

\* What a variable of type S is after each of n rounds of a loop.
LoopRuns(S, base, n, step) ==
  {f \in [0 .. n -> S] : f[0] = base /\ \A i \in 1 .. n : f[i] = step[<<f[i - 1], i>>]}

(***************************************************************************)
(* A loop of n rounds that begins with base.                               *)
(***************************************************************************)
LEMMA LoopExists ==
  ASSUME NEW S, NEW base \in S, NEW n \in Nat, NEW step \in [S \X (1 .. n) -> S]
  PROVE  \E f : f \in LoopRuns(S, base, n, step)
<1> DEFINE Loop(f, k) == /\ f \in [0 .. k -> S]
                         /\ f[0] = base
                         /\ \A i \in 1 .. k : f[i] = step[<<f[i - 1], i>>]
           T == {k \in 0 .. n : \E f : Loop(f, k)}
<1>1. 0 \in T
  <2>1. Loop([i \in 0 .. 0 |-> base], 0)
    OBVIOUS
  <2> HIDE DEF Loop
  <2> QED
    BY <2>1
<1>2. ASSUME NEW k \in 1 .. n, k - 1 \in T
      PROVE  k \in T
  <2>1. PICK f : Loop(f, k - 1)
    BY <1>2
  <2> DEFINE g == [i \in 0 .. k |-> IF i = k THEN step[<<f[k - 1], k>>] ELSE f[i]]
  <2>2. step[<<f[k - 1], k>>] \in S
    <3>1. f[k - 1] \in S
      BY <2>1
    <3> QED
      BY <3>1
  <2>3. g \in [0 .. k -> S]
    BY <2>1, <2>2
  <2>4. g[0] = base
    BY <2>1
  <2>5. ASSUME NEW i \in 1 .. k
        PROVE  g[i] = step[<<g[i - 1], i>>]
    <3>1. i - 1 \in 0 .. k /\ i - 1 # k /\ i \in 0 .. k
      OBVIOUS
    <3>2. g[i - 1] = f[i - 1] /\ g[i] = IF i = k THEN step[<<f[k - 1], k>>] ELSE f[i]
      BY <3>1
    <3>3. CASE i = k
      <4> HIDE DEF g
      <4> QED
        BY <3>2, <3>3, Zenon
    <3>4. CASE i # k
      <4>1. i \in 1 .. k - 1
        BY <3>4
      <4>2. f[i] = step[<<f[i - 1], i>>]
        BY <2>1, <4>1
      <4> HIDE DEF g
      <4> QED
        BY <3>2, <3>4, <4>2, Zenon
    <3> QED
      BY <3>3, <3>4, Zenon
  <2>6. Loop(g, k)
    BY <2>3, <2>4, <2>5
  <2> HIDE DEF Loop, g
  <2> QED
    BY <2>6
<1> HIDE DEF T
<1>3. n \in T
  BY <1>1, <1>2, Induction
<1> QED
  BY <1>3 DEF T, LoopRuns

\* What a recursion over D makes of the values it calls for: those with a
\* smaller measure m.
Recursions(D, R, m) ==
  {G \in [[D -> R] -> [D -> R]] :
     \A f, g \in [D -> R], x \in D :
       (\A y \in D : m[y] < m[x] => f[y] = g[y]) => G[f][x] = G[g][x]}

(***************************************************************************)
(* Such a recursion has a solution.                                        *)
(***************************************************************************)
LEMMA RecursionExists ==
  ASSUME NEW D, NEW R, NEW r \in R, NEW N \in Nat, NEW m \in [D -> 0 .. N],
         NEW G \in Recursions(D, R, m)
  PROVE  \E f \in [D -> R] : f = G[f]
<1> DEFINE S == [D -> R]
           base == [x \in D |-> r]
           step == [fi \in S \X (1 .. N + 1) |-> G[fi[1]]]
           Settled(f, i) == \A x \in D : m[x] < i => G[f][x] = f[x]
<1>0. /\ G \in [[D -> R] -> [D -> R]]
      /\ \A f, g \in [D -> R], x \in D :
           (\A y \in D : m[y] < m[x] => f[y] = g[y]) => G[f][x] = G[g][x]
  BY DEF Recursions
<1>1. base \in S /\ step \in [S \X (1 .. N + 1) -> S] /\ N + 1 \in Nat
  BY <1>0
<1>2. \A f \in S : G[f] \in S
  BY <1>0
<1>3. PICK f : f \in LoopRuns(S, base, N + 1, step)
  <2> HIDE DEF S, base, step
  <2> QED
    BY <1>1, LoopExists
<1>4. /\ f \in [0 .. N + 1 -> S]
      /\ \A i \in 1 .. N + 1 : f[i] = G[f[i - 1]]
  <2>1. f \in [0 .. N + 1 -> S] /\ \A i \in 1 .. N + 1 : f[i] = step[<<f[i - 1], i>>]
    <3> HIDE DEF S, base, step
    <3> QED
      BY <1>3 DEF LoopRuns
  <2>2. ASSUME NEW i \in 1 .. N + 1
        PROVE  step[<<f[i - 1], i>>] = G[f[i - 1]]
    <3>1. f[i - 1] \in S
      <4>1. i - 1 \in 0 .. N + 1
        OBVIOUS
      <4> HIDE DEF S
      <4> QED
        BY <2>1, <4>1
    <3> HIDE DEF S
    <3> QED
      BY <3>1
  <2> HIDE DEF S, step
  <2> QED
    BY <2>1, <2>2
<1> DEFINE T == {i \in 0 .. N + 1 : Settled(f[i], i)}
<1>5. 0 \in T
  <2>1. \A x \in D : ~(m[x] < 0)
    OBVIOUS
  <2>2. Settled(f[0], 0)
    BY <2>1
  <2> HIDE DEF Settled
  <2> QED
    BY <2>2
<1>6. ASSUME NEW i \in 1 .. N + 1, i - 1 \in T
      PROVE  i \in T
  <2>1. Settled(f[i - 1], i - 1)
    BY <1>6
  <2>2. f[i] = G[f[i - 1]] /\ f[i - 1] \in S /\ f[i] \in S
    <3>1. i - 1 \in 0 .. N + 1 /\ i \in 0 .. N + 1
      OBVIOUS
    <3> HIDE DEF S
    <3> QED
      BY <1>4, <3>1
  <2>3. ASSUME NEW x \in D, m[x] < i
        PROVE  G[f[i]][x] = f[i][x]
    <3>1. ASSUME NEW y \in D, m[y] < m[x]
          PROVE  f[i][y] = f[i - 1][y]
      <4>1. m[y] < i - 1
        <5>1. m[x] \in Nat /\ m[y] \in Nat
          OBVIOUS
        <5> QED
          BY <2>3, <3>1, <5>1
      <4>2. G[f[i - 1]][y] = f[i - 1][y]
        BY <2>1, <4>1
      <4> QED
        BY <2>2, <4>2
    <3>2. G[f[i]][x] = G[f[i - 1]][x]
      BY <1>0, <2>2, <3>1
    <3> QED
      BY <2>2, <3>2
  <2> QED
    BY <2>3
<1> HIDE DEF T
<1>7. N + 1 \in T
  BY <1>1, <1>5, <1>6, Induction
<1>8. f[N + 1] \in S /\ Settled(f[N + 1], N + 1)
  <2>1. N + 1 \in 0 .. N + 1
    OBVIOUS
  <2> HIDE DEF S, Settled
  <2> QED
    BY <1>4, <1>7, <2>1 DEF T
<1>9. \A x \in D : m[x] < N + 1
  OBVIOUS
<1>10. G[f[N + 1]] = f[N + 1]
  BY <1>2, <1>8, <1>9
<1> QED
  BY <1>8, <1>10

(***************************************************************************)
(* A function on 1 .. n is a sequence, and a sequence such a function.     *)
(***************************************************************************)
LEMMA IsASequence ==
  ASSUME NEW S, NEW n \in Nat, NEW f \in [1 .. n -> S]
  PROVE  f \in Seq(S) /\ Len(f) = n /\ DOMAIN f = 1 .. n
OBVIOUS

LEMMA SequenceIs ==
  ASSUME NEW S, NEW s \in Seq(S)
  PROVE  /\ Len(s) \in Nat /\ DOMAIN s = 1 .. Len(s)
         /\ s = [i \in 1 .. Len(s) |-> s[i]]
         /\ \A i \in 1 .. Len(s) : s[i] \in S
BY LenProperties

-----------------------------------------------------------------------------
\* The schedule

\* What options_parse guarantees of a tournament.
Valid(c) ==
  /\ c.engines \in Nat /\ c.engines >= 2
  /\ c.rounds \in Nat /\ c.games \in Nat
  /\ c.gauntlet \in BOOLEAN

\* The number of encounters in the loops before a.
Earlier(c, a) == {b \in Encounters(c) : Before(b, a)}

(***************************************************************************)
(* There are finitely many encounters, engine 0 against engine 1 among     *)
(* them: results[] is not empty.                                           *)
(***************************************************************************)
LEMMA EncountersFinite ==
  ASSUME NEW c, Valid(c)
  PROVE  /\ IsFiniteSet(Encounters(c))
         /\ NumPairs(c) \in Nat \ {0}
<1> DEFINE E == 0 .. c.engines - 1
<1>1. IsFiniteSet(E)
  <2>1. 0 \in Int /\ c.engines - 1 \in Int
    BY DEF Valid
  <2> QED
    BY <2>1, FS_Interval
<1>2. IsFiniteSet(E \X E)
  BY <1>1, FS_Product
<1>3. Encounters(c) \in SUBSET (E \X E)
  BY DEF Encounters
<1>4. IsFiniteSet(Encounters(c))
  BY <1>2, <1>3, FS_Subset
<1>5. <<0, 1>> \in Encounters(c)
  BY DEF Encounters, Valid
<1>6. Cardinality(Encounters(c)) \in Nat
  BY <1>4, FS_CardinalityType
<1>7. Cardinality(Encounters(c)) # 0
  BY <1>4, <1>5, FS_EmptySet
<1> QED
  BY <1>4, <1>6, <1>7 DEF NumPairs

(***************************************************************************)
(* The number of earlier encounters is a place in results[].               *)
(***************************************************************************)
LEMMA EarlierType ==
  ASSUME NEW c, Valid(c), NEW a \in Encounters(c)
  PROVE  /\ IsFiniteSet(Earlier(c, a))
         /\ Cardinality(Earlier(c, a)) \in 0 .. NumPairs(c) - 1
<1>1. IsFiniteSet(Encounters(c)) /\ NumPairs(c) \in Nat \ {0}
  BY EncountersFinite
<1>2. a \notin Earlier(c, a)
  BY DEF Earlier, Before, Encounters, Valid
<1>3. Earlier(c, a) \in SUBSET (Encounters(c) \ {a})
  BY <1>2 DEF Earlier
<1>4. /\ IsFiniteSet(Encounters(c) \ {a})
      /\ Cardinality(Encounters(c) \ {a}) = NumPairs(c) - 1
  BY <1>1, FS_RemoveElement DEF NumPairs
<1>5. /\ IsFiniteSet(Earlier(c, a))
      /\ Cardinality(Earlier(c, a)) <= NumPairs(c) - 1
  BY <1>3, <1>4, FS_Subset
<1>6. Cardinality(Earlier(c, a)) \in Nat
  BY <1>5, FS_CardinalityType
<1> QED
  BY <1>1, <1>5, <1>6

(***************************************************************************)
(* A later encounter has more encounters before it.                        *)
(***************************************************************************)
LEMMA EarlierGrows ==
  ASSUME NEW c, Valid(c), NEW a \in Encounters(c), NEW b \in Encounters(c),
         Before(a, b)
  PROVE  Cardinality(Earlier(c, a)) < Cardinality(Earlier(c, b))
<1>1. a \notin Earlier(c, a)
  BY DEF Earlier, Before, Encounters, Valid
<1>2. Earlier(c, a) \cup {a} \in SUBSET Earlier(c, b)
  <2>1. ASSUME NEW x \in Encounters(c), Before(x, a)
        PROVE  Before(x, b)
    BY <2>1 DEF Before, Encounters, Valid
  <2> QED
    BY <2>1 DEF Earlier
<1>3. /\ IsFiniteSet(Earlier(c, a)) /\ IsFiniteSet(Earlier(c, b))
      /\ Cardinality(Earlier(c, a)) \in Nat
      /\ Cardinality(Earlier(c, b)) \in Nat
  BY EarlierType, FS_CardinalityType
<1>4. Cardinality(Earlier(c, a) \cup {a}) = Cardinality(Earlier(c, a)) + 1
  BY <1>1, <1>3, FS_AddElement
<1>5. Cardinality(Earlier(c, a) \cup {a}) <= Cardinality(Earlier(c, b))
  BY <1>2, <1>3, FS_Subset
<1> QED
  BY <1>3, <1>4, <1>5

(***************************************************************************)
(* Every place in results[] is the number of encounters before one.        *)
(***************************************************************************)
LEMMA EncounterOfPlace ==
  ASSUME NEW c, Valid(c), NEW p \in 0 .. NumPairs(c) - 1
  PROVE  \E a \in Encounters(c) : Cardinality(Earlier(c, a)) = p
<1> DEFINE S == Encounters(c)
           T == 0 .. NumPairs(c) - 1
           rank == [a \in S |-> Cardinality(Earlier(c, a))]
<1>1. IsFiniteSet(S) /\ NumPairs(c) \in Nat \ {0}
  BY EncountersFinite
<1>2. rank \in [S -> T]
  BY EarlierType
<1>3. ASSUME NEW a \in S, NEW b \in S, rank[a] = rank[b]
      PROVE  a = b
  <2>1. CASE Before(a, b)
    BY <1>2, <1>3, <2>1, EarlierGrows
  <2>2. CASE Before(b, a)
    BY <1>2, <1>3, <2>2, EarlierGrows
  <2>3. CASE ~Before(a, b) /\ ~Before(b, a)
    BY <2>3 DEF Before, Encounters, Valid
  <2> QED
    BY <2>1, <2>2, <2>3
<1>4. rank \in Injection(S, T)
  BY <1>2, <1>3 DEF Injection, IsInjective
<1>5. IsFiniteSet(T) /\ Cardinality(T) = NumPairs(c)
  BY <1>1, FS_Interval
<1>6. rank \in Surjection(S, T)
  BY <1>4, <1>5, FS_Injection DEF NumPairs
<1>7. PICK a \in S : rank[a] = p
  BY <1>6 DEF Surjection
<1> QED
  BY <1>7

(***************************************************************************)
(* Every place in results[] is that of one encounter.                      *)
(***************************************************************************)
THEOREM EncounterType ==
  ASSUME NEW c, Valid(c), NEW p \in 0 .. NumPairs(c) - 1
  PROVE  Encounter(c, p) \in Encounters(c)
<1>1. \E a \in Encounters(c) :
        Cardinality({b \in Encounters(c) : Before(b, a)}) = p
  BY EncounterOfPlace DEF Earlier
<1> QED
  BY <1>1 DEF Encounter

(***************************************************************************)
(* The job at a place of jobs[] plays two different engines of the         *)
(* tournament and its pair is a place in results[]: nothing that a worker  *)
(* does with a job indexes outside of a table.                             *)
(***************************************************************************)
THEOREM JobType ==
  ASSUME NEW c, Valid(c), NEW k \in 0 .. NumJobs(c) - 1
  PROVE  /\ NumJobs(c) \in Nat
         /\ Job(c, k).pair \in 0 .. NumPairs(c) - 1
         /\ Job(c, k).ei \in (0 .. c.engines - 1) \X (0 .. c.engines - 1)
         /\ Job(c, k).ei[1] # Job(c, k).ei[2]
         /\ Job(c, k).ei = Encounter(c, Job(c, k).pair)
<1>1. NumPairs(c) \in Nat \ {0}
  BY EncountersFinite
<1>2. NumJobs(c) \in Nat
  BY <1>1 DEF NumJobs, Valid
<1>3. c.games \in Nat \ {0}
  BY <1>1, <1>2 DEF NumJobs, Valid
<1>4. k \in Nat
  BY <1>2
<1>5. k \div c.games \in Nat
  BY <1>3, <1>4
<1>6. PairOf(c, k) \in 0 .. NumPairs(c) - 1
  BY <1>1, <1>5 DEF PairOf
<1>7. Encounter(c, PairOf(c, k)) \in Encounters(c)
  BY <1>6, EncounterType
<1>8. /\ Job(c, k).pair = PairOf(c, k)
      /\ Job(c, k).ei = Encounter(c, PairOf(c, k))
  BY DEF Job
<1> QED
  BY <1>2, <1>6, <1>7, <1>8 DEF Encounters, Valid

(***************************************************************************)
(* The number of jobs is a natural number.                                 *)
(***************************************************************************)
LEMMA NumJobsType ==
  ASSUME NEW c, Valid(c)
  PROVE  NumJobs(c) \in Nat
<1>1. NumPairs(c) \in Nat
  BY EncountersFinite
<1> QED
  BY <1>1 DEF NumJobs, Valid

(***************************************************************************)
(* Quotient and remainder: how they are written, and that they are unique. *)
(***************************************************************************)
LEMMA DivParts ==
  ASSUME NEW x \in Nat, NEW n \in Nat \ {0}
  PROVE  /\ x \div n \in Nat
         /\ x % n \in 0 .. n - 1
         /\ x = (x \div n) * n + (x % n)
  OBVIOUS

LEMMA DivMod ==
  ASSUME NEW a \in Nat, NEW n \in Nat \ {0}, NEW b \in 0 .. n - 1
  PROVE  /\ (a * n + b) \div n = a
         /\ (a * n + b) % n = b
  OBVIOUS

(***************************************************************************)
(* An encounter is found again at its place in results[] ...               *)
(***************************************************************************)
LEMMA EncounterAt ==
  ASSUME NEW c, Valid(c), NEW a \in Encounters(c)
  PROVE  Encounter(c, Cardinality(Earlier(c, a))) = a
<1> DEFINE p == Cardinality(Earlier(c, a))
<1>1. ASSUME NEW x \in Encounters(c), Cardinality(Earlier(c, x)) = p
      PROVE  x = a
  <2>1. /\ Cardinality(Earlier(c, a)) \in Nat
        /\ Cardinality(Earlier(c, x)) \in Nat
    BY EarlierType, FS_CardinalityType
  <2>2. CASE Before(a, x)
    BY <1>1, <2>1, <2>2, EarlierGrows
  <2>3. CASE Before(x, a)
    BY <1>1, <2>1, <2>3, EarlierGrows
  <2>4. CASE ~Before(a, x) /\ ~Before(x, a)
    BY <2>4 DEF Before, Encounters, Valid
  <2> QED
    BY <2>2, <2>3, <2>4
<1>2. Encounter(c, p) = CHOOSE x \in Encounters(c) : Cardinality(Earlier(c, x)) = p
  BY DEF Encounter, Earlier
<1> QED
  BY <1>1, <1>2

(***************************************************************************)
(* ... and every place is that of the encounter found there.               *)
(***************************************************************************)
LEMMA PlaceOf ==
  ASSUME NEW c, Valid(c), NEW p \in 0 .. NumPairs(c) - 1
  PROVE  Cardinality(Earlier(c, Encounter(c, p))) = p
<1>1. \E a \in Encounters(c) : Cardinality(Earlier(c, a)) = p
  BY EncounterOfPlace
<1>2. Encounter(c, p) = CHOOSE x \in Encounters(c) : Cardinality(Earlier(c, x)) = p
  BY DEF Encounter, Earlier
<1> QED
  BY <1>1, <1>2

(***************************************************************************)
(* The job at a place of jobs[], from the numbers of its round, of its     *)
(* pair and of its game among those of the pair.                           *)
(***************************************************************************)
LEMMA JobAt ==
  ASSUME NEW c, Valid(c), c.games # 0,
         NEW round \in Nat, NEW p \in 0 .. NumPairs(c) - 1, NEW g \in 0 .. c.games - 1
  PROVE  Job(c, (round * NumPairs(c) + p) * c.games + g) =
           [ei |-> Encounter(c, p), pair |-> p, round |-> round,
            game |-> p * c.games + g, reverse |-> g % 2 = 1]
<1> DEFINE N == NumPairs(c)
           G == c.games
           k == (round * N + p) * G + g
<1>1. N \in Nat \ {0} /\ G \in Nat \ {0}
  BY EncountersFinite DEF Valid
<1>2. round * N + p \in Nat
  BY <1>1
<1>3. k \div G = round * N + p /\ k % G = g
  BY <1>1, <1>2, DivMod
<1>4. PairOf(c, k) = p
  BY <1>1, <1>3, DivMod DEF PairOf
<1>5. ReverseOf(c, k) = (g % 2 = 1)
  BY <1>3 DEF ReverseOf
<1>6. N * G \in Nat \ {0} /\ p * G + g \in 0 .. N * G - 1
  <2>1. N * G \in Nat \ {0}
    BY <1>1
  <2>2. p * G + g \in Nat /\ p * G + g < p * G + G
    BY <1>1
  <2>3. p * G + G = (p + 1) * G
    BY <1>1
  <2>4. PICK d \in Nat : N = p + 1 + d
    <3>1. N - p - 1 \in Nat /\ N = p + 1 + (N - p - 1)
      BY <1>1
    <3> QED
      BY <3>1
  <2>5. N * G = (p + 1) * G + d * G /\ d * G \in Nat /\ (p + 1) * G \in Nat
    BY <1>1, <2>4
  <2> QED
    BY <2>1, <2>2, <2>3, <2>5
<1>7. k = round * (N * G) + (p * G + g)
  BY <1>1
<1>8. k \div (N * G) = round /\ k % (N * G) = p * G + g
  <2>1. ASSUME NEW M \in Nat \ {0}, NEW b \in 0 .. M - 1
        PROVE  (round * M + b) \div M = round /\ (round * M + b) % M = b
    BY DivMod
  <2>2. /\ (round * (N * G) + (p * G + g)) \div (N * G) = round
        /\ (round * (N * G) + (p * G + g)) % (N * G) = p * G + g
    BY ONLY <1>6, <2>1
  <2> QED
    BY ONLY <1>7, <2>2
<1> QED
  BY <1>4, <1>5, <1>8 DEF Job

-----------------------------------------------------------------------------
\* The buffer and the file of SeqWriter

\* A writer of records in S.
Writers(S) == [buf : Seq(S), idxNext : Nat, out : Seq(S)]

(***************************************************************************)
(* A set of places of a buffer has at most as many elements as the buffer. *)
(***************************************************************************)
LEMMA PlacesCount ==
  ASSUME NEW S, NEW buf \in Seq(S), NEW P \in SUBSET (DOMAIN buf)
  PROVE  Cardinality(P) \in 0 .. Len(buf)
<1>1. Len(buf) \in Nat /\ DOMAIN buf = 1 .. Len(buf)
  BY LenProperties
<1>2. IsFiniteSet(1 .. Len(buf)) /\ Cardinality(1 .. Len(buf)) = Len(buf)
  <2>1. 1 \in Int /\ Len(buf) \in Int
    BY <1>1
  <2>2. /\ IsFiniteSet(1 .. Len(buf))
        /\ Cardinality(1 .. Len(buf))
             = IF 1 > Len(buf) THEN 0 ELSE Len(buf) - 1 + 1
    BY ONLY <2>1, FS_Interval, Zenon
  <2> QED
    BY <1>1, <2>2
<1>3. P \in SUBSET (1 .. Len(buf))
  BY <1>1
<1>4. IsFiniteSet(P) /\ Cardinality(P) <= Len(buf)
  BY <1>2, <1>3, FS_Subset
<1>5. Cardinality(P) \in Nat
  BY <1>4, FS_CardinalityType
<1> QED
  BY <1>1, <1>4, <1>5

(***************************************************************************)
(* A part of a buffer has the records of the buffer.                       *)
(***************************************************************************)
LEMMA PartType ==
  ASSUME NEW S, NEW s \in Seq(S), NEW m \in Nat \ {0}, NEW n \in Nat, n <= Len(s)
  PROVE  SubSeq(s, m, n) \in Seq(S)
<1>1. Len(s) \in Nat /\ s \in [1 .. Len(s) -> S]
  BY LenProperties
<1>2. \A i \in m .. n : s[i] \in S
  BY <1>1
<1> QED
  BY <1>2, SubSeqProperties

(***************************************************************************)
(* insert_sorted puts one more record into the buffer.                     *)
(***************************************************************************)
LEMMA InsertSortedType ==
  ASSUME NEW S, NEW buf \in Seq(S), NEW idx \in S
  PROVE  /\ InsertSorted(buf, idx) \in Seq(S)
         /\ Len(InsertSorted(buf, idx)) = Len(buf) + 1
<1> DEFINE n == Cardinality({j \in DOMAIN buf : buf[j] <= idx})
<1>1. n \in 0 .. Len(buf) /\ Len(buf) \in Nat
  BY PlacesCount, LenProperties
<1> HIDE DEF n
<1>2. SubSeq(buf, 1, n) \in Seq(S) /\ SubSeq(buf, n + 1, Len(buf)) \in Seq(S)
  BY <1>1, PartType
<1>3. \A i \in 1 .. Len(buf) : buf[i] \in S
  BY LenProperties
<1>4. /\ Len(SubSeq(buf, 1, n)) = n
      /\ Len(SubSeq(buf, n + 1, Len(buf))) = Len(buf) - n
  <2>1. \A i \in 1 .. n : buf[i] \in S
    BY <1>1, <1>3
  <2>2. \A i \in n + 1 .. Len(buf) : buf[i] \in S
    BY <1>1, <1>3
  <2> QED
    BY <1>1, <2>1, <2>2, SubSeqProperties
<1>5. <<idx>> \in Seq(S) /\ Len(<<idx>>) = 1
  OBVIOUS
<1>6. /\ SubSeq(buf, 1, n) \o <<idx>> \in Seq(S)
      /\ Len(SubSeq(buf, 1, n) \o <<idx>>) = n + 1
  BY <1>1, <1>2, <1>4, <1>5, ConcatProperties
<1>7. InsertSorted(buf, idx)
        = (SubSeq(buf, 1, n) \o <<idx>>) \o SubSeq(buf, n + 1, Len(buf))
  <2>1. (1 + n) - 1 = n /\ 1 + n = n + 1
    BY <1>1
  <2>2. InsertSorted(buf, idx)
          = (SubSeq(buf, 1, (1 + n) - 1) \o <<idx>>) \o SubSeq(buf, 1 + n, Len(buf))
    BY Zenon DEF InsertSorted, InsertAt, n
  <2> QED
    BY <2>1, <2>2, Zenon
<1> DEFINE front == SubSeq(buf, 1, n) \o <<idx>>
           back == SubSeq(buf, n + 1, Len(buf))
<1>8. /\ front \in Seq(S) /\ Len(front) = n + 1
      /\ back \in Seq(S) /\ Len(back) = Len(buf) - n
      /\ InsertSorted(buf, idx) = front \o back
  BY <1>2, <1>4, <1>6, <1>7, Zenon
<1> HIDE DEF front, back
<1>9. /\ front \o back \in Seq(S)
      /\ Len(front \o back) = Len(front) + Len(back)
  BY <1>8, ConcatProperties
<1> QED
  BY <1>1, <1>8, <1>9

(***************************************************************************)
(* write_to_i leaves a writer when i is at most the length of the buffer.  *)
(***************************************************************************)
LEMMA WriteToType ==
  ASSUME NEW S, NEW wr \in Writers(S), NEW i \in 0 .. Len(wr.buf)
  PROVE  WriteTo(wr, i) \in Writers(S)
<1>1. /\ wr.buf \in Seq(S) /\ wr.idxNext \in Nat /\ wr.out \in Seq(S)
      /\ Len(wr.buf) \in Nat
  BY LenProperties DEF Writers
<1>2. SubSeq(wr.buf, i + 1, Len(wr.buf)) \in Seq(S)
  BY <1>1, PartType
<1>3. SubSeq(wr.buf, 1, i) \in Seq(S)
  BY <1>1, PartType
<1>4. wr.out \o SubSeq(wr.buf, 1, i) \in Seq(S)
  BY <1>1, <1>3, ConcatProperties
<1> QED
  BY <1>1, <1>2, <1>4 DEF WriteTo, Writers

(***************************************************************************)
(* push and the destructor leave a writer of records in S.                 *)
(***************************************************************************)
LEMMA WriterOperationsType ==
  ASSUME NEW S, NEW wr \in Writers(S)
  PROVE  /\ NewWriter \in Writers(S)
         /\ \A idx \in S : Push(wr, idx) \in Writers(S)
         /\ CloseWriter(wr) \in Writers(S)
<1>1. wr.buf \in Seq(S) /\ wr.idxNext \in Nat /\ wr.out \in Seq(S)
  BY DEF Writers
<1>2. NewWriter \in Writers(S)
  <2>1. <<>> \in Seq(S)
    OBVIOUS
  <2> QED
    BY <2>1 DEF NewWriter, Writers
<1>3. ASSUME NEW idx \in S
      PROVE  Push(wr, idx) \in Writers(S)
  <2> DEFINE buf == InsertSorted(wr.buf, idx)
             w2 == [wr EXCEPT !.buf = buf]
  <2>1. buf \in Seq(S)
    BY <1>1, InsertSortedType
  <2>2. Chunk(buf, wr.idxNext) \in 0 .. Len(buf)
    BY <2>1, PlacesCount DEF Chunk
  <2>3. w2 \in Writers(S) /\ w2.buf = buf
    BY <2>1 DEF Writers
  <2> QED
    BY <2>2, <2>3, WriteToType DEF Push
<1>4. CloseWriter(wr) \in Writers(S)
  BY <1>1, WriteToType, LenProperties DEF CloseWriter
<1> QED
  BY <1>2, <1>3, <1>4

(***************************************************************************)
(* The places 1 .. k of a set that has with a place all smaller ones: its  *)
(* cardinality is k.                                                       *)
(***************************************************************************)
LEMMA FirstPlaces ==
  ASSUME NEW n \in Nat, NEW D \in SUBSET (1 .. n),
         \A i \in D, j \in 1 .. n : j < i => j \in D
  PROVE  /\ Cardinality(D) \in 0 .. n
         /\ D = 1 .. Cardinality(D)
<1>1. ASSUME NEW k \in 0 .. n, D = 1 .. k
      PROVE  Cardinality(D) = k
  <2>1. 1 \in Int /\ k \in Int
    OBVIOUS
  <2>2. Cardinality(1 .. k) = IF 1 > k THEN 0 ELSE k - 1 + 1
    BY ONLY <2>1, FS_Interval, Zenon
  <2> QED
    BY <1>1, <2>2
<1>2. \E k \in 0 .. n : D = 1 .. k
  <2>1. CASE D = 1 .. n
    BY <2>1
  <2>2. CASE D # 1 .. n
    <3> DEFINE T == (1 .. n) \ D
    <3>1. T \subseteq Nat
      OBVIOUS
    <3>2. T # {}
      BY <2>2
    <3>3. PICK x \in T : \A y \in T : x <= y
      <4> HIDE DEF T
      <4> QED
        BY <3>1, <3>2, SmallestElement, Zenon
    <3>4. \A i \in 1 .. n : i < x => i \in D
      BY <3>3
    <3>5. \A i \in D : i < x
      BY <3>3
    <3>6. x \in 1 .. n
      OBVIOUS
    <3> HIDE DEF T
    <3>7. x - 1 \in 0 .. n
      BY <3>6
    <3>8. \A i \in 1 .. n : i \in D <=> i \in 1 .. (x - 1)
      BY <3>4, <3>5, <3>6
    <3>9. D = 1 .. (x - 1)
      <4>1. 1 .. (x - 1) \subseteq 1 .. n
        BY <3>6
      <4> QED
        BY <3>8, <4>1
    <3> QED
      BY <3>7, <3>9
  <2> QED
    BY <2>1, <2>2
<1>3. PICK k \in 0 .. n : D = 1 .. k
  BY <1>2
<1>4. Cardinality(D) = k
  BY <1>1, <1>3
<1> QED
  BY <1>3, <1>4

\* Every record of s is smaller than those behind it.
Increasing(s) == \A i, j \in 1 .. Len(s) : i < j => s[i] < s[j]

(***************************************************************************)
(* What is left of a buffer without its first n records.                   *)
(***************************************************************************)
LEMMA RestPlaces ==
  ASSUME NEW S, NEW s \in Seq(S), NEW n \in 0 .. Len(s)
  PROVE  /\ SubSeq(s, n + 1, Len(s)) \in Seq(S)
         /\ Len(SubSeq(s, n + 1, Len(s))) = Len(s) - n
         /\ \A i \in 1 .. Len(s) - n : SubSeq(s, n + 1, Len(s))[i] = s[n + i]
<1> DEFINE b == SubSeq(s, n + 1, Len(s))
<1>1. Len(s) \in Nat /\ \A i \in 1 .. Len(s) : s[i] \in S
  BY LenProperties
<1>2. \A i \in n + 1 .. Len(s) : s[i] \in S
  BY <1>1
<1>3. n + 1 \in Int /\ Len(s) \in Int /\ Len(s) - (n + 1) + 1 = Len(s) - n
  BY <1>1
<1>4. /\ b \in Seq(S)
      /\ Len(b) = IF n + 1 <= Len(s) THEN Len(s) - (n + 1) + 1 ELSE 0
      /\ \A i \in 1 .. Len(s) - (n + 1) + 1 : b[i] = s[(n + 1) + i - 1]
  <2>1. /\ b \in Seq(S)
        /\ Len(b) = IF n + 1 <= Len(s) THEN Len(s) - (n + 1) + 1 ELSE 0
    BY <1>2, <1>3, SubSeqProperties
  <2>2. \A i \in 1 .. Len(s) - (n + 1) + 1 : b[i] = s[(n + 1) + i - 1]
    BY <1>2, <1>3, SubSeqProperties
  <2> QED
    BY <2>1, <2>2
<1> HIDE DEF b
<1>5. Len(b) = Len(s) - n
  <2>1. CASE n + 1 <= Len(s)
    BY <1>3, <1>4, <2>1, Zenon
  <2>2. CASE ~(n + 1 <= Len(s))
    <3>1. Len(b) = 0
      BY <1>4, <2>2, Zenon
    <3>2. Len(s) \in Nat /\ n \in 0 .. Len(s)
      BY <1>1
    <3>3. Len(s) - n = 0
      BY ONLY <2>2, <3>2
    <3> QED
      BY <3>1, <3>3
  <2> QED
    BY <2>1, <2>2, Zenon
<1>6. ASSUME NEW i \in 1 .. Len(s) - n
      PROVE  b[i] = s[n + i]
  <2>1. i \in 1 .. Len(s) - (n + 1) + 1 /\ (n + 1) + i - 1 = n + i
    BY <1>3
  <2> QED
    BY <1>4, <2>1
<1> QED
  BY <1>4, <1>5, <1>6 DEF b

(***************************************************************************)
(* insert_sorted, place by place: the records before idx stay where they   *)
(* are, those behind it move by one.                                       *)
(***************************************************************************)
LEMMA InsertSortedPlaces ==
  ASSUME NEW buf \in Seq(Nat), Increasing(buf), NEW idx \in Nat
  PROVE  \E c \in 0 .. Len(buf) :
           /\ \A i \in 1 .. Len(buf) : buf[i] <= idx <=> i <= c
           /\ InsertSorted(buf, idx) \in Seq(Nat)
           /\ Len(InsertSorted(buf, idx)) = Len(buf) + 1
           /\ \A i \in 1 .. c : InsertSorted(buf, idx)[i] = buf[i]
           /\ InsertSorted(buf, idx)[c + 1] = idx
           /\ \A i \in c + 2 .. Len(buf) + 1 :
                InsertSorted(buf, idx)[i] = buf[i - 1]
<1> DEFINE D == {j \in DOMAIN buf : buf[j] <= idx}
           c == Cardinality(D)
<1>1. Len(buf) \in Nat /\ DOMAIN buf = 1 .. Len(buf)
      /\ \A i \in 1 .. Len(buf) : buf[i] \in Nat
  BY LenProperties
<1>2. \A i \in D, j \in 1 .. Len(buf) : j < i => j \in D
  BY <1>1 DEF Increasing
<1>3. c \in 0 .. Len(buf) /\ D = 1 .. c
  <2>1. D \in SUBSET (1 .. Len(buf))
    BY <1>1
  <2> HIDE DEF D
  <2> QED
    BY <1>1, <1>2, <2>1, FirstPlaces, Zenon
<1>4. \A i \in 1 .. Len(buf) : buf[i] <= idx <=> i <= c
  <2>1. \A i \in 1 .. Len(buf) : buf[i] <= idx <=> i \in D
    BY <1>1
  <2> HIDE DEF D, c
  <2> QED
    BY <1>3, <2>1
<1>5. InsertSorted(buf, idx)
        = SubSeq(buf, 1, (1 + c) - 1) \o <<idx>> \o SubSeq(buf, 1 + c, Len(buf))
  BY Zenon DEF InsertSorted, InsertAt
<1> HIDE DEF D, c
<1> DEFINE a == SubSeq(buf, 1, c)
           b == SubSeq(buf, c + 1, Len(buf))
<1>6. InsertSorted(buf, idx) = (a \o <<idx>>) \o b
  <2>1. (1 + c) - 1 = c /\ 1 + c = c + 1
    BY <1>3
  <2> QED
    BY <1>5, <2>1, Zenon
<1>7. a \in Seq(Nat) /\ Len(a) = c /\ \A i \in 1 .. c : a[i] = buf[i]
  <2>1. \A i \in 1 .. c : buf[i] \in Nat
    BY <1>1, <1>3
  <2> QED
    BY <1>3, <2>1, SubSeqProperties
<1>8. /\ b \in Seq(Nat) /\ Len(b) = Len(buf) - c
      /\ \A i \in 1 .. Len(buf) - c : b[i] = buf[c + i]
  BY <1>3, RestPlaces
<1> HIDE DEF a, b
<1>9. /\ a \o <<idx>> \in Seq(Nat) /\ Len(a \o <<idx>>) = c + 1
      /\ \A i \in 1 .. c : (a \o <<idx>>)[i] = buf[i]
      /\ (a \o <<idx>>)[c + 1] = idx
  <2>1. <<idx>> \in Seq(Nat) /\ Len(<<idx>>) = 1 /\ <<idx>>[1] = idx
    OBVIOUS
  <2> QED
    BY <1>3, <1>7, <2>1, ConcatProperties
<1> DEFINE h == a \o <<idx>>
<1>10. /\ h \in Seq(Nat) /\ Len(h) = c + 1
       /\ \A i \in 1 .. c : h[i] = buf[i]
       /\ h[c + 1] = idx
       /\ InsertSorted(buf, idx) = h \o b
  BY <1>6, <1>9
<1> HIDE DEF h
<1>11. /\ h \o b \in Seq(Nat) /\ Len(h \o b) = Len(buf) + 1
       /\ \A i \in 1 .. c + 1 : (h \o b)[i] = h[i]
       /\ \A i \in c + 2 .. Len(buf) + 1 : (h \o b)[i] = buf[i - 1]
  <2>1. /\ h \o b \in Seq(Nat) /\ Len(h \o b) = Len(h) + Len(b)
        /\ \A i \in 1 .. Len(h) + Len(b) :
             (h \o b)[i] = IF i <= Len(h) THEN h[i] ELSE b[i - Len(h)]
    BY <1>8, <1>10, ConcatProperties
  <2>2. Len(h \o b) = Len(buf) + 1
    BY <1>1, <1>3, <1>8, <1>10, <2>1
  <2>3. \A i \in 1 .. c + 1 : (h \o b)[i] = h[i]
    BY <1>1, <1>3, <1>8, <1>10, <2>1
  <2>4. ASSUME NEW i \in c + 2 .. Len(buf) + 1
        PROVE  (h \o b)[i] = buf[i - 1]
    <3>1. (h \o b)[i] = b[i - (c + 1)]
      <4>1. i \in 1 .. Len(h) + Len(b) /\ ~(i <= Len(h))
        BY <1>1, <1>3, <1>8, <1>10
      <4> QED
        BY <1>10, <2>1, <4>1, Zenon
    <3>2. i - (c + 1) \in 1 .. Len(buf) - c /\ c + (i - (c + 1)) = i - 1
      BY <1>1, <1>3
    <3> QED
      BY <1>8, <3>1, <3>2
  <2> QED
    BY <2>1, <2>2, <2>3, <2>4
<1>12. /\ \A i \in 1 .. c : (h \o b)[i] = buf[i]
       /\ (h \o b)[c + 1] = idx
  BY <1>3, <1>10, <1>11
<1> QED
  BY <1>3, <1>4, <1>10, <1>11, <1>12, Zenon

(***************************************************************************)
(* insert_sorted keeps the buffer in the order of the games, and adds one  *)
(* record to it.                                                           *)
(***************************************************************************)
LEMMA InsertSortedOrder ==
  ASSUME NEW buf \in Seq(Nat), Increasing(buf), NEW idx \in Nat,
         idx \notin ToSet(buf)
  PROVE  /\ InsertSorted(buf, idx) \in Seq(Nat)
         /\ Len(InsertSorted(buf, idx)) = Len(buf) + 1
         /\ Increasing(InsertSorted(buf, idx))
         /\ ToSet(InsertSorted(buf, idx)) = ToSet(buf) \cup {idx}
<1> DEFINE b == InsertSorted(buf, idx)
<1>1. PICK c \in 0 .. Len(buf) :
        /\ \A i \in 1 .. Len(buf) : buf[i] <= idx <=> i <= c
        /\ b \in Seq(Nat)
        /\ Len(b) = Len(buf) + 1
        /\ \A i \in 1 .. c : b[i] = buf[i]
        /\ b[c + 1] = idx
        /\ \A i \in c + 2 .. Len(buf) + 1 : b[i] = buf[i - 1]
  BY InsertSortedPlaces
<1> HIDE DEF b
<1>2. /\ Len(buf) \in Nat /\ DOMAIN buf = 1 .. Len(buf)
      /\ DOMAIN b = 1 .. Len(buf) + 1
      /\ \A i \in 1 .. Len(buf) : buf[i] \in Nat
  BY <1>1, LenProperties
<1>3. \A i \in 1 .. Len(buf) : buf[i] # idx
  BY <1>2 DEF ToSet
<1>4. Increasing(b)
  <2> SUFFICES ASSUME NEW i \in 1 .. Len(buf) + 1, NEW j \in 1 .. Len(buf) + 1,
                      i < j
               PROVE  b[i] < b[j]
    BY <1>1 DEF Increasing
  <2>1. CASE j <= c
    BY <1>1, <1>2, <2>1 DEF Increasing
  <2>2. CASE j = c + 1
    BY <1>1, <1>2, <1>3, <2>2
  <2>3. CASE j > c + 1
    <3>1. b[j] = buf[j - 1] /\ j - 1 \in 1 .. Len(buf) /\ idx < buf[j - 1]
      <4>1. j \in c + 2 .. Len(buf) + 1 /\ j - 1 \in 1 .. Len(buf) /\ ~(j - 1 <= c)
        BY <1>1, <1>2, <2>3
      <4>2. b[j] = buf[j - 1] /\ ~(buf[j - 1] <= idx)
        BY <1>1, <4>1
      <4> QED
        BY <1>2, <4>1, <4>2
    <3>2. CASE i <= c
      BY <1>1, <1>2, <2>3, <3>1, <3>2 DEF Increasing
    <3>3. CASE i = c + 1
      BY <1>1, <3>1, <3>3
    <3>4. CASE i > c + 1
      <4>1. /\ i \in c + 2 .. Len(buf) + 1 /\ i - 1 \in 1 .. Len(buf)
            /\ i - 1 < j - 1
        BY <1>1, <1>2, <3>4
      <4>2. b[i] = buf[i - 1]
        BY <1>1, <4>1
      <4> QED
        BY <3>1, <4>1, <4>2 DEF Increasing
    <3> QED
      BY <1>1, <3>2, <3>3, <3>4
  <2> QED
    BY <1>1, <2>1, <2>2, <2>3
<1>5. ToSet(b) = ToSet(buf) \cup {idx}
  <2>1. ASSUME NEW i \in 1 .. Len(buf) + 1
        PROVE  b[i] = idx \/ \E j \in 1 .. Len(buf) : b[i] = buf[j]
    <3>1. i \in 1 .. c \/ i = c + 1 \/ i \in c + 2 .. Len(buf) + 1
      BY <1>1, <1>2
    <3>2. CASE i \in 1 .. c
      BY <1>1, <1>2, <3>2
    <3>3. CASE i = c + 1
      BY <1>1, <3>3
    <3>4. CASE i \in c + 2 .. Len(buf) + 1
      <4>1. b[i] = buf[i - 1] /\ i - 1 \in 1 .. Len(buf)
        BY <1>1, <1>2, <3>4
      <4> QED
        BY <4>1
    <3> QED
      BY <3>1, <3>2, <3>3, <3>4
  <2>2. ASSUME NEW j \in 1 .. Len(buf)
        PROVE  \E i \in 1 .. Len(buf) + 1 : b[i] = buf[j]
    <3>1. CASE j <= c
      BY <1>1, <1>2, <3>1
    <3>2. CASE j > c
      <4>1. j + 1 \in c + 2 .. Len(buf) + 1 /\ (j + 1) - 1 = j
        BY <1>1, <1>2, <3>2
      <4>2. j + 1 \in 1 .. Len(buf) + 1 /\ b[j + 1] = buf[j]
        <5>1. j + 1 \in 1 .. Len(buf) + 1
          BY <1>2
        <5>2. b[j + 1] = buf[(j + 1) - 1]
          BY <1>1, <4>1, Zenon
        <5> QED
          BY <4>1, <5>1, <5>2
      <4> QED
        BY <4>2
    <3> QED
      BY <1>1, <1>2, <3>1, <3>2
  <2>3. \E i \in 1 .. Len(buf) + 1 : b[i] = idx
    <3>1. c + 1 \in 1 .. Len(buf) + 1
      BY <1>1, <1>2
    <3> QED
      BY <1>1, <3>1
  <2>4. /\ ToSet(b) = {b[i] : i \in 1 .. Len(buf) + 1}
        /\ ToSet(buf) = {buf[i] : i \in 1 .. Len(buf)}
    BY <1>2 DEF ToSet
  <2> QED
    BY <2>1, <2>2, <2>3, <2>4
<1> QED
  BY <1>1, <1>4, <1>5 DEF b

(***************************************************************************)
(* The chunk that write_to_i gets continues the file with records that     *)
(* follow each other, and what stays in the buffer comes after it.         *)
(***************************************************************************)
LEMMA ChunkContinues ==
  ASSUME NEW buf \in Seq(Nat), Increasing(buf), NEW idxNext \in Nat,
         \A i \in 1 .. Len(buf) : buf[i] >= idxNext
  PROVE  /\ Chunk(buf, idxNext) \in 0 .. Len(buf)
         /\ \A i \in 1 .. Chunk(buf, idxNext) : buf[i] = idxNext + i - 1
         /\ \A i \in Chunk(buf, idxNext) + 1 .. Len(buf) :
              buf[i] > idxNext + Chunk(buf, idxNext)
<1> DEFINE D == {i \in DOMAIN buf : \A j \in 1 .. i : buf[j] = idxNext + j - 1}
           c == Cardinality(D)
<1>1. Len(buf) \in Nat /\ DOMAIN buf = 1 .. Len(buf)
      /\ \A i \in 1 .. Len(buf) : buf[i] \in Nat
  BY LenProperties
<1>2. \A i \in D, j \in 1 .. Len(buf) : j < i => j \in D
  BY <1>1
<1>3. c \in 0 .. Len(buf) /\ D = 1 .. c
  <2>1. D \in SUBSET (1 .. Len(buf))
    BY <1>1
  <2> HIDE DEF D
  <2> QED
    BY <1>1, <1>2, <2>1, FirstPlaces, Zenon
<1>4. \A i \in D : buf[i] = idxNext + i - 1
  BY <1>1
<1>5. \A i \in 1 .. Len(buf) :
        (\A j \in 1 .. i : buf[j] = idxNext + j - 1) => i \in D
  BY <1>1
<1>6. Chunk(buf, idxNext) = c
  BY DEF Chunk
<1> HIDE DEF D, c
<1>7. \A i \in 1 .. c : buf[i] = idxNext + i - 1
  BY <1>3, <1>4
<1>8. ASSUME c + 1 <= Len(buf)
      PROVE  buf[c + 1] > idxNext + c
  <2>1. buf[c + 1] # idxNext + c
    <3>1. SUFFICES ASSUME buf[c + 1] = idxNext + c
                   PROVE  FALSE
      OBVIOUS
    <3>2. \A j \in 1 .. c + 1 : buf[j] = idxNext + j - 1
      BY <1>3, <1>7, <3>1
    <3>3. c + 1 \in D
      BY <1>1, <1>3, <1>5, <1>8, <3>2
    <3> QED
      BY <1>3, <3>3
  <2>2. buf[c + 1] >= idxNext + c
    <3>1. CASE c = 0
      BY <1>1, <1>8, <3>1
    <3>2. CASE c > 0
      <4>1. buf[c] = idxNext + c - 1 /\ buf[c] < buf[c + 1]
        BY <1>1, <1>3, <1>7, <1>8, <3>2 DEF Increasing
      <4> QED
        BY <1>1, <1>3, <1>8, <4>1
    <3> QED
      BY <1>3, <3>1, <3>2
  <2> QED
    BY <1>1, <1>3, <1>8, <2>1, <2>2
<1>9. ASSUME NEW i \in c + 1 .. Len(buf)
      PROVE  buf[i] > idxNext + c
  BY <1>1, <1>3, <1>8, <1>9 DEF Increasing
<1> QED
  BY <1>3, <1>6, <1>7, <1>9

(***************************************************************************)
(* write_to_i moves the first i records of the buffer to the end of the    *)
(* file, one by one.                                                       *)
(***************************************************************************)
LEMMA WriteToPlaces ==
  ASSUME NEW S, NEW wr \in Writers(S), NEW i \in 0 .. Len(wr.buf)
  PROVE  /\ WriteTo(wr, i).idxNext = wr.idxNext + i
         /\ WriteTo(wr, i).buf \in Seq(S)
         /\ Len(WriteTo(wr, i).buf) = Len(wr.buf) - i
         /\ \A k \in 1 .. Len(wr.buf) - i : WriteTo(wr, i).buf[k] = wr.buf[i + k]
         /\ WriteTo(wr, i).out \in Seq(S)
         /\ Len(WriteTo(wr, i).out) = Len(wr.out) + i
         /\ \A k \in 1 .. Len(wr.out) : WriteTo(wr, i).out[k] = wr.out[k]
         /\ \A k \in Len(wr.out) + 1 .. Len(wr.out) + i :
              WriteTo(wr, i).out[k] = wr.buf[k - Len(wr.out)]
<1> DEFINE a == SubSeq(wr.buf, 1, i)
<1>1. /\ wr.buf \in Seq(S) /\ wr.out \in Seq(S)
      /\ Len(wr.buf) \in Nat /\ Len(wr.out) \in Nat
      /\ \A k \in 1 .. Len(wr.buf) : wr.buf[k] \in S
  BY LenProperties DEF Writers
<1>2. /\ WriteTo(wr, i).buf = SubSeq(wr.buf, i + 1, Len(wr.buf))
      /\ WriteTo(wr, i).idxNext = wr.idxNext + i
      /\ WriteTo(wr, i).out = wr.out \o a
  BY DEF WriteTo
<1>3. a \in Seq(S) /\ Len(a) = i /\ \A k \in 1 .. i : a[k] = wr.buf[k]
  <2>1. \A k \in 1 .. i : wr.buf[k] \in S
    BY <1>1
  <2> QED
    BY <1>1, <2>1, SubSeqProperties
<1> HIDE DEF a
<1> DEFINE o == wr.out \o a
<1>4. /\ o \in Seq(S) /\ Len(o) = Len(wr.out) + i
      /\ \A k \in 1 .. Len(wr.out) + i :
           o[k] = IF k <= Len(wr.out) THEN wr.out[k] ELSE a[k - Len(wr.out)]
  BY <1>1, <1>3, ConcatProperties
<1> HIDE DEF o
<1>5. \A k \in 1 .. Len(wr.out) : o[k] = wr.out[k]
  BY <1>1, <1>4
<1>6. ASSUME NEW k \in Len(wr.out) + 1 .. Len(wr.out) + i
      PROVE  o[k] = wr.buf[k - Len(wr.out)]
  <2>1. k \in 1 .. Len(wr.out) + i /\ ~(k <= Len(wr.out)) /\ k - Len(wr.out) \in 1 .. i
    BY <1>1
  <2> QED
    BY <1>3, <1>4, <2>1
<1>7. /\ SubSeq(wr.buf, i + 1, Len(wr.buf)) \in Seq(S)
      /\ Len(SubSeq(wr.buf, i + 1, Len(wr.buf))) = Len(wr.buf) - i
      /\ \A k \in 1 .. Len(wr.buf) - i :
           SubSeq(wr.buf, i + 1, Len(wr.buf))[k] = wr.buf[i + k]
  BY <1>1, RestPlaces
<1> QED
  BY <1>2, <1>4, <1>5, <1>6, <1>7, Zenon DEF o

\* The file is that of the first games and what waits comes after them.
Ordered(wr) ==
  /\ wr \in Writers(Nat)
  /\ Len(wr.out) = wr.idxNext
  /\ \A k \in 1 .. wr.idxNext : wr.out[k] = k - 1
  /\ Increasing(wr.buf)
  /\ \A k \in 1 .. Len(wr.buf) : wr.buf[k] >= wr.idxNext

\* The records that a writer was given.
Records(wr) == (0 .. wr.idxNext - 1) \cup ToSet(wr.buf)

(***************************************************************************)
(* push: whatever the order of the calls, the file has the first games,    *)
(* and the new record is in the file or in the buffer.                     *)
(***************************************************************************)
LEMMA PushKeepsOrder ==
  ASSUME NEW wr, Ordered(wr), NEW idx \in Nat, idx \notin Records(wr)
  PROVE  /\ Ordered(Push(wr, idx))
         /\ Records(Push(wr, idx)) = Records(wr) \cup {idx}
<1> DEFINE b == InsertSorted(wr.buf, idx)
           n == wr.idxNext
           c == Chunk(b, n)
           w2 == [wr EXCEPT !.buf = b]
           w3 == WriteTo(w2, c)
<1>1. /\ wr.buf \in Seq(Nat) /\ wr.out \in Seq(Nat) /\ n \in Nat
      /\ Len(wr.out) = n
      /\ \A k \in 1 .. n : wr.out[k] = k - 1
      /\ Increasing(wr.buf)
      /\ Len(wr.buf) \in Nat /\ DOMAIN wr.buf = 1 .. Len(wr.buf)
      /\ \A k \in 1 .. Len(wr.buf) : wr.buf[k] \in Nat /\ wr.buf[k] >= n
  BY LenProperties DEF Ordered, Writers
<1>2. idx \notin ToSet(wr.buf) /\ idx >= n
  BY <1>1 DEF Records
<1>3. /\ b \in Seq(Nat) /\ Increasing(b)
      /\ ToSet(b) = ToSet(wr.buf) \cup {idx}
      /\ Len(b) \in Nat /\ DOMAIN b = 1 .. Len(b)
      /\ \A k \in 1 .. Len(b) : b[k] \in Nat
  BY <1>1, <1>2, InsertSortedOrder, LenProperties
<1>4. w2 \in Writers(Nat) /\ w2.buf = b /\ w2.idxNext = n /\ w2.out = wr.out
  BY <1>3 DEF Ordered, Writers
<1>5. Push(wr, idx) = w3
  BY DEF Push
<1> HIDE DEF b
<1>6. \A k \in 1 .. Len(b) : b[k] >= n
  <2>1. \A r \in ToSet(wr.buf) : r >= n
    BY <1>1 DEF ToSet
  <2>2. \A k \in 1 .. Len(b) : b[k] \in ToSet(b)
    BY <1>3 DEF ToSet
  <2> QED
    BY <1>2, <1>3, <2>1, <2>2
<1> HIDE DEF n, w2
<1>7. /\ c \in 0 .. Len(b)
      /\ \A k \in 1 .. c : b[k] = n + k - 1
      /\ \A k \in c + 1 .. Len(b) : b[k] > n + c
  BY <1>1, <1>3, <1>6, ChunkContinues
<1> HIDE DEF c
<1>8. /\ w3.idxNext = n + c
      /\ w3.buf \in Seq(Nat)
      /\ Len(w3.buf) = Len(b) - c
      /\ \A k \in 1 .. Len(b) - c : w3.buf[k] = b[c + k]
      /\ w3.out \in Seq(Nat)
      /\ Len(w3.out) = n + c
      /\ \A k \in 1 .. n : w3.out[k] = wr.out[k]
      /\ \A k \in n + 1 .. n + c : w3.out[k] = b[k - n]
  <2>1. c \in 0 .. Len(w2.buf)
    BY <1>4, <1>7
  <2>2. /\ w3.idxNext = w2.idxNext + c
        /\ w3.buf \in Seq(Nat)
        /\ Len(w3.buf) = Len(w2.buf) - c
        /\ \A k \in 1 .. Len(w2.buf) - c : w3.buf[k] = w2.buf[c + k]
        /\ w3.out \in Seq(Nat)
        /\ Len(w3.out) = Len(w2.out) + c
        /\ \A k \in 1 .. Len(w2.out) : w3.out[k] = w2.out[k]
        /\ \A k \in Len(w2.out) + 1 .. Len(w2.out) + c :
             w3.out[k] = w2.buf[k - Len(w2.out)]
    BY <1>4, <2>1, WriteToPlaces, Zenon
  <2> HIDE DEF w3
  <2>3. Len(w2.out) = n
    BY <1>1, <1>4
  <2> QED
    BY <1>4, <2>2, <2>3
<1>9. w3 \in Writers(Nat)
  BY <1>4, <1>7, WriteToType
<1> HIDE DEF w3
<1>10. \A k \in 1 .. n + c : w3.out[k] = k - 1
  <2> SUFFICES ASSUME NEW k \in 1 .. n + c
               PROVE  w3.out[k] = k - 1
    OBVIOUS
  <2>1. CASE k <= n
    <3>1. k \in 1 .. n
      BY <1>1, <1>7, <2>1
    <3> QED
      BY <1>1, <1>8, <3>1
  <2>2. CASE k > n
    <3>1. k \in n + 1 .. n + c /\ k - n \in 1 .. c /\ n + (k - n) - 1 = k - 1
      BY <1>1, <1>7, <2>2
    <3>2. w3.out[k] = b[k - n] /\ b[k - n] = n + (k - n) - 1
      BY <1>7, <1>8, <3>1
    <3> QED
      BY <3>1, <3>2
  <2> QED
    BY <1>1, <1>7, <2>1, <2>2
<1>11. Increasing(w3.buf)
  <2> SUFFICES ASSUME NEW k \in 1 .. Len(b) - c, NEW m \in 1 .. Len(b) - c, k < m
               PROVE  w3.buf[k] < w3.buf[m]
    BY <1>8 DEF Increasing
  <2>1. c + k \in 1 .. Len(b) /\ c + m \in 1 .. Len(b) /\ c + k < c + m
    BY <1>3, <1>7
  <2>2. b[c + k] < b[c + m]
    BY <1>3, <2>1 DEF Increasing
  <2> QED
    BY <1>8, <2>2
<1>12. \A k \in 1 .. Len(w3.buf) : w3.buf[k] >= n + c
  <2> SUFFICES ASSUME NEW k \in 1 .. Len(b) - c
               PROVE  w3.buf[k] >= n + c
    BY <1>8
  <2>1. c + k \in c + 1 .. Len(b) /\ c + k \in 1 .. Len(b)
    BY <1>3, <1>7
  <2>2. b[c + k] > n + c /\ b[c + k] \in Nat
    BY <1>3, <1>7, <2>1
  <2> QED
    BY <1>1, <1>7, <1>8, <2>2
<1>13. Ordered(w3)
  BY <1>8, <1>9, <1>10, <1>11, <1>12 DEF Ordered
<1>14. (0 .. (n + c) - 1) \cup ToSet(w3.buf) = (0 .. n - 1) \cup ToSet(b)
  <2>1. /\ ToSet(b) = {b[k] : k \in 1 .. Len(b)}
        /\ ToSet(w3.buf) = {w3.buf[k] : k \in 1 .. Len(b) - c}
    BY <1>3, <1>8, LenProperties DEF ToSet
  <2>2. ASSUME NEW k \in 1 .. Len(b) - c
        PROVE  w3.buf[k] \in ToSet(b)
    <3>1. c + k \in 1 .. Len(b)
      BY <1>3, <1>7
    <3> QED
      BY <1>8, <2>1, <3>1
  <2>3. ASSUME NEW r \in 0 .. (n + c) - 1, ~(r \in 0 .. n - 1)
        PROVE  r \in ToSet(b)
    <3>1. (r - n) + 1 \in 1 .. c /\ n + ((r - n) + 1) - 1 = r
          /\ (r - n) + 1 \in 1 .. Len(b)
      BY <1>1, <1>3, <1>7, <2>3
    <3>2. b[(r - n) + 1] = r
      BY <1>7, <3>1
    <3> QED
      BY <2>1, <3>1, <3>2
  <2>4. ASSUME NEW k \in 1 .. Len(b)
        PROVE  b[k] \in 0 .. (n + c) - 1 \/ b[k] \in ToSet(w3.buf)
    <3>1. CASE k <= c
      BY <1>1, <1>3, <1>7, <3>1
    <3>2. CASE k > c
      <4>1. k - c \in 1 .. Len(b) - c /\ c + (k - c) = k
        BY <1>3, <1>7, <3>2
      <4>2. w3.buf[k - c] = b[k]
        BY <1>8, <4>1
      <4> QED
        BY <2>1, <4>1, <4>2
    <3> QED
      BY <1>7, <3>1, <3>2
  <2>5. \A r \in 0 .. n - 1 : r \in 0 .. (n + c) - 1
    BY <1>1, <1>7
  <2>6. (0 .. (n + c) - 1) \cup ToSet(w3.buf) \subseteq (0 .. n - 1) \cup ToSet(b)
    BY <2>1, <2>2, <2>3, Zenon
  <2>7. (0 .. n - 1) \cup ToSet(b) \subseteq (0 .. (n + c) - 1) \cup ToSet(w3.buf)
    BY <2>1, <2>4, <2>5, Zenon
  <2> QED
    BY <2>6, <2>7, Zenon
<1>15. Records(w3) = Records(wr) \cup {idx}
  BY <1>3, <1>8, <1>14, Zenon DEF Records, n
<1> QED
  BY <1>5, <1>13, <1>15

(***************************************************************************)
(* ~SeqWriter leaves a file with all of the records that were given, in    *)
(* the order of the games.                                                 *)
(***************************************************************************)
LEMMA CloseWritesAll ==
  ASSUME NEW wr, Ordered(wr)
  PROVE  /\ IsSorted(CloseWriter(wr).out, <)
         /\ ToSet(CloseWriter(wr).out) = Records(wr)
<1> DEFINE b == wr.buf
           n == wr.idxNext
           m == Len(wr.buf)
           o == CloseWriter(wr).out
<1>1. /\ wr \in Writers(Nat) /\ b \in Seq(Nat) /\ n \in Nat
      /\ Len(wr.out) = n
      /\ \A k \in 1 .. n : wr.out[k] = k - 1
      /\ \A i, j \in 1 .. m : i < j => b[i] < b[j]
      /\ m \in Nat /\ DOMAIN b = 1 .. m
      /\ \A k \in 1 .. m : b[k] \in Nat /\ b[k] >= n
  BY LenProperties DEF Ordered, Writers, Increasing
<1>2. /\ o \in Seq(Nat) /\ Len(o) = n + m
      /\ \A k \in 1 .. n : o[k] = k - 1
      /\ \A k \in n + 1 .. n + m : o[k] = b[k - n]
  <2>1. m \in 0 .. m
    BY <1>1
  <2>2. o = WriteTo(wr, m).out
    BY DEF CloseWriter
  <2> DEFINE w == WriteTo(wr, m).out
  <2>3. /\ w \in Seq(Nat) /\ Len(w) = Len(wr.out) + m
        /\ \A k \in 1 .. Len(wr.out) : w[k] = wr.out[k]
        /\ \A k \in Len(wr.out) + 1 .. Len(wr.out) + m :
             w[k] = b[k - Len(wr.out)]
    <3>1. wr \in Writers(Nat) /\ m \in 0 .. Len(wr.buf)
      BY <1>1, <2>1
    <3> HIDE DEF m
    <3> QED
      BY <3>1, WriteToPlaces, Zenon
  <2> HIDE DEF o, w
  <2> QED
    BY <1>1, <2>2, <2>3 DEF w
<1> HIDE DEF o, m, n, b
<1>3. \A k \in n + 1 .. n + m : k - n \in 1 .. m /\ o[k] = b[k - n]
  BY <1>1, <1>2
<1>4. IsSorted(o, <)
  <2> SUFFICES ASSUME NEW i \in 1 .. n + m, NEW j \in 1 .. n + m, i < j
               PROVE  o[i] < o[j]
    BY <1>2 DEF IsSorted
  <2>1. CASE j <= n
    BY <1>1, <1>2, <2>1
  <2>2. CASE i <= n /\ j > n
    <3>1. o[i] = i - 1 /\ j - n \in 1 .. m /\ o[j] = b[j - n]
      BY <1>1, <1>2, <1>3, <2>2
    <3>2. b[j - n] \in Nat /\ b[j - n] >= n
      BY <1>1, <3>1
    <3> QED
      BY <1>1, <2>2, <3>1, <3>2
  <2>3. CASE i > n
    <3>1. /\ i - n \in 1 .. m /\ j - n \in 1 .. m /\ i - n < j - n
          /\ o[i] = b[i - n] /\ o[j] = b[j - n]
      BY <1>1, <1>3, <2>3
    <3>2. b[i - n] < b[j - n]
      BY <1>1, <3>1
    <3> QED
      BY <3>1, <3>2
  <2> QED
    BY <1>1, <2>1, <2>2, <2>3
<1>5. ToSet(o) = (0 .. n - 1) \cup ToSet(b)
  <2>1. /\ ToSet(o) = {o[k] : k \in 1 .. n + m}
        /\ ToSet(b) = {b[k] : k \in 1 .. m}
    BY <1>1, <1>2, LenProperties DEF ToSet
  <2>2. ASSUME NEW k \in 1 .. n + m
        PROVE  o[k] \in (0 .. n - 1) \cup ToSet(b)
    <3>1. CASE k <= n
      BY <1>1, <1>2, <3>1
    <3>2. CASE k > n
      <4>1. k - n \in 1 .. m /\ o[k] = b[k - n]
        BY <1>1, <1>3, <3>2
      <4> QED
        BY <2>1, <4>1
    <3> QED
      BY <1>1, <3>1, <3>2
  <2>3. ASSUME NEW r \in 0 .. n - 1
        PROVE  r \in ToSet(o)
    <3>1. r + 1 \in 1 .. n /\ r + 1 \in 1 .. n + m /\ (r + 1) - 1 = r
      BY <1>1
    <3>2. o[r + 1] = r
      BY <1>2, <3>1
    <3> QED
      BY <2>1, <3>1, <3>2
  <2>4. ASSUME NEW k \in 1 .. m
        PROVE  b[k] \in ToSet(o)
    <3>1. n + k \in n + 1 .. n + m /\ n + k \in 1 .. n + m /\ (n + k) - n = k
      BY <1>1
    <3>2. o[n + k] = b[k]
      BY <1>3, <3>1
    <3> QED
      BY <2>1, <3>1, <3>2
  <2>5. ToSet(o) \subseteq (0 .. n - 1) \cup ToSet(b)
    BY <2>1, <2>2, Zenon
  <2>6. (0 .. n - 1) \cup ToSet(b) \subseteq ToSet(o)
    BY <2>1, <2>3, <2>4, Zenon
  <2> QED
    BY <2>5, <2>6, Zenon
<1> QED
  BY <1>4, <1>5, Zenon DEF Records, o, n, b

(***************************************************************************)
(* A sequence of records that are all different has as many of them as its *)
(* length.                                                                 *)
(***************************************************************************)
LEMMA DifferentRecords ==
  ASSUME NEW S, NEW s \in Seq(S),
         \A i, j \in 1 .. Len(s) : i # j => s[i] # s[j]
  PROVE  IsFiniteSet(ToSet(s)) /\ Cardinality(ToSet(s)) = Len(s)
<1>1. /\ Len(s) \in Nat /\ DOMAIN s = 1 .. Len(s)
      /\ s \in [1 .. Len(s) -> S]
  BY LenProperties
<1>2. s \in Bijection(1 .. Len(s), ToSet(s))
  <2>1. ToSet(s) = {s[i] : i \in 1 .. Len(s)}
    BY <1>1 DEF ToSet
  <2>2. s \in [1 .. Len(s) -> ToSet(s)]
    BY <1>1, <2>1
  <2>3. IsInjective(s)
    BY <1>1, Zenon DEF IsInjective
  <2>4. \A t \in ToSet(s) : \E i \in 1 .. Len(s) : s[i] = t
    BY <2>1
  <2> QED
    BY <2>2, <2>3, <2>4, Zenon DEF Bijection, Injection, Surjection
<1>3. ExistsBijection(1 .. Len(s), ToSet(s))
  BY <1>2, Zenon DEF ExistsBijection
<1> QED
  BY <1>1, <1>3, FS_CountingElements, FS_NatBijection, Zenon

(***************************************************************************)
(* A sequence that goes on as another one is a prefix of it.               *)
(***************************************************************************)
LEMMA PrefixOf ==
  ASSUME NEW S, NEW s \in Seq(S), NEW t \in Seq(S), Len(s) <= Len(t),
         \A k \in 1 .. Len(s) : t[k] = s[k]
  PROVE  IsPrefix(s, t)
<1>1. /\ Len(s) \in Nat /\ Len(t) \in Nat
      /\ \A k \in 1 .. Len(t) : t[k] \in S
  BY LenProperties
<1> DEFINE u == SubSeq(t, 1, Len(s))
<1>2. u \in Seq(S) /\ Len(u) = Len(s) /\ \A k \in 1 .. Len(s) : u[k] = t[k]
  <2>1. \A k \in 1 .. Len(s) : t[k] \in S
    BY <1>1
  <2> QED
    BY <1>1, <2>1, SubSeqProperties
<1> HIDE DEF u
<1>3. s = u
  BY <1>2, SeqEqual
<1>4. SubSeq(s, 1, Len(s)) = s
  BY SubSeqFull
<1> QED
  BY <1>3, <1>4, Zenon DEF IsPrefix, u
=============================================================================
