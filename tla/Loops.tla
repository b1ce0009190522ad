-------------------------------- MODULE Loops --------------------------------
(***************************************************************************)
(* What proofs about loops need: a set of natural numbers has a least      *)
(* element (the first free slot, the first event, the next byte that       *)
(* begins a character), induction over the rounds of a loop, and that the  *)
(* recursive function that stands for the loop's variable exists.  And one  *)
(* about queues, which the provers do not see for elements of any kind.    *)
(***************************************************************************)
EXTENDS Integers, Sequences, WellFoundedInduction, TLAPS

LEMMA LeastElement ==
    ASSUME NEW S \in SUBSET Nat, S # {}
    PROVE  \E x \in S : \A y \in S : x <= y
<1> DEFINE R == {ss \in Nat \X Nat : ss[1] < ss[2]}
<1>1. IsWellFoundedOn(R, Nat)
  BY NatLessThanWellFounded DEF OpToRel
<1> HIDE DEF R
<1>2. PICK x \in S : \A y \in S : ~ (<<y, x>> \in R)
  BY <1>1, WFMin
<1>3. \A y \in S : ~ (y < x)
  BY <1>2 DEF R
<1> QED
  BY <1>3

\* What holds before the loop and is kept by each of its rounds holds after each.
LEMMA EachRound ==
    ASSUME NEW N \in Nat, NEW S, 0 \in S, \A k \in 0..(N - 1) : k \in S => k + 1 \in S
    PROVE  \A k \in 0..N : k \in S
<1> SUFFICES ASSUME NEW j \in 0..N, j \notin S PROVE FALSE
  OBVIOUS
<1> DEFINE bad == {k \in 0..N : k \notin S}
<1>1. bad \in SUBSET Nat /\ bad # {}
  OBVIOUS
<1>2. PICK k \in bad : \A i \in bad : k <= i
  <2> HIDE DEF bad
  <2> QED
    BY <1>1, LeastElement
<1>3. k # 0 /\ k - 1 \in 0..(N - 1) /\ k - 1 \in S
  BY <1>2
<1> QED
  BY <1>2, <1>3

\* v[n] is what the variable of a loop is after n rounds: base before the first,
\* and round n makes round[n][x] of x.
Runs(v, N, V, base, round) ==
    /\ v \in [0..N -> V]
    /\ v[0] = base
    /\ \A n \in 1..N : v[n] = round[n][v[n - 1]]

LEMMA LoopExists ==
    ASSUME NEW N \in Nat, NEW V, NEW base \in V, NEW round \in [1..N -> [V -> V]]
    PROVE  \E v : Runs(v, N, V, base, round)
<1> DEFINE S == {k \in 0..N : \E v : Runs(v, k, V, base, round)}
<1>1. 0 \in S
  <2>1. Runs([n \in 0..0 |-> base], 0, V, base, round)
    BY DEF Runs
  <2> QED
    BY <2>1
<1>2. ASSUME NEW k \in 0..(N - 1), k \in S PROVE k + 1 \in S
  <2>1. PICK v : Runs(v, k, V, base, round)
    BY <1>2
  <2> DEFINE w == [n \in 0..(k + 1) |-> IF n = k + 1 THEN round[k + 1][v[k]] ELSE v[n]]
  <2>2. w \in [0..(k + 1) -> V]
    BY <2>1 DEF Runs
  <2>3. w[0] = base
    BY <2>1 DEF Runs
  <2>4. ASSUME NEW n \in 1..(k + 1) PROVE w[n] = round[n][w[n - 1]]
    <3>1. CASE n = k + 1
      BY <3>1
    <3>2. CASE n # k + 1
      BY <2>1, <3>2 DEF Runs
    <3> QED
      BY <3>1, <3>2
  <2>5. Runs(w, k + 1, V, base, round)
    <3> HIDE DEF w
    <3> QED
      BY <2>2, <2>3, <2>4 DEF Runs
  <2> QED
    BY <2>5
<1>3. \A k \in 0..N : k \in S
  <2> HIDE DEF S
  <2> QED
    BY <1>1, <1>2, EachRound
<1> QED
  BY <1>3

\* A table that is filled from its first entry on, each entry from those before it.
LEMMA TableExists ==
    ASSUME NEW N \in Nat, NEW V, NEW base \in V, NEW entry \in [0..N -> [[0..N -> V] -> V]],
           \A n \in 0..N : \A f, g \in [0..N -> V] :
              (\A m \in 0..(n - 1) : f[m] = g[m]) => entry[n][f] = entry[n][g]
    PROVE  \E f \in [0..N -> V] : \A n \in 0..N : f[n] = entry[n][f]
<1> DEFINE K == N + 1
           T == [0..N -> V]
           blank == [n \in 0..N |-> base]
           round == [j \in 1..K |-> [f \in T |-> [f EXCEPT ![j - 1] = entry[j - 1][f]]]]
<1>1. round \in [1..K -> [T -> T]] /\ K \in Nat /\ blank \in T
  OBVIOUS
<1>2. PICK r : Runs(r, K, T, blank, round)
  <2> HIDE DEF K, T, blank, round
  <2> QED
    BY <1>1, LoopExists
<1>3. /\ r \in [0..K -> T]
      /\ \A j \in 0..N : r[j + 1] = [r[j] EXCEPT ![j] = entry[j][r[j]]]
  <2>1. r \in [0..K -> T] /\ \A j \in 1..K : r[j] = round[j][r[j - 1]]
    BY <1>2 DEF Runs
  <2>2. ASSUME NEW j \in 0..N PROVE r[j + 1] = [r[j] EXCEPT ![j] = entry[j][r[j]]]
    <3>1. r[j] \in T /\ j + 1 \in 1..K /\ j + 1 - 1 = j
      BY <2>1
    <3>2. r[j + 1] = round[j + 1][r[j]]
      <4> HIDE DEF round, T, K
      <4> QED
        BY <2>1, <3>1
    <3>3. round[j + 1] = [f \in T |-> [f EXCEPT ![j] = entry[j][f]]]
      <4> HIDE DEF T
      <4> QED
        BY <3>1
    <3> HIDE DEF round, T
    <3> QED
      BY <3>1, <3>2, <3>3
  <2> QED
    BY <2>1, <2>2
<1> DEFINE Filled == {j \in 0..K : \A m \in 0..(j - 1) : r[j][m] = entry[m][r[j]]}
<1>4. 0 \in Filled
  OBVIOUS
<1>5. ASSUME NEW j \in 0..N, j \in Filled PROVE j + 1 \in Filled
  <2>1. r[j] \in T /\ r[j + 1] \in T /\ r[j + 1] = [r[j] EXCEPT ![j] = entry[j][r[j]]]
    BY <1>3
  <2>2. \A m \in 0..N : m # j => r[j + 1][m] = r[j][m]
    BY <2>1
  <2>3. ASSUME NEW m \in 0..j PROVE entry[m][r[j + 1]] = entry[m][r[j]]
    <3>1. \A i \in 0..(m - 1) : r[j + 1][i] = r[j][i]
      BY <2>2
    <3>2. \A f, g \in T : (\A i \in 0..(m - 1) : f[i] = g[i]) => entry[m][f] = entry[m][g]
      <4>1. m \in 0..N
        OBVIOUS
      <4> QED
        BY <4>1, Zenon
    <3> HIDE DEF T
    <3> QED
      BY <2>1, <3>1, <3>2, Zenon
  <2>4. ASSUME NEW m \in 0..j PROVE r[j + 1][m] = entry[m][r[j + 1]]
    <3>1. CASE m = j
      BY <2>1, <2>3, <3>1
    <3>2. CASE m # j
      BY <1>5, <2>2, <2>3, <3>2
    <3> QED
      BY <3>1, <3>2
  <2> QED
    BY <2>4
<1>6. \A j \in 0..K : j \in Filled
  <2>1. K - 1 = N
    OBVIOUS
  <2> HIDE DEF Filled, K
  <2> QED
    BY <1>1, <1>4, <1>5, <2>1, EachRound
<1>7. \A m \in 0..N : r[K][m] = entry[m][r[K]]
  BY <1>6
<1>8. r[K] \in T
  BY <1>3
<1> QED
  BY <1>7, <1>8

\* A queue of one element: what goes in comes out.
LEMMA Single ==
    ASSUME NEW a
    PROVE  /\ <<a>> # <<>> /\ Head(<<a>>) = a /\ Tail(<<a>>) = <<>> /\ Append(<<>>, a) = <<a>>
           /\ Len(<<a>>) = 1 /\ Len(<<>>) = 0
<1>1. a \in {a} /\ <<a>> \in Seq({a}) /\ <<>> \in Seq({a})
  OBVIOUS
<1>2. <<a>> # <<>>
  OBVIOUS
<1>3. Head(<<a>>) = a
  OBVIOUS
<1>4. Tail(<<a>>) = <<>>
  OBVIOUS
<1>5. Append(<<>>, a) = <<a>>
  OBVIOUS
<1>6. Len(<<a>>) = 1 /\ Len(<<>>) = 0
  OBVIOUS
<1> QED
  BY <1>2, <1>3, <1>4, <1>5, <1>6
=============================================================================
