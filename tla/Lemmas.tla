------------------------------- MODULE Lemmas -------------------------------
(***************************************************************************)
(* Facts about numbers, recursive functions and sequences that the proofs  *)
(* of several components need.                                             *)
(***************************************************************************)
EXTENDS Naturals, Sequences, SequencesExt, WellFoundedInduction, TLAPS

(* A set of natural numbers has a least one: what is shown to hold of n    *)
(* when it holds of all smaller numbers holds of all.                      *)
LEMMA LeastExists ==
  ASSUME NEW I, I \subseteq Nat, I # {}
  PROVE  \E m \in I : \A j \in I : m <= j
<1> DEFINE R == OpToRel(<, Nat)
<1>1. IsWellFoundedOn(R, Nat)
  BY NatLessThanWellFounded
<1>2. \A a, b \in Nat : a < b => <<a, b>> \in R
  BY DEF OpToRel
<1> HIDE DEF R
<1>3. PICK m \in I : \A j \in I : ~ (<<j, m>> \in R)
  BY <1>1, WFMin
<1>4. ASSUME NEW j \in I PROVE m <= j
  <2>1. m \in Nat /\ j \in Nat /\ ~ (j < m)
    BY <1>2, <1>3
  <2> QED
    BY <2>1
<1> QED
  BY <1>4

(* Division with remainder,                                                *)
LEMMA DivMod ==
  ASSUME NEW a \in Int, NEW n \in Nat \ {0}
  PROVE  a % n \in 0 .. n - 1 /\ a \div n \in Int /\ a = n * (a \div n) + (a % n)
OBVIOUS

LEMMA Quotient ==
  ASSUME NEW a \in Int, NEW n \in Nat \ {0}
  PROVE  a % n \in Nat /\ \E k \in Int : a = n * k + (a % n)
<1>1. a % n \in 0 .. n - 1 /\ a \div n \in Int /\ a = n * (a \div n) + (a % n)
  BY DivMod
<1>2. a % n \in Nat
  BY <1>1
<1> QED
  BY <1>1, <1>2, Zenon

(* is unique,                                                              *)
LEMMA RemainderUnique ==
  ASSUME NEW n \in Nat \ {0}, NEW p \in Int, NEW q \in Int,
         NEW r \in 0 .. n - 1, NEW s \in 0 .. n - 1, n * p + r = n * q + s
  PROVE  p = q /\ r = s
<1>1. CASE p = q
  BY <1>1
<1>2. CASE p > q
  <2>1. n * (p - q) >= n
    BY <1>2
  <2>2. n * (p - q) = s - r
    OBVIOUS
  <2> QED
    BY <2>1, <2>2
<1>3. CASE p < q
  <2>1. n * (q - p) >= n
    BY <1>3
  <2>2. n * (q - p) = r - s
    OBVIOUS
  <2> QED
    BY <2>1, <2>2
<1> QED
  BY <1>1, <1>2, <1>3

(* so that multiples of the divisor do not count,                          *)
LEMMA DivModIs ==
  ASSUME NEW n \in Nat \ {0}, NEW q \in Int, NEW r \in 0 .. n - 1,
         NEW a \in Int, a = n * q + r
  PROVE  a % n = r /\ a \div n = q
<1>1. a % n \in 0 .. n - 1 /\ a \div n \in Int /\ n * (a \div n) + (a % n) = n * q + r
  BY DivMod
<1> QED
  BY <1>1, RemainderUnique

LEMMA ModMultiple ==
  ASSUME NEW n \in Nat \ {0}, NEW a \in Int, NEW b \in Int, NEW k \in Int, b = a + n * k
  PROVE  b % n = a % n
<1>1. a % n \in 0 .. n - 1 /\ a \div n \in Int /\ a = n * (a \div n) + (a % n)
  BY DivMod
<1> DEFINE q == (a \div n) + k
<1>2. b = n * q + (a % n) /\ q \in Int
  BY <1>1
<1> HIDE DEF q
<1> QED
  BY <1>1, <1>2, DivModIs, Zenon

(* f is defined by recursion: f[0] is c, and f[n] is step[n][f[n-1]].      *)
Solves(f, N, c, step) == f = [n \in 0 .. N |-> IF n = 0 THEN c ELSE step[n][f[n-1]]]

(* Such a definition has a solution,                                       *)
LEMMA RecursionExists ==
  ASSUME NEW S, NEW c \in S, NEW N \in Nat, NEW step \in [1 .. N -> [S -> S]]
  PROVE  \E f \in [0 .. N -> S] : Solves(f, N, c, step)
<1> DEFINE Solvable(n) == \E f \in [0 .. n -> S] : Solves(f, n, c, step)
           Bad == {n \in 0 .. N : ~ Solvable(n)}
<1>1. ASSUME NEW n \in Bad, \A j \in Bad : n <= j PROVE FALSE
  <2>1. n \in 0 .. N /\ ~ Solvable(n)
    OBVIOUS
  <2>2. n # 0 => n - 1 \in 0 .. N /\ ~ (n <= n - 1)
    BY <2>1
  <2>3. n # 0 => Solvable(n - 1)
    BY <1>1, <2>2
  <2> HIDE DEF Bad
  <2>4. CASE n = 0
    <3> DEFINE g == [k \in 0 .. 0 |-> c]
    <3>1. g \in [0 .. 0 -> S]
      OBVIOUS
    <3>2. g = [k \in 0 .. 0 |-> IF k = 0 THEN c ELSE step[k][g[k-1]]]
      OBVIOUS
    <3> HIDE DEF g
    <3>3. Solvable(0)
      BY <3>1, <3>2 DEF Solves
    <3> QED
      BY <2>1, <2>4, <3>3
  <2>5. CASE n # 0
    <3>1. PICK f \in [0 .. n - 1 -> S] : Solves(f, n - 1, c, step)
      BY <2>3, <2>5
    <3> DEFINE last == step[n][f[n - 1]]
               g == [k \in 0 .. n |-> IF k = n THEN last ELSE f[k]]
    <3>2. \A k \in 0 .. n - 1 : f[k] \in S /\ f[k] = IF k = 0 THEN c ELSE step[k][f[k-1]]
      BY <3>1 DEF Solves
    <3>3. last \in S
      <4>1. n \in 1 .. N /\ n - 1 \in 0 .. n - 1
        BY <2>1, <2>5
      <4> QED
        BY <4>1, <3>2
    <3> HIDE DEF last
    <3>4. g \in [0 .. n -> S]
      <4>1. \A k \in 0 .. n : k # n => k \in 0 .. n - 1
        BY <2>1
      <4> QED
        BY <4>1, <3>2, <3>3
    <3>5. ASSUME NEW k \in 0 .. n PROVE g[k] = IF k = 0 THEN c ELSE step[k][g[k-1]]
      <4>1. CASE k = n
        <5>1. g[k] = last /\ n - 1 \in 0 .. n /\ n - 1 # n
          BY <4>1, <2>1, <2>5
        <5>2. g[n - 1] = f[n - 1]
          BY <5>1
        <5> HIDE DEF g
        <5> QED
          BY <4>1, <5>1, <5>2, <2>5 DEF last
      <4>2. CASE k # n
        <5>1. k \in 0 .. n - 1 /\ g[k] = f[k]
          BY <4>2, <2>1
        <5>2. k # 0 => k - 1 \in 0 .. n /\ k - 1 # n
          BY <5>1, <2>1
        <5>3. k # 0 => g[k - 1] = f[k - 1]
          BY <5>2
        <5> HIDE DEF g
        <5> QED
          BY <5>1, <5>3, <3>2
      <4> QED
        BY <4>1, <4>2
    <3>6. g = [k \in 0 .. n |-> g[k]]
      OBVIOUS
    <3> HIDE DEF g
    <3>7. Solves(g, n, c, step)
      BY <3>5, <3>6 DEF Solves
    <3>8. Solvable(n)
      BY <3>4, <3>7
    <3> QED
      BY <2>1, <3>8
  <2> QED
    BY <2>4, <2>5
<1>2. Bad \subseteq Nat
  OBVIOUS
<1>3. Bad = {}
  <2> HIDE DEF Bad
  <2> QED
    BY <1>1, <1>2, LeastExists
<1> QED
  BY <1>3

(* and every solution has its values where the steps stay.                 *)
LEMMA RecursionTyped ==
  ASSUME NEW S, NEW c \in S, NEW N \in Nat, NEW step \in [1 .. N -> [S -> S]],
         NEW f, Solves(f, N, c, step)
  PROVE  f \in [0 .. N -> S]
<1> DEFINE Bad == {n \in 0 .. N : ~ (f[n] \in S)}
<1>1. \A n \in 0 .. N : f[n] = IF n = 0 THEN c ELSE step[n][f[n-1]]
  BY DEF Solves
<1>2. ASSUME NEW n \in Bad, \A j \in Bad : n <= j PROVE FALSE
  <2>1. n \in 0 .. N /\ ~ (f[n] \in S) /\ n # 0
    BY <1>1
  <2>2. n - 1 \in 0 .. N /\ ~ (n <= n - 1) /\ n \in 1 .. N
    BY <2>1
  <2>3. f[n - 1] \in S
    BY <1>2, <2>2
  <2> QED
    BY <1>1, <2>1, <2>2, <2>3
<1>3. Bad \subseteq Nat
  OBVIOUS
<1>4. Bad = {}
  <2> HIDE DEF Bad
  <2> QED
    BY <1>2, <1>3, LeastExists
<1>5. f = [n \in 0 .. N |-> f[n]]
  BY DEF Solves
<1> QED
  BY <1>4, <1>5

(* Two functions that agree at first and from each argument to the next.   *)
LEMMA SameByInduction ==
  ASSUME NEW N \in Nat, NEW f, NEW g, f[0] = g[0],
         \A k \in 0 .. N - 1 : f[k] = g[k] => f[k + 1] = g[k + 1]
  PROVE  \A k \in 0 .. N : f[k] = g[k]
<1> DEFINE Bad == {k \in 0 .. N : f[k] # g[k]}
<1>1. ASSUME NEW k \in Bad, \A j \in Bad : k <= j PROVE FALSE
  <2>1. k \in 0 .. N /\ f[k] # g[k] /\ k # 0
    OBVIOUS
  <2>2. k - 1 \in 0 .. N /\ k - 1 \in 0 .. N - 1 /\ (k - 1) + 1 = k /\ ~ (k <= k - 1)
    BY <2>1
  <2>3. f[k - 1] = g[k - 1]
    BY <1>1, <2>2
  <2>4. f[(k - 1) + 1] = g[(k - 1) + 1]
    BY <2>2, <2>3
  <2> QED
    BY <2>1, <2>2, <2>4
<1>2. Bad \subseteq Nat
  OBVIOUS
<1>3. Bad = {}
  <2> HIDE DEF Bad
  <2> QED
    BY <1>1, <1>2, LeastExists
<1> QED
  BY <1>3

(* Two sequences, one after the other.                                     *)
LEMMA Concatenation ==
  ASSUME NEW S, NEW a \in Seq(S), NEW b \in Seq(S)
  PROVE  /\ a \o b \in Seq(S)
         /\ Len(a \o b) = Len(a) + Len(b)
         /\ \A k \in 1 .. Len(a) + Len(b) :
              (a \o b)[k] = IF k <= Len(a) THEN a[k] ELSE b[k - Len(a)]
OBVIOUS

(* A sequence without its i-th element,                                    *)
LEMMA RemoveAtProperties ==
  ASSUME NEW S, NEW f \in Seq(S), NEW i \in 1 .. Len(f)
  PROVE  /\ RemoveAt(f, i) \in Seq(S)
         /\ Len(RemoveAt(f, i)) = Len(f) - 1
         /\ \A k \in 1 .. Len(f) - 1 : RemoveAt(f, i)[k] = IF k < i THEN f[k] ELSE f[k + 1]
<1> DEFINE before == SubSeq(f, 1, i - 1)
           behind == SubSeq(f, i + 1, Len(f))
<1>1. /\ before \in Seq(S) /\ Len(before) = i - 1
      /\ \A k \in 1 .. i - 1 : before[k] = f[k]
  OBVIOUS
<1>2. /\ behind \in Seq(S) /\ Len(behind) = Len(f) - i
      /\ \A k \in 1 .. Len(f) - i : behind[k] = f[k + i]
  OBVIOUS
<1>3. RemoveAt(f, i) = before \o behind
  BY DEF RemoveAt
<1> HIDE DEF before, behind
<1>4. /\ RemoveAt(f, i) \in Seq(S) /\ Len(RemoveAt(f, i)) = Len(f) - 1
  BY <1>1, <1>2, <1>3, Concatenation
<1>5. ASSUME NEW k \in 1 .. Len(f) - 1
      PROVE  RemoveAt(f, i)[k] = IF k < i THEN f[k] ELSE f[k + 1]
  <2>1. RemoveAt(f, i)[k] = IF k <= i - 1 THEN before[k] ELSE behind[k - (i - 1)]
    BY <1>1, <1>2, <1>3, Concatenation
  <2> QED
    BY <2>1, <1>1, <1>2
<1> QED
  BY <1>4, <1>5

(* and one with x before it.                                               *)
LEMMA InsertAtProperties ==
  ASSUME NEW S, NEW f \in Seq(S), NEW i \in 1 .. Len(f) + 1, NEW x \in S
  PROVE  /\ InsertAt(f, i, x) \in Seq(S)
         /\ Len(InsertAt(f, i, x)) = Len(f) + 1
         /\ \A k \in 1 .. Len(f) + 1 :
              InsertAt(f, i, x)[k] = IF k < i THEN f[k] ELSE IF k = i THEN x ELSE f[k - 1]
<1> DEFINE before == SubSeq(f, 1, i - 1)
           behind == SubSeq(f, i, Len(f))
           middle == before \o <<x>>
<1>1. /\ before \in Seq(S) /\ Len(before) = i - 1
      /\ \A k \in 1 .. i - 1 : before[k] = f[k]
  OBVIOUS
<1>2. /\ behind \in Seq(S) /\ Len(behind) = Len(f) + 1 - i
      /\ \A k \in 1 .. Len(f) + 1 - i : behind[k] = f[(k + i) - 1]
  OBVIOUS
<1>3. InsertAt(f, i, x) = middle \o behind
  BY DEF InsertAt
<1> HIDE DEF before, behind
<1>4. /\ middle \in Seq(S) /\ Len(middle) = i
      /\ \A k \in 1 .. i : middle[k] = IF k < i THEN before[k] ELSE x
  BY <1>1
<1> HIDE DEF middle
<1>5. /\ middle \o behind \in Seq(S) /\ Len(middle \o behind) = i + (Len(f) + 1 - i)
      /\ \A k \in 1 .. i + (Len(f) + 1 - i) :
           (middle \o behind)[k] = IF k <= i THEN middle[k] ELSE behind[k - i]
  BY <1>2, <1>4, Concatenation
<1>6. i + (Len(f) + 1 - i) = Len(f) + 1
  OBVIOUS
<1>7. ASSUME NEW k \in 1 .. Len(f) + 1
      PROVE  (middle \o behind)[k] = IF k < i THEN f[k] ELSE IF k = i THEN x ELSE f[k - 1]
  <2>1. CASE k <= i
    BY <2>1, <1>1, <1>4, <1>5, <1>6
  <2>2. CASE k > i
    <3>1. k - i \in 1 .. Len(f) + 1 - i /\ ((k - i) + i) - 1 = k - 1
      BY <2>2
    <3>2. behind[k - i] = f[k - 1]
      BY <3>1, <1>2
    <3> QED
      BY <2>2, <3>2, <1>5, <1>6
  <2>3. k <= i \/ k > i
    OBVIOUS
  <2> QED
    BY <2>1, <2>2, <2>3
<1> QED
  BY <1>3, <1>5, <1>6, <1>7

(* p[n] is the first n of the sequences, one after the other, ...           *)
Concatenates(p, N, seqs) ==
  p[0] = << >> /\ \A k \in 1 .. N : p[k] = p[k - 1] \o seqs[k]

(* ... and has their elements, and no others.                              *)
HasParts(p, n, seqs) ==
  /\ \A k \in 1 .. n : \A j \in 1 .. Len(seqs[k]) :
       /\ Len(p[k - 1]) + j \in 1 .. Len(p[n])
       /\ p[n][Len(p[k - 1]) + j] = seqs[k][j]
  /\ \A q \in 1 .. Len(p[n]) :
       \E k \in 1 .. n : \E j \in 1 .. Len(seqs[k]) : q = Len(p[k - 1]) + j

(* Sequences one after the other are built up part by part,                *)
LEMMA FlattenIs ==
  ASSUME NEW S, NEW N \in Nat, NEW seqs \in [1 .. N -> Seq(S)]
  PROVE  \E p \in [0 .. N -> Seq(S)] : Concatenates(p, N, seqs) /\ FlattenSeq(seqs) = p[N]
<1> DEFINE T == Seq(S)
           step == [k \in 1 .. N |-> [v \in T |-> v \o seqs[k]]]
<1>1. Len(seqs) = N
  OBVIOUS
<1>2. << >> \in T /\ step \in [1 .. N -> [T -> T]]
  <2>1. << >> \in Seq(S)
    OBVIOUS
  <2>2. ASSUME NEW k \in 1 .. N, NEW v \in Seq(S) PROVE v \o seqs[k] \in Seq(S)
    <3>1. seqs[k] \in Seq(S)
      OBVIOUS
    <3> QED
      BY <3>1, Concatenation
  <2> QED
    BY <2>1, <2>2
<1>3. \A k \in 1 .. N : step[k] = [v \in T |-> v \o seqs[k]]
  OBVIOUS
<1> HIDE DEF T, step
<1>4. PICK p \in [0 .. N -> T] : Solves(p, N, << >>, step)
  BY <1>2, RecursionExists
<1>5. p[0] = << >> /\ \A k \in 1 .. N : p[k] = p[k - 1] \o seqs[k]
  <2>1. \A n \in 0 .. N : p[n] = IF n = 0 THEN << >> ELSE step[n][p[n-1]]
    BY <1>4 DEF Solves
  <2>2. p[0] = << >>
    BY <2>1
  <2>3. ASSUME NEW k \in 1 .. N PROVE p[k] = p[k - 1] \o seqs[k]
    <3>1. k \in 0 .. N /\ k # 0 /\ k - 1 \in 0 .. N
      OBVIOUS
    <3>2. p[k] = step[k][p[k - 1]] /\ p[k - 1] \in T
      BY <3>1, <2>1
    <3> QED
      BY <3>2, <1>3
  <2> QED
    BY <2>2, <2>3
<1>6. FlattenSeq(seqs) = p[N]
  <2>1. CASE N = 0
    <3>1. seqs = << >>
      BY <2>1
    <3> QED
      BY <3>1, <2>1, <1>1, <1>5 DEF FlattenSeq
  <2>2. CASE N # 0
    <3> DEFINE Is(f) == f = [i \in 1 .. N |-> IF i = 1 THEN seqs[i] ELSE f[i-1] \o seqs[i]]
               flatten == CHOOSE f : Is(f)
               g == [i \in 1 .. N |-> p[i]]
               all == [i \in 0 .. N |-> IF i = 0 THEN << >> ELSE flatten[i]]
    <3>1. Is(g)
      <4>1. ASSUME NEW i \in 1 .. N PROVE g[i] = IF i = 1 THEN seqs[i] ELSE g[i-1] \o seqs[i]
        <5>1. g[i] = p[i - 1] \o seqs[i]
          BY <1>5
        <5>2. CASE i = 1
          <6>1. seqs[i] \in Seq(S) /\ p[i - 1] = << >>
            BY <5>2, <1>5
          <6>2. << >> \o seqs[i] = seqs[i]
            BY <6>1
          <6> QED
            BY <5>1, <5>2, <6>1, <6>2
        <5>3. CASE i # 1
          <6>1. i - 1 \in 1 .. N
            BY <5>3
          <6>2. g[i - 1] = p[i - 1]
            BY <6>1
          <6> QED
            BY <5>1, <5>3, <6>2
        <5> QED
          BY <5>2, <5>3
      <4>2. g = [i \in 1 .. N |-> g[i]]
        OBVIOUS
      <4> HIDE DEF g
      <4> QED
        BY <4>1, <4>2
    <3>2. FlattenSeq(seqs) = flatten[N]
      BY <1>1, <2>2 DEF FlattenSeq
    <3> HIDE DEF g
    <3>3. Is(flatten)
      BY <3>1
    <3> HIDE DEF flatten
    <3>4. \A i \in 1 .. N : flatten[i] = IF i = 1 THEN seqs[i] ELSE flatten[i-1] \o seqs[i]
      BY <3>3
    <3>5. ASSUME NEW k \in 0 .. N - 1, all[k] = p[k] PROVE all[k + 1] = p[k + 1]
      <4>1. k + 1 \in 1 .. N /\ k + 1 \in 0 .. N /\ k \in 0 .. N /\ (k + 1) - 1 = k /\ k + 1 # 0
        OBVIOUS
      <4>2. all[k + 1] = flatten[k + 1] /\ p[k + 1] = p[k] \o seqs[k + 1]
        BY <4>1, <1>5
      <4>3. CASE k = 0
        <5>1. flatten[k + 1] = seqs[k + 1] /\ p[k] = << >> /\ seqs[k + 1] \in Seq(S)
          BY <4>1, <4>3, <3>4, <1>5
        <5>2. << >> \o seqs[k + 1] = seqs[k + 1]
          BY <5>1
        <5> QED
          BY <4>2, <5>1, <5>2
      <4>4. CASE k # 0
        <5>1. flatten[k + 1] = flatten[k] \o seqs[k + 1]
          <6>1. PICK i \in 1 .. N : i = k + 1
            BY <4>1
          <6>2. i # 1 /\ i - 1 = k
            BY <6>1, <4>4
          <6>3. flatten[i] = flatten[i-1] \o seqs[i]
            BY <6>2, <3>4
          <6> HIDE DEF all
          <6> QED
            BY <6>1, <6>2, <6>3
        <5>2. all[k] = flatten[k]
          BY <4>1, <4>4
        <5> QED
          BY <4>2, <5>1, <5>2, <3>5
      <4> QED
        BY <4>3, <4>4
    <3>6. all[0] = p[0]
      BY <1>5
    <3>7. all[N] = flatten[N] /\ N \in 0 .. N
      BY <2>2
    <3> HIDE DEF all
    <3>8. \A k \in 0 .. N : all[k] = p[k]
      BY <3>5, <3>6, SameByInduction
    <3> QED
      BY <3>2, <3>7, <3>8
  <2> QED
    BY <2>1, <2>2
<1> QED
  BY <1>4, <1>5, <1>6 DEF T, Concatenates

(* and have the elements of the parts, and no others.                      *)
LEMMA FlattenElements ==
  ASSUME NEW S, NEW N \in Nat, NEW seqs \in [1 .. N -> Seq(S)], NEW p \in [0 .. N -> Seq(S)],
         Concatenates(p, N, seqs)
  PROVE  \A n \in 0 .. N : HasParts(p, n, seqs)
<1> USE DEF Concatenates
<1> DEFINE Fwd(n) == \A k \in 1 .. n : \A j \in 1 .. Len(seqs[k]) :
                        /\ Len(p[k - 1]) + j \in 1 .. Len(p[n])
                        /\ p[n][Len(p[k - 1]) + j] = seqs[k][j]
           Back(n) == \A q \in 1 .. Len(p[n]) :
                        \E k \in 1 .. n : \E j \in 1 .. Len(seqs[k]) : q = Len(p[k - 1]) + j
           Bad == {n \in 0 .. N : ~ (Fwd(n) /\ Back(n))}
<1>1. ASSUME NEW n \in Bad, \A j \in Bad : n <= j PROVE FALSE
  <2>1. n \in 0 .. N /\ ~ (Fwd(n) /\ Back(n))
    OBVIOUS
  <2>2. n # 0 => n - 1 \in 0 .. N /\ ~ (n <= n - 1)
    BY <2>1
  <2>3. n # 0 => Fwd(n - 1) /\ Back(n - 1)
    <3>1. n # 0 => n - 1 \in 0 .. N /\ n - 1 \notin Bad
      BY <1>1, <2>2
    <3> HIDE DEF Fwd, Back
    <3> QED
      BY <3>1
  <2> HIDE DEF Bad
  <2>4. CASE n = 0
    <3>1. Len(p[n]) = 0
      BY <2>4
    <3>2. Fwd(n) /\ Back(n)
      BY <2>4, <3>1
    <3> QED
      BY <2>1, <3>2
  <2>5. CASE n # 0
    <3>1. n \in 1 .. N /\ n - 1 \in 0 .. N
      BY <2>1, <2>5
    <3>2. PICK a, b : a = p[n - 1] /\ b = seqs[n]
      OBVIOUS
    <3>3. a \in Seq(S) /\ b \in Seq(S) /\ p[n] = a \o b
      BY <3>1, <3>2
    <3>4. /\ Len(p[n]) = Len(a) + Len(b) /\ Len(a) \in Nat /\ Len(b) \in Nat
          /\ \A k \in 1 .. Len(a) + Len(b) : p[n][k] = IF k <= Len(a) THEN a[k] ELSE b[k - Len(a)]
      BY <3>3, Concatenation
    <3>5. Fwd(n - 1) /\ Back(n - 1)
      BY <2>3, <2>5
    <3>6. ASSUME NEW k \in 1 .. n, NEW j \in 1 .. Len(seqs[k])
          PROVE  /\ Len(p[k - 1]) + j \in 1 .. Len(p[n])
                 /\ p[n][Len(p[k - 1]) + j] = seqs[k][j]
      <4>1. CASE k = n
        <5>1. j \in 1 .. Len(b) /\ Len(p[k - 1]) = Len(a) /\ seqs[k][j] = b[j]
          BY <4>1, <3>2
        <5>2. Len(a) + j \in 1 .. Len(a) + Len(b) /\ ~ (Len(a) + j <= Len(a)) /\ (Len(a) + j) - Len(a) = j
          <6>1. PICK x \in Nat, y \in Nat : x = Len(a) /\ y = Len(b)
            BY <3>4
          <6>2. j \in 1 .. y
            BY <5>1, <6>1
          <6>3. x + j \in 1 .. x + y /\ ~ (x + j <= x) /\ (x + j) - x = j
            BY <6>2
          <6> QED
            BY <6>1, <6>3
        <5>3. p[n][Len(a) + j] = b[j]
          BY <5>2, <3>4
        <5> QED
          BY <5>1, <5>2, <5>3, <3>4
      <4>2. CASE k # n
        <5>1. k \in 1 .. n - 1
          BY <4>2, <3>1
        <5>2. Len(p[k - 1]) + j \in 1 .. Len(a) /\ a[Len(p[k - 1]) + j] = seqs[k][j]
          BY <5>1, <3>2, <3>5
        <5>3. PICK d : d = Len(p[k - 1]) + j
          OBVIOUS
        <5>4. PICK x \in Nat, y \in Nat : x = Len(a) /\ y = Len(b)
          BY <3>4
        <5>5. d \in 1 .. x /\ d <= x /\ d \in 1 .. x + y
          BY <5>2, <5>3, <5>4
        <5>6. d \in 1 .. Len(p[n]) /\ p[n][d] = a[d]
          BY <5>4, <5>5, <3>4
        <5> QED
          BY <5>2, <5>3, <5>6
      <4> QED
        BY <4>1, <4>2
    <3>7. ASSUME NEW q \in 1 .. Len(p[n])
          PROVE  \E k \in 1 .. n : \E j \in 1 .. Len(seqs[k]) : q = Len(p[k - 1]) + j
      <4>1. CASE q <= Len(a)
        <5>1. q \in 1 .. Len(p[n - 1])
          BY <4>1, <3>2, <3>4
        <5>2. PICK k \in 1 .. n - 1 : \E j \in 1 .. Len(seqs[k]) : q = Len(p[k - 1]) + j
          BY <5>1, <3>5
        <5>3. k \in 1 .. n
          BY <3>1
        <5> QED
          BY <5>2, <5>3
      <4>2. CASE q > Len(a)
        <5>1. q - Len(a) \in 1 .. Len(seqs[n]) /\ q = Len(p[n - 1]) + (q - Len(a)) /\ n \in 1 .. n
          BY <4>2, <3>1, <3>2, <3>4
        <5> QED
          BY <5>1
      <4> QED
        BY <4>1, <4>2, <3>4
    <3>8. Fwd(n) /\ Back(n)
      BY <3>6, <3>7
    <3> QED
      BY <2>1, <3>8
  <2> QED
    BY <2>4, <2>5
<1>2. Bad \subseteq Nat
  OBVIOUS
<1>3. Bad = {}
  <2> HIDE DEF Bad
  <2> QED
    BY <1>1, <1>2, LeastExists
<1>4. \A n \in 0 .. N : Fwd(n) /\ Back(n)
  BY <1>3
<1> QED
  BY <1>4 DEF HasParts

(* Both of them at once.                                                   *)
LEMMA FlattenParts ==
  ASSUME NEW S, NEW N \in Nat, NEW seqs \in [1 .. N -> Seq(S)]
  PROVE  \E p \in [0 .. N -> Seq(S)] :
           Concatenates(p, N, seqs) /\ FlattenSeq(seqs) = p[N] /\ HasParts(p, N, seqs)
<1>1. PICK p \in [0 .. N -> Seq(S)] : Concatenates(p, N, seqs) /\ FlattenSeq(seqs) = p[N]
  BY FlattenIs, ZenonT(20)
<1>2. N \in 0 .. N
  OBVIOUS
<1>3. HasParts(p, N, seqs)
  BY <1>1, <1>2, FlattenElements, ZenonT(20)
<1> QED
  BY <1>1, <1>3, ZenonT(20)

(* Twelve in a row that end before c lie below c,                          *)
LEMMA TwelveBelow ==
  ASSUME NEW a \in Nat, NEW c \in Nat, a + 12 <= c
  PROVE  \A b \in 0 .. 11 : a + b \in 0 .. c - 1 /\ a + b < c
OBVIOUS

(* and multiples of four add up to one.                                    *)
LEMMA FoursAdd ==
  ASSUME NEW a \in Nat, NEW b \in Nat, a % 4 = 0, b % 4 = 0
  PROVE  (a + b) % 4 = 0
OBVIOUS

(* The position SelectInSeq returns, where I are those at which its test   *)
(* holds.                                                                  *)
LEMMA FirstPosition ==
  ASSUME NEW n \in Nat, NEW I, I \subseteq 1 .. n, I # {}
  PROVE  Min(I) \in I /\ \A j \in I : Min(I) <= j
<1>1. I \subseteq Nat
  OBVIOUS
<1>2. PICK m \in I : \A j \in I : m <= j
  BY <1>1, LeastExists
<1> QED
  BY <1>2 DEF Min
=============================================================================
