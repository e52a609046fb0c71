------------------------ MODULE NativeEmulatorProofs ------------------------
(***************************************************************************)
(* Proofs about NativeEmulator: its decoded instructions are fresh, and it *)
(* implements Emulator.                                                    *)
(*                                                                         *)
(* IInv says that the machine and the settings are well-formed, that every *)
(* valid entry lies at the position of its address and is what the memory  *)
(* holds there, and where a chunk is: before its limit and not at the      *)
(* address to halt at, with an entry for the PC when it is to be executed. *)
(*                                                                         *)
(* The first part shows of the operators of Machine that what an           *)
(* instruction reads and computes are words, the second, kind by kind, that*)
(* a handler does to the machine, as the reference sees it, what the       *)
(* reference does, the third the steps.                                    *)
(***************************************************************************)
EXTENDS NativeEmulator, Lemmas

-----------------------------------------------------------------------------
(* The powers of two, and the word they end in (machine.py:16).            *)
LEMMA Powers ==
  /\ Power \in [0 .. WordBits -> Nat \ {0}]
  /\ Power[0] = 1
  /\ \A n \in 0 .. WordBits - 1 : Power[n + 1] = 2 * Power[n]
<1> DEFINE double == [n \in 1 .. WordBits |-> [v \in Nat \ {0} |-> 2 * v]]
<1>1. WordBits \in Nat /\ 1 \in Nat \ {0}
  BY MachineAssumption
<1>2. double \in [1 .. WordBits -> [Nat \ {0} -> Nat \ {0}]]
  OBVIOUS
<1>3. \A f \in [0 .. WordBits -> Nat \ {0}] : Solves(f, WordBits, 1, double) =>
        f = [n \in 0 .. WordBits |-> IF n = 0 THEN 1 ELSE 2 * f[n-1]]
  <2> SUFFICES ASSUME NEW f \in [0 .. WordBits -> Nat \ {0}], Solves(f, WordBits, 1, double)
               PROVE  f = [n \in 0 .. WordBits |-> IF n = 0 THEN 1 ELSE 2 * f[n-1]]
    OBVIOUS
  <2>1. ASSUME NEW n \in 0 .. WordBits, n # 0 PROVE double[n][f[n-1]] = 2 * f[n-1]
    BY <2>1, <1>1
  <2>2. f = [n \in 0 .. WordBits |-> IF n = 0 THEN 1 ELSE double[n][f[n-1]]]
    BY DEF Solves
  <2> HIDE DEF double
  <2> QED
    BY <2>1, <2>2
<1>4. PICK f \in [0 .. WordBits -> Nat \ {0}] : Solves(f, WordBits, 1, double)
  <2> HIDE DEF double
  <2> QED
    BY <1>1, <1>2, RecursionExists
<1>5. f = [n \in 0 .. WordBits |-> IF n = 0 THEN 1 ELSE 2 * f[n-1]]
  BY <1>3, <1>4
<1>6. Power = [n \in 0 .. WordBits |-> IF n = 0 THEN 1 ELSE 2 * Power[n-1]]
  BY <1>5, Zenon DEF Power
<1> DEFINE Bad == {n \in 0 .. WordBits : ~ (Power[n] \in Nat \ {0})}
<1>7. ASSUME NEW n \in Bad, \A j \in Bad : n <= j PROVE FALSE
  <2>1. n \in 0 .. WordBits /\ ~ (Power[n] \in Nat \ {0}) /\ n # 0
    BY <1>6
  <2>2. n - 1 \in 0 .. WordBits /\ ~ (n <= n - 1)
    BY <2>1, <1>1
  <2>3. Power[n - 1] \in Nat \ {0}
    BY <1>7, <2>2
  <2>4. Power[n] = 2 * Power[n - 1]
    BY <2>1, <1>6
  <2> QED
    BY <2>1, <2>3, <2>4
<1>8. Bad = {}
  <2>1. Bad \subseteq Nat
    OBVIOUS
  <2> HIDE DEF Bad
  <2> QED
    BY <2>1, <1>7, LeastExists
<1>9. ASSUME NEW n \in 0 .. WordBits - 1 PROVE Power[n + 1] = 2 * Power[n]
  <2>1. n + 1 \in 0 .. WordBits /\ n + 1 # 0 /\ (n + 1) - 1 = n
    BY <1>1
  <2> QED
    BY <2>1, <1>6
<1>10. Power = [n \in 0 .. WordBits |-> Power[n]]
  BY <1>6
<1>11. Power[0] = 1
  BY <1>1, <1>6
<1> QED
  BY <1>8, <1>9, <1>10, <1>11

(* A word holds more than a byte.                                          *)
LEMMA WordIs ==
  /\ Word \in Nat /\ Word >= 256 /\ WordBits \in Nat
  /\ 0 .. 255 \subseteq Words
<1>1. WordBits \in Nat /\ WordBits >= 16
  BY MachineAssumption
<1>2. /\ Power[1] = 2 * Power[0] /\ Power[2] = 2 * Power[1] /\ Power[3] = 2 * Power[2]
      /\ Power[4] = 2 * Power[3] /\ Power[5] = 2 * Power[4] /\ Power[6] = 2 * Power[5]
      /\ Power[7] = 2 * Power[6] /\ Power[8] = 2 * Power[7]
  <2>1. \A n \in 0 .. 7 : n \in 0 .. WordBits - 1
    BY <1>1
  <2>2. \A n \in 0 .. 7 : Power[n + 1] = 2 * Power[n]
    BY <2>1, Powers
  <2> QED
    BY <2>2
<1>3. Power[8] = 256
  BY <1>2, Powers
<1> DEFINE Small == {n \in Nat : 8 + n <= WordBits /\ ~ (Power[8 + n] >= 256)}
<1>4. ASSUME NEW n \in Small, \A j \in Small : n <= j PROVE FALSE
  <2>1. n \in Nat /\ 8 + n <= WordBits /\ ~ (Power[8 + n] >= 256) /\ n # 0
    BY <1>3
  <2>2. n - 1 \in Nat /\ 8 + (n - 1) <= WordBits /\ ~ (n <= n - 1)
    BY <2>1, <1>1
  <2>3. Power[8 + (n - 1)] >= 256
    BY <1>4, <2>2
  <2>4. 8 + (n - 1) \in 0 .. WordBits - 1 /\ (8 + (n - 1)) + 1 = 8 + n /\ 8 + n \in 0 .. WordBits
    BY <2>1, <2>2, <1>1
  <2>5. Power[8 + n] = 2 * Power[8 + (n - 1)]
    BY <2>4, Powers
  <2>6. Power[8 + (n - 1)] \in Nat
    <3>1. 8 + (n - 1) \in 0 .. WordBits
      BY <2>4, <1>1
    <3> QED
      BY <3>1, Powers
  <2> QED
    BY <2>1, <2>3, <2>5, <2>6
<1>5. Small = {}
  <2>1. Small \subseteq Nat
    OBVIOUS
  <2> HIDE DEF Small
  <2> QED
    BY <2>1, <1>4, LeastExists
<1>6. WordBits - 8 \in Nat /\ 8 + (WordBits - 8) = WordBits
  BY <1>1
<1>7. Power[WordBits] >= 256
  BY <1>5, <1>6
<1>8. Power[WordBits] \in Nat
  BY <1>1, Powers
<1> QED
  BY <1>1, <1>7, <1>8 DEF Word, Words

(* A word is a multiple of every power of two below it.                    *)
LEMMA PowerDivides ==
  ASSUME NEW n \in 0 .. WordBits
  PROVE  \E q \in Nat \ {0} : Word = Power[n] * q
<1> DEFINE Multiple(k) == \E q \in Nat \ {0} : Word = Power[k] * q
           Bad == {k \in 0 .. WordBits : ~ Multiple(WordBits - k)}
<1>1. WordBits \in Nat
  BY WordIs
<1>2. ASSUME NEW k \in Bad, \A j \in Bad : k <= j PROVE FALSE
  <2>1. k \in 0 .. WordBits /\ ~ Multiple(WordBits - k)
    OBVIOUS
  <2>2. k # 0
    <3>1. Word = Power[WordBits] * 1
      BY WordIs DEF Word
    <3>2. Multiple(WordBits - 0)
      BY <3>1, <1>1
    <3> QED
      BY <2>1, <3>2
  <2>3. k - 1 \in 0 .. WordBits /\ ~ (k <= k - 1)
    BY <2>1, <2>2, <1>1
  <2>4. Multiple(WordBits - (k - 1))
    BY <1>2, <2>3
  <2>5. WordBits - k \in 0 .. WordBits - 1 /\ (WordBits - k) + 1 = WordBits - (k - 1)
    BY <2>1, <2>2, <1>1
  <2>6. Power[WordBits - (k - 1)] = 2 * Power[WordBits - k] /\ Power[WordBits - k] \in Nat
    BY <2>5, <1>1, Powers
  <2>7. PICK q \in Nat \ {0} : Word = Power[WordBits - (k - 1)] * q
    BY <2>4
  <2>8. Word = Power[WordBits - k] * (2 * q) /\ 2 * q \in Nat \ {0}
    BY <2>6, <2>7
  <2>9. Multiple(WordBits - k)
    BY <2>8
  <2> QED
    BY <2>1, <2>9
<1>3. Bad = {}
  <2>1. Bad \subseteq Nat
    OBVIOUS
  <2> HIDE DEF Bad
  <2> QED
    BY <2>1, <1>2, LeastExists
<1>4. WordBits - n \in 0 .. WordBits /\ WordBits - (WordBits - n) = n
  BY <1>1
<1>5. Multiple(WordBits - (WordBits - n))
  BY <1>3, <1>4
<1> QED
  BY <1>4, <1>5

-----------------------------------------------------------------------------
(* The numbers WithOnes goes through on its way.                           *)
Horner(S) ==
  CHOOSE f : f = [n \in 0 .. WordBits |->
                    IF n = 0 THEN 0 ELSE 2 * f[n-1] + Truth(WordBits - n \in S)]

(* Bits put together make a word.                                          *)
LEMMA WithOnesIsWord ==
  ASSUME NEW S
  PROVE  WithOnes(S) \in Words
<1> DEFINE bit(n) == Truth(WordBits - n \in S)
           append == [n \in 1 .. WordBits |-> [v \in Nat |-> 2 * v + bit(n)]]
<1>1. WordBits \in Nat /\ 0 \in Nat
  BY WordIs
<1>2. \A n : bit(n) \in 0 .. 1
  BY DEF Truth
<1>3. append \in [1 .. WordBits -> [Nat -> Nat]]
  <2> HIDE DEF bit
  <2>1. \A n \in 1 .. WordBits : \A v \in Nat : 2 * v + bit(n) \in Nat
    BY <1>2
  <2> QED
    BY <2>1
<1>4. PICK f \in [0 .. WordBits -> Nat] : Solves(f, WordBits, 0, append)
  <2> HIDE DEF append
  <2> QED
    BY <1>1, <1>3, RecursionExists
<1>5. f = [n \in 0 .. WordBits |-> IF n = 0 THEN 0 ELSE 2 * f[n-1] + bit(n)]
  <2> HIDE DEF bit
  <2>1. ASSUME NEW n \in 0 .. WordBits, n # 0 PROVE append[n][f[n-1]] = 2 * f[n-1] + bit(n)
    BY <2>1, <1>1
  <2>2. f = [n \in 0 .. WordBits |-> IF n = 0 THEN 0 ELSE append[n][f[n-1]]]
    BY <1>4 DEF Solves
  <2> HIDE DEF append
  <2> QED
    BY <2>1, <2>2
<1> DEFINE g == Horner(S)
<1>6. g = [n \in 0 .. WordBits |-> IF n = 0 THEN 0 ELSE 2 * g[n-1] + bit(n)]
  BY <1>5, Zenon DEF Horner
<1>7. WithOnes(S) = g[WordBits]
  BY Zenon DEF WithOnes, Horner
<1> HIDE DEF g, bit
<1> DEFINE Bad == {n \in 0 .. WordBits : ~ (g[n] \in 0 .. Power[n] - 1)}
<1>8. ASSUME NEW n \in Bad, \A j \in Bad : n <= j PROVE FALSE
  <2>1. n \in 0 .. WordBits /\ ~ (g[n] \in 0 .. Power[n] - 1)
    OBVIOUS
  <2>2. n # 0
    <3>1. g[0] = 0 /\ 0 \in 0 .. Power[0] - 1
      BY <1>1, <1>6, Powers
    <3> QED
      BY <2>1, <3>1
  <2>3. n - 1 \in 0 .. WordBits /\ ~ (n <= n - 1) /\ n - 1 \in 0 .. WordBits - 1 /\ (n - 1) + 1 = n
    BY <2>1, <2>2, <1>1
  <2>4. g[n - 1] \in 0 .. Power[n - 1] - 1
    BY <1>8, <2>3
  <2>5. g[n] = 2 * g[n - 1] + bit(n)
    BY <2>1, <2>2, <1>6
  <2>6. Power[n] = 2 * Power[n - 1] /\ Power[n - 1] \in Nat
    BY <2>3, Powers
  <2>7. bit(n) \in 0 .. 1
    BY <1>2
  <2>8. ASSUME NEW p \in Nat, NEW x \in 0 .. p - 1, NEW y \in 0 .. 1
        PROVE  2 * x + y \in 0 .. 2 * p - 1
    OBVIOUS
  <2>9. 2 * g[n - 1] + bit(n) \in 0 .. 2 * Power[n - 1] - 1
    BY <2>4, <2>6, <2>7, <2>8
  <2> HIDE DEF Bad
  <2> QED
    BY <2>1, <2>5, <2>6, <2>9, Zenon
<1>9. Bad = {}
  <2>1. Bad \subseteq Nat
    OBVIOUS
  <2> HIDE DEF Bad
  <2> QED
    BY <2>1, <1>8, LeastExists
<1>10. g[WordBits] \in 0 .. Power[WordBits] - 1
  BY <1>9, <1>1
<1> QED
  BY <1>7, <1>10 DEF Words, Word

(* A word shifted right is a word, and is zero when nothing is left.       *)
LEMMA ShiftedRightIs ==
  ASSUME NEW a \in Words, NEW n \in 0 .. WordBits
  PROVE  /\ ShiftedRight(a, n) \in Words
         /\ ShiftedRight(Word, n) \in 1 .. Word
         /\ ShiftedRight(a, n) < ShiftedRight(Word, n)
         /\ n = WordBits => ShiftedRight(a, n) = 0 /\ ShiftedRight(Word, n) = 1
<1> DEFINE p == Power[n]
<1>1. a \in Nat /\ a < Word /\ Word \in Nat /\ p \in Nat \ {0} /\ WordBits \in Nat
  BY WordIs, Powers DEF Words
<1>2. PICK q \in Nat \ {0} : Word = p * q
  BY PowerDivides
<1> HIDE DEF p
<1>3. 0 \in 0 .. p - 1 /\ Word = p * q + 0
  BY <1>1, <1>2
<1>4. Word \div p = q
  BY <1>1, <1>3, DivModIs
<1>5. a % p \in 0 .. p - 1 /\ a \div p \in Int /\ a = p * (a \div p) + (a % p)
  BY <1>1, DivMod
<1> DEFINE r == a \div p
<1>6. r \in Int /\ a = p * r + (a % p)
  BY <1>5
<1> HIDE DEF r
<1>7. r >= 0
  <2>1. ASSUME r <= - 1 PROVE FALSE
    <3>1. p * (- 1 - r) >= 0
      BY <2>1, <1>1, <1>6
    <3>2. p * (- 1 - r) = - p - p * r
      BY <1>1, <1>6
    <3> QED
      BY <3>1, <3>2, <1>1, <1>5, <1>6
  <2> QED
    BY <2>1, <1>6
<1>8. r < q
  <2>1. ASSUME r >= q PROVE FALSE
    <3>1. p * (r - q) >= 0
      BY <2>1, <1>1, <1>2, <1>6
    <3>2. p * (r - q) = p * r - p * q
      BY <1>1, <1>2, <1>6
    <3> QED
      BY <3>1, <3>2, <1>1, <1>2, <1>5, <1>6
  <2> QED
    BY <2>1, <1>2, <1>6
<1>9. r <= a /\ q <= Word
  <2>1. p * r >= r
    BY <1>1, <1>6, <1>7
  <2>2. p * q >= q
    BY <1>1, <1>2
  <2> QED
    BY <2>1, <2>2, <1>1, <1>2, <1>5, <1>6
<1>10. ShiftedRight(a, n) = r /\ ShiftedRight(Word, n) = q
  BY <1>4 DEF ShiftedRight, p, r
<1>11. n = WordBits => q = 1
  <2> SUFFICES ASSUME n = WordBits PROVE q = 1
    OBVIOUS
  <2>1. p = Word
    BY DEF p, Word
  <2>2. Word = p * 1 + 0
    BY <2>1, <1>1
  <2>3. 1 \in Int
    OBVIOUS
  <2>4. Word \div p = 1
    BY <2>2, <2>3, <1>1, <1>3, DivModIs
  <2> QED
    BY <2>4, <1>4
<1> QED
  BY <1>1, <1>2, <1>6, <1>7, <1>8, <1>9, <1>10, <1>11 DEF Words

(* The three bits of a comparison.                                         *)
LEMMA FlagsIsWord ==
  ASSUME NEW a, NEW b
  PROVE  Flags(a, b) \in Words
<1>1. \A P : Truth(P) \in 0 .. 1
  BY DEF Truth
<1> DEFINE x == Truth(a = b)
           y == Truth(a < b)
           z == Truth(IF Negative(a) = Negative(b) THEN a < b ELSE Negative(a))
<1>2. x \in 0 .. 1 /\ y \in 0 .. 1 /\ z \in 0 .. 1
  BY <1>1
<1>3. Flags(a, b) = x + 2 * y + 4 * z
  BY DEF Flags
<1> HIDE DEF x, y, z
<1>4. Flags(a, b) \in 0 .. 255
  BY <1>2, <1>3
<1> QED
  BY <1>4, WordIs

(* An arithmetic shift.                                                    *)
LEMMA SarIs ==
  ASSUME NEW a \in Words, NEW n \in Words
  PROVE  Sar(a, n) \in Words /\ Sar32(a, n) = Sar(a, n)
<1>1. /\ WordBits \in Nat /\ Word \in Nat /\ Word >= 256 /\ n \in Nat /\ WordBits \in 0 .. WordBits
  BY WordIs DEF Words
<1> DEFINE places == IF n < WordBits THEN n ELSE WordBits
<1>2. places \in 0 .. WordBits
  BY <1>1
<1> DEFINE r == ShiftedRight(a, places)
           q == ShiftedRight(Word, places)
<1>3. /\ r \in Words /\ q \in 1 .. Word /\ r < q
      /\ places = WordBits => r = 0 /\ q = 1
  <2> HIDE DEF places
  <2> QED
    BY <1>2, ShiftedRightIs
<1>4. Sar(a, n) = r + (IF Negative(a) THEN Word - q ELSE 0)
  BY DEF Sar
<1> HIDE DEF r, q
<1>5. Sar(a, n) \in Words
  BY <1>1, <1>3, <1>4 DEF Words
<1>6. n >= WordBits => Sar(a, n) = IF Negative(a) THEN Word - 1 ELSE 0
  <2>1. n >= WordBits => places = WordBits
    BY <1>1
  <2> HIDE DEF places
  <2> QED
    BY <2>1, <1>1, <1>3, <1>4
<1> QED
  BY <1>5, <1>6 DEF Sar32

(* Arithmetic takes words to words, and the native emulator computes what  *)
(* the reference does, arithmetic shifts by too much included              *)
(* (native_emulator.c:629-633, machine.py:173-185).                        *)
LEMMA ComputedIs ==
  ASSUME NEW code \in 0 .. 10, NEW a \in Words, NEW b \in Words
  PROVE  Operation(code, a, b) \in Words /\ Computed(code, a, b) = Operation(code, a, b)
<1>1. Word \in Nat /\ Word >= 256 /\ WordBits \in Nat /\ a \in Nat /\ b \in Nat /\ b < Word
  BY WordIs DEF Words
<1>2. \A S : WithOnes(S) \in Words
  BY WithOnesIsWord
<1>3. And(a, b) \in Words /\ Or(a, b) \in Words
  BY <1>2 DEF And, Or
<1>4. \A x \in Words : Word - 1 - x \in Words
  BY <1>1 DEF Words
<1>5. \A x \in Int : x % Word \in Words
  BY <1>1, DivMod DEF Words
<1>6. b < WordBits => Power[b] \in Nat
  BY <1>1, Powers
<1>7. Operation(code, a, b) \in Words
  <2>1. CASE code = 0
    BY <2>1, <1>3, <1>4 DEF Operation
  <2>2. CASE code = 1
    BY <2>2, <1>3 DEF Operation
  <2>3. CASE code = 2
    BY <2>3, <1>3 DEF Operation
  <2>4. CASE code = 3
    BY <2>4, <1>3, <1>4 DEF Operation
  <2>5. CASE code = 4
    BY <2>5, <1>1, <1>5 DEF Operation
  <2>6. CASE code = 5
    BY <2>6, <1>1, <1>5 DEF Operation
  <2>7. CASE code = 6
    BY <2>7, <1>2 DEF Operation
  <2>8. CASE code = 7
    <3>1. b < WordBits => (a * Power[b]) % Word \in Words
      BY <1>1, <1>5, <1>6
    <3>2. 0 \in Words
      BY <1>1 DEF Words
    <3> QED
      BY <2>8, <3>1, <3>2 DEF Operation
  <2>9. CASE code = 8
    <3>1. b < WordBits => ShiftedRight(a, b) \in Words
      BY <1>1, ShiftedRightIs
    <3>2. 0 \in Words
      BY <1>1 DEF Words
    <3> QED
      BY <2>9, <3>1, <3>2 DEF Operation
  <2>10. CASE code = 9
    BY <2>10, SarIs DEF Operation
  <2>11. CASE code = 10
    BY <2>11, FlagsIsWord DEF Operation
  <2> QED
    BY <2>1, <2>2, <2>3, <2>4, <2>5, <2>6, <2>7, <2>8, <2>9, <2>10, <2>11
<1>8. Computed(code, a, b) = Operation(code, a, b)
  <2>1. CASE code = 9
    BY <2>1, SarIs DEF Computed, Operation
  <2>2. CASE code # 9
    BY <2>2 DEF Computed
  <2> QED
    BY <2>1, <2>2
<1> QED
  BY <1>7, <1>8

-----------------------------------------------------------------------------
Length(memory) == Cardinality(DOMAIN memory)

(* Addresses wrap into a memory that has room.                             *)
LEMMA Wraps ==
  ASSUME NEW f, IsMemory(f), DOMAIN f # {}, NEW a \in Int
  PROVE  /\ Length(f) \in Nat \ {0} /\ DOMAIN f = 0 .. Length(f) - 1
         /\ a % Length(f) \in DOMAIN f /\ f[a % Length(f)] \in 0 .. 255
<1>1. Length(f) \in Nat /\ f \in [0 .. Length(f) - 1 -> 0 .. 255]
  BY DEF IsMemory, Length
<1>2. DOMAIN f = 0 .. Length(f) - 1
  BY <1>1
<1>3. Length(f) # 0
  BY <1>2
<1>4. a % Length(f) \in 0 .. Length(f) - 1
  BY <1>1, <1>3, DivMod
<1> QED
  BY <1>1, <1>2, <1>3, <1>4

(* What is read is a byte or a word.                                       *)
LEMMA BytesAre ==
  ASSUME NEW f, IsMemory(f), DOMAIN f # {}, NEW a \in Nat
  PROVE  /\ Bytes(f, a, 1) \in 0 .. 255
         /\ Bytes(f, a, 2) \in Words
         /\ Bytes(f, a, 4) \in Words
<1> DEFINE at(n) == f[(a + n) % Cardinality(DOMAIN f)]
           joined(v, n) == (v * 256 + at(n)) % Word
<1>1. \A n \in 0 .. 3 : at(n) \in 0 .. 255
  <2>1. \A n \in 0 .. 3 : a + n \in Int
    OBVIOUS
  <2> QED
    BY <2>1, Wraps DEF Length
<1>2. Word \in Nat \ {0}
  BY WordIs
<1> HIDE DEF at
<1>3. \A v \in Nat : \A n \in 0 .. 3 : joined(v, n) \in Words /\ joined(v, n) \in Nat
  <2>1. ASSUME NEW v \in Nat, NEW n \in 0 .. 3 PROVE joined(v, n) \in 0 .. Word - 1
    <3>1. v * 256 + at(n) \in Int
      BY <1>1
    <3> QED
      BY <3>1, <1>2, DivMod
  <2> QED
    BY <2>1, <1>2 DEF Words
<1>4. at(0) \in 0 .. 255 /\ at(0) \in Nat
  BY <1>1
<1>5. /\ Bytes(f, a, 1) = at(0)
      /\ Bytes(f, a, 2) = joined(at(0), 1)
      /\ Bytes(f, a, 4) = joined(joined(joined(at(0), 1), 2), 3)
  BY DEF Bytes, at
<1> HIDE DEF joined
<1>6. joined(at(0), 1) \in Words /\ joined(at(0), 1) \in Nat
  BY <1>3, <1>4
<1>7. joined(joined(at(0), 1), 2) \in Nat
  BY <1>3, <1>6
<1>8. joined(joined(joined(at(0), 1), 2), 3) \in Words
  BY <1>3, <1>7
<1> QED
  BY <1>4, <1>5, <1>6, <1>8

(* The same bytes at the addresses read are read as the same.              *)
LEMMA BytesSame ==
  ASSUME NEW f, NEW g, DOMAIN f = DOMAIN g, NEW a, NEW size \in {1, 2, 4},
         \A n \in 0 .. size - 1 : f[(a + n) % Length(f)] = g[(a + n) % Length(f)]
  PROVE  Bytes(f, a, size) = Bytes(g, a, size)
<1>1. Length(f) = Length(g)
  BY DEF Length
<1> DEFINE fAt(n) == f[(a + n) % Length(f)]
           gAt(n) == g[(a + n) % Length(f)]
<1>2. \A n \in 0 .. size - 1 : fAt(n) = gAt(n)
  OBVIOUS
<1>3. Bytes(f, a, size) =
        CASE size = 1 -> fAt(0)
          [] size = 2 -> (fAt(0) * 256 + fAt(1)) % Word
          [] size = 4 -> (((((fAt(0) * 256 + fAt(1)) % Word) * 256 + fAt(2)) % Word) * 256 + fAt(3)) % Word
  BY DEF Bytes, Length
<1>4. Bytes(g, a, size) =
        CASE size = 1 -> gAt(0)
          [] size = 2 -> (gAt(0) * 256 + gAt(1)) % Word
          [] size = 4 -> (((((gAt(0) * 256 + gAt(1)) % Word) * 256 + gAt(2)) % Word) * 256 + gAt(3)) % Word
  BY <1>1 DEF Bytes, Length
<1> HIDE DEF fAt, gAt
<1>5. CASE size = 1
  <2>1. fAt(0) = gAt(0)
    BY <1>2, <1>5
  <2> QED
    BY <2>1, <1>3, <1>4, <1>5
<1>6. CASE size = 2
  <2>1. fAt(0) = gAt(0) /\ fAt(1) = gAt(1)
    BY <1>2, <1>6
  <2> QED
    BY <2>1, <1>3, <1>4, <1>6
<1>7. CASE size = 4
  <2>1. fAt(0) = gAt(0) /\ fAt(1) = gAt(1) /\ fAt(2) = gAt(2) /\ fAt(3) = gAt(3)
    BY <1>2, <1>7
  <2> QED
    BY <2>1, <1>3, <1>4, <1>7
<1> QED
  BY <1>5, <1>6, <1>7

(* How far behind address a the position q of a memory lies.               *)
Place(f, a, q) == (q + Length(f) - (a % Length(f))) % Length(f)

(* A store leaves a memory, of the same size, and changes only the bytes it*)
(* was told to.                                                            *)
LEMMA StoredIs ==
  ASSUME NEW f, IsMemory(f), DOMAIN f # {}, NEW a \in Nat, NEW v \in Words,
         NEW size \in {1, 2, 4}
  PROVE  /\ IsMemory(Stored(f, a, v, size))
         /\ DOMAIN Stored(f, a, v, size) = DOMAIN f
         /\ \A q \in DOMAIN f : Place(f, a, q) >= size => Stored(f, a, v, size)[q] = f[q]
<1> DEFINE g == Stored(f, a, v, size)
           byte(k) == (v \div 256 ^ k) % 256
<1>1. /\ Length(f) \in Nat \ {0} /\ DOMAIN f = 0 .. Length(f) - 1
      /\ f \in [0 .. Length(f) - 1 -> 0 .. 255] /\ v \in Nat
  BY Wraps, WordIs DEF IsMemory, Length, Words
<1>2. \A q \in DOMAIN f : Place(f, a, q) \in Nat
  <2>1. ASSUME NEW q \in DOMAIN f PROVE Place(f, a, q) \in Nat
    <3>1. a % Length(f) \in Int
      BY <1>1, DivMod
    <3> DEFINE x == q + Length(f) - (a % Length(f))
    <3>2. x \in Int
      BY <3>1, <1>1
    <3>3. Place(f, a, q) = x % Length(f)
      BY DEF Place
    <3> HIDE DEF x
    <3>4. x % Length(f) \in 0 .. Length(f) - 1
      BY <3>2, <1>1, DivMod
    <3> QED
      BY <3>3, <3>4, <1>1
  <2> QED
    BY <2>1
<1>3. g = [q \in DOMAIN f |->
             IF Place(f, a, q) < size THEN byte(size - 1 - Place(f, a, q)) ELSE f[q]]
  BY DEF Stored, Place, Length
<1>4. \A k \in 0 .. 3 : byte(k) \in 0 .. 255
  <2>1. byte(0) \in 0 .. 255
    BY <1>1
  <2>2. byte(1) \in 0 .. 255
    BY <1>1
  <2>3. byte(2) \in 0 .. 255
    BY <1>1
  <2>4. byte(3) \in 0 .. 255
    BY <1>1
  <2> HIDE DEF byte
  <2> SUFFICES ASSUME NEW k \in 0 .. 3 PROVE byte(k) \in 0 .. 255
    OBVIOUS
  <2>5. k = 0 \/ k = 1 \/ k = 2 \/ k = 3
    OBVIOUS
  <2> QED
    BY <2>1, <2>2, <2>3, <2>4, <2>5
<1> HIDE DEF g, byte
<1>5. \A q \in DOMAIN f : g[q] \in 0 .. 255
  <2> SUFFICES ASSUME NEW q \in DOMAIN f PROVE g[q] \in 0 .. 255
    OBVIOUS
  <2>1. ASSUME Place(f, a, q) < size PROVE size - 1 - Place(f, a, q) \in 0 .. 3
    BY <2>1, <1>2
  <2>2. g[q] = IF Place(f, a, q) < size THEN byte(size - 1 - Place(f, a, q)) ELSE f[q]
    BY <1>3
  <2>3. f[q] \in 0 .. 255
    BY <1>1
  <2>4. Place(f, a, q) < size => byte(size - 1 - Place(f, a, q)) \in 0 .. 255
    BY <2>1, <1>4
  <2> QED
    BY <2>2, <2>3, <2>4
<1>6. DOMAIN g = DOMAIN f /\ g = [q \in DOMAIN f |-> g[q]]
  BY <1>3
<1>7. IsMemory(g)
  <2>1. Length(g) = Length(f)
    BY <1>6 DEF Length
  <2>2. g \in [0 .. Length(f) - 1 -> 0 .. 255]
    <3>1. DOMAIN f = 0 .. Length(f) - 1
      BY <1>1
    <3> QED
      BY <3>1, <1>5, <1>6
  <2> QED
    BY <2>1, <2>2, <1>1 DEF IsMemory, Length
<1>8. \A q \in DOMAIN f : Place(f, a, q) >= size => g[q] = f[q]
  BY <1>2, <1>3
<1> QED
  BY <1>6, <1>7, <1>8 DEF g

-----------------------------------------------------------------------------
(* The names of what the decoder reads at an address.                      *)
Op(pc) == Bytes(machine.memory, pc, 1)
Pair(pc) == Bytes(machine.memory, pc + 1, 1)
Third(pc) == Bytes(machine.memory, pc + 2, 1)
Wide(pc) == Bytes(machine.memory, pc + 2, 2)

Entry(pc, uop, a, b, size) ==
  [valid |-> TRUE, tag |-> pc, uop |-> uop, a |-> a, b |-> b,
   immediate |-> size = 4, c |-> Third(pc) % 16, imm |-> Wide(pc), next |-> Next4(pc, size)]

Long(pc) == IF Immediate(Op(pc)) THEN 4 ELSE 3

(* Each kind of instruction and what is decoded of it                      *)
(* (native_emulator.c:506-613).                                            *)
LEMMA DecodedIs ==
  ASSUME NEW pc \in Nat
  PROVE  LET op == Op(pc)
             d == Decoded(pc)
             target == Destination(Pair(pc) \div 16)
             source == Pair(pc) % 16
         IN  /\ op = 0 => d = Entry(pc, <<"nop">>, 0, 0, 1)
             /\ op = 1 => d = Entry(pc, <<"in">>, target, 0, 2)
             /\ op \in {2, 18} => d = Entry(pc, <<"out">>, 0, 0, Long(pc))
             /\ op = 3 => d = Entry(pc, <<"key">>, target, 0, 2)
             /\ op \in {4, 20} => d = Entry(pc, <<ScreenOp>>, source, 0, Long(pc))
             /\ op \in {5, 6} => d = Entry(pc, <<"time", TimeOp, op - 5>>, target, 0, 2)
             /\ op = 7 => d = Entry(pc, <<"getpc">>, target, 0, 2)
             /\ Arithmetic(op) => d = Entry(pc, <<"alu", op % 16>>, target, source, Long(pc))
             /\ Jump(op) => d = Entry(pc, <<"branch">>, source, op % 16, Long(pc))
             /\ Access(op) =>
                  d = Entry(pc, <<"access", op % 8>>,
                            IF op % 8 < 4 THEN target ELSE source, 0, Long(pc))
             /\ ~ Known(op) => d = Entry(pc, <<"invalid">>, 0, 0, 1)
<1> DEFINE op == Op(pc)
           d == Decoded(pc)
           target == Destination(Pair(pc) \div 16)
           source == Pair(pc) % 16
<1>1. d = CASE op = 0 -> Entry(pc, <<"nop">>, 0, 0, 1)
            [] op = 1 -> Entry(pc, <<"in">>, target, 0, 2)
            [] op \in {2, 18} -> Entry(pc, <<"out">>, 0, 0, Long(pc))
            [] op = 3 -> Entry(pc, <<"key">>, target, 0, 2)
            [] op \in {4, 20} -> Entry(pc, <<ScreenOp>>, source, 0, Long(pc))
            [] op \in {5, 6} -> Entry(pc, <<"time", TimeOp, op - 5>>, target, 0, 2)
            [] op = 7 -> Entry(pc, <<"getpc">>, target, 0, 2)
            [] op \in 32 .. 58 /\ op % 16 <= 10 ->
                 Entry(pc, <<"alu", op % 16>>, target, source, Long(pc))
            [] op \in 64 .. 95 -> Entry(pc, <<"branch">>, source, op % 16, Long(pc))
            [] op \in 96 .. 119 ->
                 Entry(pc, <<"access", op % 8>>,
                       IF op % 8 < 4 THEN target ELSE source, 0, Long(pc))
            [] OTHER -> Entry(pc, <<"invalid">>, 0, 0, 1)
  <2>1. pc + 0 = pc
    OBVIOUS
  <2> QED
    BY <2>1 DEF Decoded, Entry, Op, Pair, Third, Wide, Long
<1> HIDE DEF op, d, target, source
<1>2. /\ op = 0 => d = Entry(pc, <<"nop">>, 0, 0, 1)
      /\ op = 1 => d = Entry(pc, <<"in">>, target, 0, 2)
      /\ op \in {2, 18} => d = Entry(pc, <<"out">>, 0, 0, Long(pc))
      /\ op = 3 => d = Entry(pc, <<"key">>, target, 0, 2)
      /\ op \in {4, 20} => d = Entry(pc, <<ScreenOp>>, source, 0, Long(pc))
      /\ op \in {5, 6} => d = Entry(pc, <<"time", TimeOp, op - 5>>, target, 0, 2)
      /\ op = 7 => d = Entry(pc, <<"getpc">>, target, 0, 2)
  BY <1>1
<1>3. /\ Arithmetic(op) => d = Entry(pc, <<"alu", op % 16>>, target, source, Long(pc))
      /\ Jump(op) => d = Entry(pc, <<"branch">>, source, op % 16, Long(pc))
      /\ Access(op) =>
           d = Entry(pc, <<"access", op % 8>>,
                     IF op % 8 < 4 THEN target ELSE source, 0, Long(pc))
  BY <1>1 DEF Arithmetic, Jump, Access
<1>4. ~ Known(op) => d = Entry(pc, <<"invalid">>, 0, 0, 1)
  BY <1>1 DEF Known, Arithmetic, Jump, Access
<1> QED
  BY <1>2, <1>3, <1>4 DEF op, d, target, source

-----------------------------------------------------------------------------
IsSettings(c) ==
  /\ c.symphony \in BOOLEAN /\ c.callback \in BOOLEAN
  /\ c.halt \in Nat /\ c.limit \in Nat /\ c.interval \in Nat
  /\ c.clock.value \in Nat /\ c.clock.perStep \in Nat /\ c.clock.frequency \in Nat

(* A valid entry lies at its address and is what is in memory there.       *)
FreshEntry(p) ==
  table[p].valid =>
    /\ table[p].tag \in Words
    /\ table[p].tag % Length(machine.memory) = p
    /\ table[p] = Decoded(table[p].tag)

Fresh ==
  /\ table = [p \in Positions |-> table[p]]
  /\ \A p \in Positions : FreshEntry(p)

(* Where a chunk is.                                                       *)
Phases ==
  /\ phase \in {"between", "fetch", "dispatch", "returned", "limit", "raised"}
  /\ bound \in Nat /\ bound <= settings.limit
  /\ phase \in {"fetch", "dispatch"} => machine.steps < bound /\ machine.pc # settings.halt
  /\ phase = "dispatch" => table[Here].valid /\ table[Here].tag = machine.pc

IInv ==
  /\ IsMachine(machine, Sink)
  /\ IsSettings(settings)
  /\ Fresh
  /\ Phases

(* The position an address is decoded at.                                  *)
LEMMA HereIs ==
  ASSUME IsMachine(machine, Sink)
  PROVE  /\ Length(machine.memory) \in Nat \ {0}
         /\ Positions = 0 .. Length(machine.memory) - 1
         /\ Here = machine.pc % Length(machine.memory) /\ Here \in Positions
<1>1. IsMemory(machine.memory) /\ DOMAIN machine.memory # {} /\ machine.pc \in Words
  BY DEF IsMachine
<1>2. machine.pc \in Int
  BY <1>1, WordIs DEF Words
<1> QED
  BY <1>1, <1>2, Wraps DEF Here, Positions, Length

(* In a memory of L bytes, byte n of the instruction at tag is one of those*)
(* a store writes at a, and the store clears the entry of tag.             *)
Reaches(L, tag, n, a, size) == (((tag + n) % L) + L - (a % L)) % L < size

Clears(L, tag, a, size) ==
  \E delta \in 1 .. size + 3 : (a + delta + L - 4) % L = tag % L

LEMMA OverlapFound ==
  ASSUME NEW L \in Nat \ {0}, NEW tag \in Nat, NEW n \in 0 .. 3, NEW a \in Nat,
         NEW size \in {1, 2, 4}, Reaches(L, tag, n, a, size)
  PROVE  Clears(L, tag, a, size)
<1> DEFINE p == tag + n
           q == p % L
           b == a % L
<1>0. p \in Int
  OBVIOUS
<1>1. q \in Nat /\ b \in Nat
  BY DivMod
<1>2. PICK k \in Int : p = L * k + q
  <2> HIDE DEF p
  <2> QED
    BY <1>0, Quotient, Zenon
<1>3. PICK j \in Int : a = L * j + b
  <2>1. a \in Int
    OBVIOUS
  <2> QED
    BY <2>1, Quotient, Zenon
<1> DEFINE x == q + L - b
           i == x % L
<1>4. x \in Int
  BY <1>1
<1> HIDE DEF q, b
<1>5. i \in Nat /\ \E m \in Int : x = L * m + i
  <2> HIDE DEF x
  <2> QED
    BY <1>4, Quotient, Zenon
<1>6. PICK m \in Int : x = L * m + i
  BY <1>5
<1>7. i < size
  BY DEF Reaches, q, b
<1> HIDE DEF i
<1> DEFINE delta == 4 + i - n
<1>8. delta \in 1 .. size + 3
  BY <1>5, <1>7
<1>9. a + delta + L - 4 = tag + L * (j - k - m + 2)
  <2>1. i = q + L - b - L * m
    BY <1>1, <1>5, <1>6
  <2>2. L * (j - k - m + 2) = L * j - L * k - L * m + L + L
    OBVIOUS
  <2>3. L * j \in Int /\ L * k \in Int /\ L * m \in Int
    OBVIOUS
  <2> HIDE DEF x
  <2> QED
    BY <1>1, <1>2, <1>3, <1>5, <2>1, <2>2, <2>3
<1>10. j - k - m + 2 \in Int /\ a + delta + L - 4 \in Int /\ tag \in Int
  BY <1>8
<1> DEFINE y == a + delta + L - 4
           z == j - k - m + 2
<1>11. y = tag + L * z /\ z \in Int /\ y \in Int /\ tag \in Int
  BY <1>9, <1>10
<1>12. y % L = tag % L
  <2> HIDE DEF y, z
  <2> QED
    BY <1>11, ModMultiple
<1> QED
  BY <1>8, <1>12 DEF Clears

(* The decoder reads four bytes.                                           *)
LEMMA DecodedSame ==
  ASSUME NEW pc \in Nat, UNCHANGED settings, DOMAIN machine.memory = DOMAIN machine'.memory,
         \A n \in 0 .. 3 : machine.memory[(pc + n) % Length(machine.memory)] =
                           machine'.memory[(pc + n) % Length(machine.memory)]
  PROVE  Decoded(pc)' = Decoded(pc)
<1> DEFINE f == machine.memory
           g == machine'.memory
<1>1. ASSUME NEW k \in 0 .. 2, NEW size \in {1, 2}, k + size <= 4
      PROVE  Bytes(f, pc + k, size) = Bytes(g, pc + k, size)
  <2>1. \A n \in 0 .. size - 1 : f[((pc + k) + n) % Length(f)] = g[((pc + k) + n) % Length(f)]
    <3> SUFFICES ASSUME NEW n \in 0 .. size - 1
                 PROVE  f[((pc + k) + n) % Length(f)] = g[((pc + k) + n) % Length(f)]
      OBVIOUS
    <3>1. (pc + k) + n = pc + (k + n) /\ k + n \in 0 .. 3
      BY <1>1
    <3> QED
      BY <3>1
  <2> HIDE DEF f, g
  <2>2. DOMAIN f = DOMAIN g
    BY DEF f, g
  <2>3. size \in {1, 2, 4}
    OBVIOUS
  <2> QED
    BY <2>1, <2>2, <2>3, BytesSame
<1> HIDE DEF f, g
<1>2. /\ Bytes(f, pc + 0, 1) = Bytes(g, pc + 0, 1)
      /\ Bytes(f, pc + 1, 1) = Bytes(g, pc + 1, 1)
      /\ Bytes(f, pc + 2, 1) = Bytes(g, pc + 2, 1)
      /\ Bytes(f, pc + 2, 2) = Bytes(g, pc + 2, 2)
  BY <1>1
<1> QED
  BY <1>2, Zenon DEF f, g, Decoded, Next4, ScreenOp, TimeOp

-----------------------------------------------------------------------------
(* The machine as the reference sees it: without the sink.                 *)
View(m) == [m EXCEPT !.regs = [r \in 0 .. 15 |-> @[r]]]

FieldNames ==
  {"memory", "persistent", "regs", "pc", "steps", "inputs", "keys", "outputs", "screen"}

(* A machine is the record of its fields.                                  *)
SameFields(m, n) ==
  /\ m.memory = n.memory /\ m.persistent = n.persistent /\ m.regs = n.regs
  /\ m.pc = n.pc /\ m.steps = n.steps /\ m.inputs = n.inputs /\ m.keys = n.keys
  /\ m.outputs = n.outputs /\ m.screen = n.screen

LEMMA Extensional ==
  ASSUME NEW m, NEW n, m = [f \in FieldNames |-> m[f]], n = [f \in FieldNames |-> n[f]],
         SameFields(m, n)
  PROVE  m = n
<1>1. \A f \in FieldNames : m[f] = n[f]
  BY DEF SameFields, FieldNames
<1> QED
  BY <1>1

LEMMA MachineHasFields ==
  ASSUME NEW m, NEW n, IsMachine(m, n)
  PROVE  /\ m = [f \in FieldNames |-> m[f]]
         /\ m.regs \in [0 .. n -> Words] /\ m.pc \in Words /\ m.steps \in Nat
         /\ m.inputs \in Seq(Words) /\ m.keys \in Seq(Words)
         /\ m.outputs \in Seq(Words) /\ m.screen \in Seq(Words \X Words)
         /\ IsMemory(m.memory) /\ DOMAIN m.memory # {} /\ IsMemory(m.persistent)
         /\ m.regs[0] = 0
BY DEF IsMachine, FieldNames

LEMMA FieldsMakeMachine ==
  ASSUME NEW m, NEW n,
         m = [f \in FieldNames |-> m[f]],
         m.regs \in [0 .. n -> Words], m.pc \in Words, m.steps \in Nat,
         m.inputs \in Seq(Words), m.keys \in Seq(Words),
         m.outputs \in Seq(Words), m.screen \in Seq(Words \X Words),
         IsMemory(m.memory), DOMAIN m.memory # {}, IsMemory(m.persistent),
         m.regs[0] = 0
  PROVE  IsMachine(m, n)
BY DEF IsMachine, FieldNames

(* An update of one field keeps the others.                                *)
LEMMA UpdateIs ==
  ASSUME NEW m, m = [f \in FieldNames |-> m[f]], NEW name \in FieldNames, NEW x
  PROVE  LET n == [m EXCEPT ![name] = x]
         IN  /\ n = [f \in FieldNames |-> n[f]]
             /\ n[name] = x
             /\ \A f \in FieldNames : f # name => n[f] = m[f]
<1>1. DOMAIN m = FieldNames
  OBVIOUS
<1> QED
  BY <1>1

LEMMA ViewIs ==
  ASSUME NEW m, m = [f \in FieldNames |-> m[f]]
  PROVE  /\ View(m) = [f \in FieldNames |-> View(m)[f]]
         /\ View(m).regs = [r \in 0 .. 15 |-> m.regs[r]]
         /\ View(m).memory = m.memory /\ View(m).persistent = m.persistent
         /\ View(m).pc = m.pc /\ View(m).steps = m.steps
         /\ View(m).inputs = m.inputs /\ View(m).keys = m.keys
         /\ View(m).outputs = m.outputs /\ View(m).screen = m.screen
<1>1. DOMAIN m = FieldNames
  OBVIOUS
<1> QED
  BY <1>1 DEF View, FieldNames

(* Writing a register, where a write to zr goes to the sink                *)
(* (native_emulator.c:501-504).                                            *)
LEMMA PutIs ==
  ASSUME IsMachine(machine, Sink), NEW r \in 0 .. 15, NEW v \in Words
  PROVE  LET m == Put(Destination(r), v)
         IN  /\ IsMachine(m, Sink)
             /\ m.memory = machine.memory /\ m.persistent = machine.persistent
             /\ m.pc = machine.pc /\ m.steps = machine.steps
             /\ m.inputs = machine.inputs /\ m.keys = machine.keys
             /\ m.outputs = machine.outputs /\ m.screen = machine.screen
             /\ View(m) = Set(View(machine), r, v)
<1> DEFINE m == Put(Destination(r), v)
           k == Destination(r)
<1>1. k \in 1 .. 16 /\ (r = 0 => k = 16) /\ (r # 0 => k = r)
  BY DEF Destination, Sink
<1>2. machine = [f \in FieldNames |-> machine[f]] /\ machine.regs \in [0 .. 16 -> Words]
  BY MachineHasFields DEF Sink
<1>3. DOMAIN machine = FieldNames
  BY <1>2
<1> HIDE DEF k
<1>4. /\ m = [f \in FieldNames |-> m[f]]
      /\ m.regs = [machine.regs EXCEPT ![k] = v]
      /\ m.memory = machine.memory /\ m.persistent = machine.persistent
      /\ m.pc = machine.pc /\ m.steps = machine.steps
      /\ m.inputs = machine.inputs /\ m.keys = machine.keys
      /\ m.outputs = machine.outputs /\ m.screen = machine.screen
  <2>1. m = [machine EXCEPT !.regs = [machine.regs EXCEPT ![k] = v]]
    BY DEF Put, k
  <2> QED
    BY <2>1, <1>3 DEF FieldNames
<1> HIDE DEF m
<1>5. m.regs \in [0 .. 16 -> Words] /\ m.regs[0] = 0
  <2>1. machine.regs[0] = 0
    BY MachineHasFields
  <2> QED
    BY <2>1, <1>1, <1>2, <1>4
<1>6. IsMachine(m, Sink)
  <2>1. /\ m.pc \in Words /\ m.steps \in Nat /\ m.inputs \in Seq(Words) /\ m.keys \in Seq(Words)
        /\ m.outputs \in Seq(Words) /\ m.screen \in Seq(Words \X Words)
        /\ IsMemory(m.memory) /\ DOMAIN m.memory # {} /\ IsMemory(m.persistent)
    BY <1>4, MachineHasFields
  <2> QED
    BY <2>1, <1>4, <1>5, FieldsMakeMachine DEF Sink
<1> DEFINE s == View(machine)
           u == View(m)
           w == Set(s, r, v)
<1>7. /\ s = [f \in FieldNames |-> s[f]]
      /\ s.regs = [q \in 0 .. 15 |-> machine.regs[q]]
      /\ s.memory = machine.memory /\ s.persistent = machine.persistent
      /\ s.pc = machine.pc /\ s.steps = machine.steps
      /\ s.inputs = machine.inputs /\ s.keys = machine.keys
      /\ s.outputs = machine.outputs /\ s.screen = machine.screen
  BY <1>2, ViewIs
<1>8. /\ u = [f \in FieldNames |-> u[f]]
      /\ u.regs = [q \in 0 .. 15 |-> m.regs[q]]
      /\ u.memory = m.memory /\ u.persistent = m.persistent
      /\ u.pc = m.pc /\ u.steps = m.steps
      /\ u.inputs = m.inputs /\ u.keys = m.keys
      /\ u.outputs = m.outputs /\ u.screen = m.screen
  BY <1>4, ViewIs
<1> HIDE DEF s, u
<1>9. /\ w = [f \in FieldNames |-> w[f]]
      /\ w.regs = IF r = 0 THEN s.regs ELSE [s.regs EXCEPT ![r] = v]
      /\ w.memory = s.memory /\ w.persistent = s.persistent
      /\ w.pc = s.pc /\ w.steps = s.steps
      /\ w.inputs = s.inputs /\ w.keys = s.keys
      /\ w.outputs = s.outputs /\ w.screen = s.screen
  <2>1. DOMAIN s = FieldNames
    BY <1>7
  <2>2. CASE r = 0
    BY <2>2, <1>7 DEF Set
  <2>3. CASE r # 0
    <3>1. w = [s EXCEPT !.regs = [s.regs EXCEPT ![r] = v]]
      BY <2>3 DEF Set
    <3> QED
      BY <3>1, <2>1, <2>3 DEF FieldNames
  <2> QED
    BY <2>2, <2>3
<1> HIDE DEF w
<1>10. u.regs = w.regs
  <2>1. DOMAIN w.regs = 0 .. 15 /\ w.regs = [q \in 0 .. 15 |-> w.regs[q]]
    BY <1>7, <1>9
  <2>2. \A q \in 0 .. 15 : m.regs[q] = w.regs[q]
    <3> SUFFICES ASSUME NEW q \in 0 .. 15 PROVE m.regs[q] = w.regs[q]
      OBVIOUS
    <3>0. /\ m.regs[q] = IF q = k THEN v ELSE machine.regs[q]
          /\ s.regs[q] = machine.regs[q] /\ q \in DOMAIN s.regs
      <4>1. q \in 0 .. 16 /\ m.regs[q] = IF q = k THEN v ELSE machine.regs[q]
        BY <1>2, <1>4
      <4>2. s.regs[q] = machine.regs[q] /\ q \in DOMAIN s.regs
        BY <1>7
      <4> QED
        BY <4>1, <4>2
    <3>1. CASE r = 0
      <4>1. w.regs = s.regs /\ k = 16 /\ q # 16
        BY <3>1, <1>1, <1>9
      <4> QED
        BY <3>0, <4>1
    <3>2. CASE r # 0
      <4>1. w.regs[q] = IF q = r THEN v ELSE s.regs[q]
        BY <3>0, <3>2, <1>9
      <4> QED
        BY <3>0, <3>2, <4>1, <1>1
    <3> QED
      BY <3>1, <3>2
  <2> QED
    BY <2>1, <2>2, <1>8
<1>11. u = w
  <2>1. SameFields(u, w)
    BY <1>4, <1>7, <1>8, <1>9, <1>10 DEF SameFields
  <2> QED
    BY <2>1, <1>8, <1>9, Extensional
<1> QED
  BY <1>4, <1>6, <1>11 DEF m, u, w, s

(* A value a field other than the registers, the PC and the steps can have.*)
Suits(name, x) ==
  /\ name \in {"memory", "persistent", "inputs", "keys", "outputs", "screen"}
  /\ name = "memory" => IsMemory(x) /\ DOMAIN x # {}
  /\ name = "persistent" => IsMemory(x)
  /\ name \in {"inputs", "keys", "outputs"} => x \in Seq(Words)
  /\ name = "screen" => x \in Seq(Words \X Words)

(* Updates of the other fields leave a machine, and are seen as they are.  *)
LEMMA WithField ==
  ASSUME NEW m, IsMachine(m, Sink), NEW name, NEW x, Suits(name, x)
  PROVE  LET n == [m EXCEPT ![name] = x]
         IN  /\ IsMachine(n, Sink)
             /\ n[name] = x
             /\ \A f \in FieldNames : f # name => n[f] = m[f]
             /\ View(n) = [View(m) EXCEPT ![name] = x]
<1> DEFINE n == [m EXCEPT ![name] = x]
           s == View(m)
           u == View(n)
           w == [s EXCEPT ![name] = x]
<1>1. m = [f \in FieldNames |-> m[f]] /\ name \in FieldNames
  BY MachineHasFields DEF FieldNames, Suits
<1>2. /\ n = [f \in FieldNames |-> n[f]] /\ n[name] = x
      /\ \A f \in FieldNames : f # name => n[f] = m[f]
  BY <1>1, UpdateIs
<1>3. IsMachine(n, Sink)
  <2>1. /\ m.regs \in [0 .. Sink -> Words] /\ m.pc \in Words /\ m.steps \in Nat
        /\ m.inputs \in Seq(Words) /\ m.keys \in Seq(Words)
        /\ m.outputs \in Seq(Words) /\ m.screen \in Seq(Words \X Words)
        /\ IsMemory(m.memory) /\ DOMAIN m.memory # {} /\ IsMemory(m.persistent)
        /\ m.regs[0] = 0
    BY MachineHasFields
  <2> HIDE DEF n
  <2>2. /\ n.regs \in [0 .. Sink -> Words] /\ n.pc \in Words /\ n.steps \in Nat
        /\ n.inputs \in Seq(Words) /\ n.keys \in Seq(Words)
        /\ n.outputs \in Seq(Words) /\ n.screen \in Seq(Words \X Words)
        /\ IsMemory(n.memory) /\ DOMAIN n.memory # {} /\ IsMemory(n.persistent)
        /\ n.regs[0] = 0
    BY <2>1, <1>2 DEF FieldNames, Suits
  <2> QED
    BY <2>2, <1>2, FieldsMakeMachine
<1> HIDE DEF n
<1>4. /\ s = [f \in FieldNames |-> s[f]]
      /\ s.regs = [q \in 0 .. 15 |-> m.regs[q]]
      /\ s.memory = m.memory /\ s.persistent = m.persistent
      /\ s.pc = m.pc /\ s.steps = m.steps
      /\ s.inputs = m.inputs /\ s.keys = m.keys
      /\ s.outputs = m.outputs /\ s.screen = m.screen
  BY <1>1, ViewIs
<1>5. /\ u = [f \in FieldNames |-> u[f]]
      /\ u.regs = [q \in 0 .. 15 |-> n.regs[q]]
      /\ u.memory = n.memory /\ u.persistent = n.persistent
      /\ u.pc = n.pc /\ u.steps = n.steps
      /\ u.inputs = n.inputs /\ u.keys = n.keys
      /\ u.outputs = n.outputs /\ u.screen = n.screen
  BY <1>2, ViewIs
<1> HIDE DEF s, u
<1>6. /\ w = [f \in FieldNames |-> w[f]] /\ w[name] = x
      /\ \A f \in FieldNames : f # name => w[f] = s[f]
  BY <1>1, <1>4, UpdateIs
<1> HIDE DEF w
<1>7. SameFields(u, w)
  <2>1. name \in {"memory", "persistent", "inputs", "keys", "outputs", "screen"}
    BY DEF Suits
  <2> QED
    BY <2>1, <1>2, <1>4, <1>5, <1>6 DEF SameFields, FieldNames
<1>8. u = w
  BY <1>5, <1>6, <1>7, Extensional
<1> QED
  BY <1>2, <1>3, <1>8 DEF n, u, w, s

-----------------------------------------------------------------------------
(* What both emulators read at the PC.                                     *)
LEMMA SeenIs ==
  ASSUME IsMachine(machine, Sink)
  PROVE  LET s == View(machine)
             pc == machine.pc
         IN  /\ pc \in Nat /\ s.pc = pc /\ s.memory = machine.memory
             /\ s.persistent = machine.persistent
             /\ s.inputs = machine.inputs /\ s.keys = machine.keys
             /\ s.outputs = machine.outputs /\ s.screen = machine.screen
             /\ s.steps = machine.steps /\ machine.steps \in Nat
             /\ Opcode(s) = Op(pc) /\ Op(pc) \in 0 .. 255
             /\ High(s) = Pair(pc) \div 16 /\ High(s) \in 0 .. 15
             /\ Low(s) = Pair(pc) % 16 /\ Low(s) \in 0 .. 15
             /\ Third(pc) % 16 \in 0 .. 15 /\ Wide(pc) \in Words
             /\ \A r \in 0 .. 15 : s.regs[r] = machine.regs[r] /\ machine.regs[r] \in Words
<1> DEFINE s == View(machine)
           pc == machine.pc
<1>1. machine = [f \in FieldNames |-> machine[f]] /\ machine.regs \in [0 .. 16 -> Words]
  BY MachineHasFields DEF Sink
<1>2. /\ s.regs = [r \in 0 .. 15 |-> machine.regs[r]]
      /\ s.memory = machine.memory /\ s.persistent = machine.persistent
      /\ s.pc = machine.pc /\ s.steps = machine.steps
      /\ s.inputs = machine.inputs /\ s.keys = machine.keys
      /\ s.outputs = machine.outputs /\ s.screen = machine.screen
  BY <1>1, ViewIs
<1> HIDE DEF s
<1>3. IsMemory(machine.memory) /\ DOMAIN machine.memory # {} /\ machine.pc \in Words
  BY MachineHasFields
<1>4. pc \in Nat
  BY <1>3, WordIs DEF Words
<1>5. /\ Op(pc) \in 0 .. 255 /\ Pair(pc) \in 0 .. 255 /\ Third(pc) \in 0 .. 255
      /\ Wide(pc) \in Words
  <2>1. pc + 1 \in Nat /\ pc + 2 \in Nat
    BY <1>4
  <2> QED
    BY <2>1, <1>3, <1>4, BytesAre DEF Op, Pair, Third, Wide
<1>6. Opcode(s) = Op(pc) /\ High(s) = Pair(pc) \div 16 /\ Low(s) = Pair(pc) % 16
  BY <1>2 DEF Opcode, High, Low, Op, Pair
<1>7. Pair(pc) \div 16 \in 0 .. 15 /\ Pair(pc) % 16 \in 0 .. 15 /\ Third(pc) % 16 \in 0 .. 15
  BY <1>5
<1>8. \A r \in 0 .. 15 : s.regs[r] = machine.regs[r] /\ machine.regs[r] \in Words
  BY <1>1, <1>2
<1>9. machine.steps \in Nat
  BY MachineHasFields
<1> QED
  BY <1>2, <1>4, <1>5, <1>6, <1>7, <1>8, <1>9 DEF s

(* The last operand of an instruction that has one.                        *)
LEMMA RightIs ==
  ASSUME IsMachine(machine, Sink), NEW uop, NEW a, NEW b, NEW d,
         d = Entry(machine.pc, uop, a, b, Long(machine.pc))
  PROVE  Right(d) = Operand(View(machine)) /\ Right(d) \in Words
<1> DEFINE pc == machine.pc
           s == View(machine)
<1>1. /\ d.immediate = (Long(pc) = 4) /\ d.c = Third(pc) % 16 /\ d.imm = Wide(pc)
  BY DEF Entry
<1>2. d.immediate <=> Immediate(Op(pc))
  <2>1. Long(pc) = 4 <=> Immediate(Op(pc))
    BY DEF Long
  <2> QED
    BY <1>1, <2>1, Zenon
<1>3. /\ s.memory = machine.memory /\ s.pc = pc /\ Opcode(s) = Op(pc)
      /\ Third(pc) % 16 \in 0 .. 15 /\ Wide(pc) \in Words
      /\ \A r \in 0 .. 15 : s.regs[r] = machine.regs[r] /\ machine.regs[r] \in Words
  BY SeenIs
<1> HIDE DEF s
<1>4. Operand(s) = IF Immediate(Op(pc)) THEN Wide(pc) ELSE s.regs[Third(pc) % 16]
  BY <1>3 DEF Operand, Wide, Third
<1>5. Right(d) = IF Immediate(Op(pc)) THEN Wide(pc) ELSE machine.regs[Third(pc) % 16]
  BY <1>1, <1>2 DEF Right
<1> QED
  BY <1>3, <1>4, <1>5 DEF s

(* What the reference does for each kind of instruction                    *)
(* (machine.py:110-220).                                                   *)
LEMMA ExecutedIs ==
  ASSUME NEW m, NEW c, Opcode(m) \in 0 .. 255
  PROVE  LET op == Opcode(m)
             e == Executed(m, c)
         IN  /\ op = 1 => e = [Set(m, High(m), First(m.inputs)) EXCEPT !.inputs = Popped(@)]
             /\ op \in {2, 18} => e = [m EXCEPT !.outputs = Append(@, Operand(m))]
             /\ op = 3 => e = [Set(m, High(m), First(m.keys)) EXCEPT !.keys = Popped(@)]
             /\ op \in {4, 20} =>
                  e = [m EXCEPT !.screen = Append(@, <<m.regs[Low(m)], Operand(m)>>)]
             /\ op = 5 => e = Set(m, High(m), Clock(m, c) % Word)
             /\ op = 6 => e = Set(m, High(m), (Clock(m, c) \div Word) % Word)
             /\ op = 7 => e = Set(m, High(m), m.pc)
             /\ Arithmetic(op) =>
                  e = Set(m, High(m), Operation(op % 16, m.regs[Low(m)], Operand(m)))
             /\ Access(op) /\ op % 8 = 3 =>
                  e = Set(m, High(m), Bytes(m.persistent, Operand(m), 4))
             /\ Access(op) /\ op % 8 = 7 =>
                  e = [m EXCEPT !.persistent = Stored(@, Operand(m), m.regs[Low(m)], 4)]
             /\ Access(op) /\ op % 8 \in 0 .. 2 =>
                  e = Set(m, High(m), Bytes(m.memory, Operand(m), AccessSize(op)))
             /\ Access(op) /\ op % 8 \in 4 .. 6 =>
                  e = [m EXCEPT !.memory = Stored(@, Operand(m), m.regs[Low(m)], AccessSize(op))]
             /\ op = 0 \/ Jump(op) => e = m
<1> DEFINE op == Opcode(m)
           e1 == [Set(m, High(m), First(m.inputs)) EXCEPT !.inputs = Popped(@)]
           e2 == [m EXCEPT !.outputs = Append(@, Operand(m))]
           e3 == [Set(m, High(m), First(m.keys)) EXCEPT !.keys = Popped(@)]
           e4 == [m EXCEPT !.screen = Append(@, <<m.regs[Low(m)], Operand(m)>>)]
           e5 == Set(m, High(m), Clock(m, c) % Word)
           e6 == Set(m, High(m), (Clock(m, c) \div Word) % Word)
           e7 == Set(m, High(m), m.pc)
           e8 == Set(m, High(m), Operation(op % 16, m.regs[Low(m)], Operand(m)))
           a1 == Set(m, High(m), Bytes(m.persistent, Operand(m), 4))
           a2 == [m EXCEPT !.persistent = Stored(@, Operand(m), m.regs[Low(m)], 4)]
           a3 == Set(m, High(m), Bytes(m.memory, Operand(m), AccessSize(op)))
           a4 == [m EXCEPT !.memory = Stored(@, Operand(m), m.regs[Low(m)], AccessSize(op))]
<1>1. Executed(m, c) =
        CASE op = 1 -> e1
          [] op \in {2, 18} -> e2
          [] op = 3 -> e3
          [] op \in {4, 20} -> e4
          [] op = 5 -> e5
          [] op = 6 -> e6
          [] op = 7 -> e7
          [] Arithmetic(op) -> e8
          [] Access(op) ->
               CASE op % 8 = 3 -> a1 [] op % 8 = 7 -> a2 [] op % 8 < 3 -> a3 [] OTHER -> a4
          [] OTHER -> m
  BY DEF Executed
<1>2. op \in 0 .. 255
  OBVIOUS
<1> HIDE DEF op, e1, e2, e3, e4, e5, e6, e7, e8, a1, a2, a3, a4
<1>3. /\ op = 1 => Executed(m, c) = e1
      /\ op \in {2, 18} => Executed(m, c) = e2
      /\ op = 3 => Executed(m, c) = e3
      /\ op \in {4, 20} => Executed(m, c) = e4
      /\ op = 5 => Executed(m, c) = e5
      /\ op = 6 => Executed(m, c) = e6
      /\ op = 7 => Executed(m, c) = e7
  BY <1>1 DEF Arithmetic, Access
<1>4. Arithmetic(op) => Executed(m, c) = e8
  BY <1>1, <1>2 DEF Arithmetic, Access
<1>5. /\ Access(op) /\ op % 8 = 3 => Executed(m, c) = a1
      /\ Access(op) /\ op % 8 = 7 => Executed(m, c) = a2
      /\ Access(op) /\ op % 8 \in 0 .. 2 => Executed(m, c) = a3
      /\ Access(op) /\ op % 8 \in 4 .. 6 => Executed(m, c) = a4
  <2>1. Access(op) =>
          Executed(m, c) =
            CASE op % 8 = 3 -> a1 [] op % 8 = 7 -> a2 [] op % 8 < 3 -> a3 [] OTHER -> a4
    BY <1>1, <1>2 DEF Arithmetic, Access
  <2> DEFINE k == op % 8
  <2>2. k \in 0 .. 7
    BY <1>2
  <2> HIDE DEF k
  <2> QED
    BY <2>1, <2>2 DEF k
<1>6. op = 0 \/ Jump(op) => Executed(m, c) = m
  BY <1>1, <1>2 DEF Arithmetic, Access, Jump
<1> QED
  BY <1>3, <1>4, <1>5, <1>6 DEF op, e1, e2, e3, e4, e5, e6, e7, e8, a1, a2, a3, a4

(* m is the machine after an instruction, its PC and its steps aside.      *)
Step(m) ==
  /\ IsMachine(m, Sink)
  /\ m.pc = machine.pc /\ m.steps = machine.steps
  /\ DOMAIN m.memory = DOMAIN machine.memory
  /\ View(m) = Executed(View(machine), settings)

(* The queues a program reads and the lists it writes.                     *)
LEMMA QueuesAre ==
  ASSUME NEW q \in Seq(Words)
  PROVE  First(q) \in Words /\ Popped(q) \in Seq(Words)
<1>1. 0 \in Words
  BY WordIs DEF Words
<1> QED
  BY <1>1 DEF First, Popped

(* Nothing but the PC.                                                     *)
LEMMA SkipIs ==
  ASSUME IsMachine(machine, Sink), Op(machine.pc) = 0 \/ Jump(Op(machine.pc))
  PROVE  Step(Performed(Decoded(machine.pc)))
<1> DEFINE pc == machine.pc
           d == Decoded(pc)
           s == View(machine)
<1>1. pc \in Nat /\ Opcode(s) = Op(pc)
  BY SeenIs
<1>2. d.uop[1] \in {"nop", "branch"}
  BY <1>1, DecodedIs DEF Entry
<1> HIDE DEF d
<1>3. Performed(d) = machine
  BY <1>2 DEF Performed
<1>4. Executed(s, settings) = s
  BY <1>1, SeenIs, ExecutedIs
<1> QED
  BY <1>3, <1>4 DEF Step, d

(* Reading the two queues of input.                                        *)
LEMMA InputIs ==
  ASSUME IsMachine(machine, Sink), Op(machine.pc) \in {1, 3}
  PROVE  Step(Performed(Decoded(machine.pc)))
<1> DEFINE pc == machine.pc
           d == Decoded(pc)
           s == View(machine)
           r == High(s)
<1>1. /\ pc \in Nat /\ Opcode(s) = Op(pc) /\ r = Pair(pc) \div 16 /\ r \in 0 .. 15
      /\ s.inputs = machine.inputs /\ s.keys = machine.keys
  BY SeenIs
<1>2. machine.inputs \in Seq(Words) /\ machine.keys \in Seq(Words)
  BY MachineHasFields
<1> HIDE DEF d, s, r
<1>3. CASE Op(pc) = 1
  <2> DEFINE v == First(machine.inputs)
             m == Put(Destination(r), v)
             n == [m EXCEPT !.inputs = Popped(machine.inputs)]
  <2>1. v \in Words /\ Popped(machine.inputs) \in Seq(Words)
    BY <1>2, QueuesAre
  <2>2. d = Entry(pc, <<"in">>, Destination(r), 0, 2)
    BY <1>1, <1>3, DecodedIs DEF d
  <2> HIDE DEF v
  <2>3. /\ IsMachine(m, Sink) /\ m.inputs = machine.inputs /\ m.memory = machine.memory
        /\ m.pc = machine.pc /\ m.steps = machine.steps /\ View(m) = Set(s, r, v)
    BY <1>1, <2>1, PutIs DEF s
  <2>4. d.uop[1] = "in" /\ d.a = Destination(r)
    BY <2>2 DEF Entry
  <2>5. Performed(d) = [m EXCEPT !.inputs = Popped(m.inputs)]
    BY <2>4 DEF Performed, v
  <2> HIDE DEF m
  <2>6. Performed(d) = n
    BY <2>3, <2>5
  <2>7. /\ IsMachine(n, Sink) /\ View(n) = [View(m) EXCEPT !.inputs = Popped(machine.inputs)]
        /\ n.memory = m.memory /\ n.pc = m.pc /\ n.steps = m.steps
    <3>1. Suits("inputs", Popped(machine.inputs))
      BY <2>1 DEF Suits
    <3> QED
      BY <3>1, <2>3, WithField DEF FieldNames
  <2> HIDE DEF n
  <2>8. Set(s, r, v).inputs = s.inputs
    <3>1. View(m).inputs = m.inputs
      BY <2>3, MachineHasFields, ViewIs
    <3> QED
      BY <3>1, <2>3, <1>1
  <2>9. Executed(s, settings) = [Set(s, r, v) EXCEPT !.inputs = Popped(Set(s, r, v).inputs)]
    <3>1. Opcode(s) = 1 /\ Opcode(s) \in 0 .. 255
      BY <1>1, <1>3
    <3>2. Executed(s, settings) =
            [Set(s, High(s), First(s.inputs)) EXCEPT !.inputs = Popped(Set(s, High(s), First(s.inputs)).inputs)]
      BY <3>1, ExecutedIs
    <3> QED
      BY <3>2, <1>1, Zenon DEF r, v
  <2>10. Executed(s, settings) = View(n)
    BY <2>3, <2>7, <2>8, <2>9, <1>1, Zenon
  <2> QED
    BY <2>3, <2>6, <2>7, <2>10 DEF Step, d, s
<1>4. CASE Op(pc) = 3
  <2> DEFINE v == First(machine.keys)
             m == Put(Destination(r), v)
             n == [m EXCEPT !.keys = Popped(machine.keys)]
  <2>1. v \in Words /\ Popped(machine.keys) \in Seq(Words)
    BY <1>2, QueuesAre
  <2>2. d = Entry(pc, <<"key">>, Destination(r), 0, 2)
    BY <1>1, <1>4, DecodedIs DEF d
  <2> HIDE DEF v
  <2>3. /\ IsMachine(m, Sink) /\ m.keys = machine.keys /\ m.memory = machine.memory
        /\ m.pc = machine.pc /\ m.steps = machine.steps /\ View(m) = Set(s, r, v)
    BY <1>1, <2>1, PutIs DEF s
  <2>4. d.uop[1] = "key" /\ d.a = Destination(r)
    BY <2>2 DEF Entry
  <2>5. Performed(d) = [m EXCEPT !.keys = Popped(m.keys)]
    BY <2>4 DEF Performed, v
  <2> HIDE DEF m
  <2>6. Performed(d) = n
    BY <2>3, <2>5
  <2>7. /\ IsMachine(n, Sink) /\ View(n) = [View(m) EXCEPT !.keys = Popped(machine.keys)]
        /\ n.memory = m.memory /\ n.pc = m.pc /\ n.steps = m.steps
    <3>1. Suits("keys", Popped(machine.keys))
      BY <2>1 DEF Suits
    <3> QED
      BY <3>1, <2>3, WithField DEF FieldNames
  <2> HIDE DEF n
  <2>8. Set(s, r, v).keys = s.keys
    <3>1. View(m).keys = m.keys
      BY <2>3, MachineHasFields, ViewIs
    <3> QED
      BY <3>1, <2>3, <1>1
  <2>9. Executed(s, settings) = [Set(s, r, v) EXCEPT !.keys = Popped(Set(s, r, v).keys)]
    <3>1. Opcode(s) = 3 /\ Opcode(s) \in 0 .. 255
      BY <1>1, <1>4
    <3>2. Executed(s, settings) =
            [Set(s, High(s), First(s.keys)) EXCEPT !.keys = Popped(Set(s, High(s), First(s.keys)).keys)]
      BY <3>1, ExecutedIs
    <3> QED
      BY <3>2, <1>1, Zenon DEF r, v
  <2>10. Executed(s, settings) = View(n)
    BY <2>3, <2>7, <2>8, <2>9, <1>1, Zenon
  <2> QED
    BY <2>3, <2>6, <2>7, <2>10 DEF Step, d, s
<1> QED
  BY <1>3, <1>4

(* Writing the lists of output and of screen updates.                      *)
LEMMA OutputIs ==
  ASSUME IsMachine(machine, Sink), Op(machine.pc) \in {2, 18, 4, 20}
  PROVE  Step(Performed(Decoded(machine.pc)))
<1> DEFINE pc == machine.pc
           d == Decoded(pc)
           s == View(machine)
<1>1. /\ pc \in Nat /\ Opcode(s) = Op(pc) /\ Opcode(s) \in 0 .. 255
      /\ Low(s) = Pair(pc) % 16 /\ Low(s) \in 0 .. 15
      /\ s.outputs = machine.outputs /\ s.screen = machine.screen
      /\ \A r \in 0 .. 15 : s.regs[r] = machine.regs[r] /\ machine.regs[r] \in Words
  BY SeenIs
<1>2. machine.outputs \in Seq(Words) /\ machine.screen \in Seq(Words \X Words)
  BY MachineHasFields
<1>3. CASE Op(pc) \in {2, 18}
  <2>1. d = Entry(pc, <<"out">>, 0, 0, Long(pc))
    BY <1>1, <1>3, DecodedIs
  <2> DEFINE v == Right(d)
             x == Append(machine.outputs, v)
             n == [machine EXCEPT !.outputs = x]
  <2>2. v = Operand(s) /\ v \in Words
    BY <2>1, RightIs
  <2>3. d.uop[1] = "out"
    BY <2>1 DEF Entry
  <2> HIDE DEF d
  <2>4. Performed(d) = n
    BY <2>3 DEF Performed
  <2> HIDE DEF v
  <2>5. x \in Seq(Words)
    BY <1>2, <2>2
  <2> HIDE DEF x
  <2>6. /\ IsMachine(n, Sink) /\ View(n) = [s EXCEPT !.outputs = x]
        /\ n.memory = machine.memory /\ n.pc = machine.pc /\ n.steps = machine.steps
    <3>1. Suits("outputs", x)
      BY <2>5 DEF Suits
    <3> QED
      BY <3>1, WithField DEF FieldNames
  <2> HIDE DEF n, s
  <2>7. Executed(s, settings) = [s EXCEPT !.outputs = Append(s.outputs, Operand(s))]
    <3>1. Opcode(s) \in {2, 18}
      BY <1>1, <1>3
    <3> QED
      BY <3>1, <1>1, ExecutedIs, Zenon
  <2>8. Executed(s, settings) = View(n)
    BY <2>2, <2>6, <2>7, <1>1, Zenon DEF x
  <2> QED
    BY <2>4, <2>6, <2>8 DEF Step, d, s
<1>4. CASE Op(pc) \in {4, 20}
  <2>1. d = Entry(pc, <<ScreenOp>>, Low(s), 0, Long(pc))
    BY <1>1, <1>4, DecodedIs
  <2> DEFINE v == <<machine.regs[Low(s)], Right(d)>>
             x == Append(machine.screen, v)
             n == [machine EXCEPT !.screen = x]
  <2>2. Right(d) = Operand(s) /\ Right(d) \in Words
    BY <2>1, RightIs
  <2>3. d.uop[1] \in {"screen", "screen_callback"} /\ d.a = Low(s)
    BY <2>1 DEF Entry, ScreenOp
  <2> HIDE DEF d
  <2>4. Performed(d) = n
    BY <2>3 DEF Performed
  <2>5. v \in Words \X Words
    BY <1>1, <2>2
  <2> HIDE DEF v
  <2>6. x \in Seq(Words \X Words)
    BY <1>2, <2>5
  <2> HIDE DEF x
  <2>7. /\ IsMachine(n, Sink) /\ View(n) = [s EXCEPT !.screen = x]
        /\ n.memory = machine.memory /\ n.pc = machine.pc /\ n.steps = machine.steps
    <3>1. Suits("screen", x)
      BY <2>6 DEF Suits
    <3> QED
      BY <3>1, WithField DEF FieldNames
  <2> HIDE DEF n, s
  <2>8. Executed(s, settings) = [s EXCEPT !.screen = Append(s.screen, <<s.regs[Low(s)], Operand(s)>>)]
    <3>1. Opcode(s) \in {4, 20}
      BY <1>1, <1>4
    <3> QED
      BY <3>1, <1>1, ExecutedIs, Zenon
  <2>9. s.regs[Low(s)] = machine.regs[Low(s)]
    BY <1>1
  <2>10. Executed(s, settings) = View(n)
    BY <2>2, <2>7, <2>8, <2>9, <1>1, Zenon DEF x, v
  <2> QED
    BY <2>4, <2>7, <2>10 DEF Step, d, s
<1> QED
  BY <1>3, <1>4

(* Writing a register v computed the same on both sides.                   *)
LEMMA RegisterIs ==
  ASSUME IsMachine(machine, Sink), NEW v \in Words, NEW d,
         Performed(d) = Put(Destination(High(View(machine))), v),
         Executed(View(machine), settings) = Set(View(machine), High(View(machine)), v)
  PROVE  Step(Performed(d))
<1>1. High(View(machine)) \in 0 .. 15
  BY SeenIs
<1> QED
  BY <1>1, PutIs DEF Step

(* The simulated clock is the same.                                        *)
LEMMA ClockIs ==
  ASSUME IsMachine(machine, Sink), IsSettings(settings)
  PROVE  /\ TimeNow(TimeOp) = Clock(View(machine), settings)
         /\ TimeNow(TimeOp) \in Nat
<1> DEFINE s == View(machine)
           c == settings.clock
           f == c.frequency
           n == machine.steps
<1>1. s.steps = n /\ n \in Nat
  BY SeenIs
<1> HIDE DEF s
<1>2. c.value \in Nat /\ c.perStep \in Nat /\ f \in Nat /\ Second \in Nat
  BY MachineAssumption DEF IsSettings
<1>3. CASE f # 0
  <2> DEFINE x == (n \div f) * Second
             y == ((n % f) * Second) \div f
  <2>1. TimeNow(TimeOp) = c.value + (x + y)
    BY <1>3 DEF TimeNow, TimeOp
  <2>2. Clock(s, settings) = c.value + x + y
    BY <1>1, <1>3 DEF Clock
  <2>3. x \in Nat /\ y \in Nat
    <3>1. n \div f \in Nat /\ n % f \in Nat
      BY <1>1, <1>2, <1>3
    <3>2. x \in Nat /\ (n % f) * Second \in Nat
      BY <3>1, <1>2
    <3> DEFINE z == (n % f) * Second
    <3> HIDE DEF z
    <3>3. z \in Nat => z \div f \in Nat
      BY <1>2, <1>3
    <3> QED
      BY <3>2, <3>3 DEF z
  <2> HIDE DEF x, y
  <2> QED
    BY <2>1, <2>2, <2>3, <1>2 DEF s
<1>4. CASE f = 0 /\ c.perStep # 0
  <2>1. TimeNow(TimeOp) = c.value + n * c.perStep
    BY <1>4 DEF TimeNow, TimeOp
  <2>2. Clock(s, settings) = c.value + n * c.perStep
    BY <1>1, <1>4 DEF Clock
  <2> QED
    BY <2>1, <2>2, <1>1, <1>2 DEF s
<1>5. CASE f = 0 /\ c.perStep = 0
  <2>1. TimeNow(TimeOp) = c.value + 0
    BY <1>5 DEF TimeNow, TimeOp
  <2>2. Clock(s, settings) = c.value + n * 0
    BY <1>1, <1>5 DEF Clock
  <2> QED
    BY <2>1, <2>2, <1>1, <1>2 DEF s
<1> QED
  BY <1>3, <1>4, <1>5

(* Reading the clock and the PC.                                           *)
LEMMA TimeIs ==
  ASSUME IsMachine(machine, Sink), IsSettings(settings), Op(machine.pc) \in {5, 6, 7}
  PROVE  Step(Performed(Decoded(machine.pc)))
<1> DEFINE pc == machine.pc
           d == Decoded(pc)
           s == View(machine)
           r == High(s)
           now == TimeNow(TimeOp)
<1>1. /\ pc \in Nat /\ s.pc = pc /\ Opcode(s) = Op(pc) /\ Opcode(s) \in 0 .. 255
      /\ r = Pair(pc) \div 16
  BY SeenIs
<1>2. now = Clock(s, settings) /\ now \in Nat
  BY ClockIs
<1>3. Word \in Nat \ {0}
  BY WordIs
<1>4. \A x \in Int : x % Word \in Words
  BY <1>3, DivMod DEF Words
<1> HIDE DEF d, s, r
<1>5. CASE Op(pc) \in {5, 6}
  <2> DEFINE v == (IF Op(pc) - 5 = 0 THEN now ELSE now \div Word) % Word
  <2>1. d = Entry(pc, <<"time", TimeOp, Op(pc) - 5>>, Destination(r), 0, 2)
    BY <1>1, <1>5, DecodedIs DEF d
  <2>2. d.uop = <<"time", TimeOp, Op(pc) - 5>> /\ d.a = Destination(r)
    BY <2>1 DEF Entry
  <2>3. d.uop[1] = "time" /\ d.uop[2] = TimeOp /\ d.uop[3] = Op(pc) - 5
    BY <2>2
  <2>4. Performed(d) = Put(Destination(r), v)
    BY <2>2, <2>3 DEF Performed
  <2>5. v \in Words
    <3> HIDE DEF now
    <3>1. now \in Int /\ now \div Word \in Int
      BY <1>2, <1>3
    <3> QED
      BY <3>1, <1>4
  <2>6. Executed(s, settings) = Set(s, r, v)
    <3> HIDE DEF now
    <3>1. CASE Op(pc) = 5
      <4>1. Executed(s, settings) = Set(s, High(s), Clock(s, settings) % Word)
        BY <3>1, <1>1, ExecutedIs
      <4>2. v = now % Word
        BY <3>1
      <4> QED
        BY <4>1, <4>2, <1>2, Zenon DEF r
    <3>2. CASE Op(pc) = 6
      <4>1. Executed(s, settings) = Set(s, High(s), (Clock(s, settings) \div Word) % Word)
        BY <3>2, <1>1, ExecutedIs
      <4>2. v = (now \div Word) % Word
        BY <3>2
      <4> QED
        BY <4>1, <4>2, <1>2, Zenon DEF r
    <3> QED
      BY <3>1, <3>2, <1>5
  <2> HIDE DEF v
  <2> QED
    BY <2>4, <2>5, <2>6, RegisterIs DEF r, s, d
<1>6. CASE Op(pc) = 7
  <2>1. d = Entry(pc, <<"getpc">>, Destination(r), 0, 2)
    BY <1>1, <1>6, DecodedIs DEF d
  <2>2. d.uop[1] = "getpc" /\ d.a = Destination(r)
    BY <2>1 DEF Entry
  <2>3. Performed(d) = Put(Destination(r), pc)
    BY <2>2 DEF Performed
  <2>4. pc \in Words
    BY MachineHasFields
  <2>5. Executed(s, settings) = Set(s, High(s), s.pc)
    BY <1>1, <1>6, ExecutedIs
  <2>6. Executed(s, settings) = Set(s, r, pc)
    BY <2>5, <1>1, Zenon DEF r
  <2> QED
    BY <2>3, <2>4, <2>6, RegisterIs DEF r, s, d
<1> QED
  BY <1>5, <1>6

(* Arithmetic.                                                             *)
LEMMA ArithmeticIs ==
  ASSUME IsMachine(machine, Sink), Arithmetic(Op(machine.pc))
  PROVE  Step(Performed(Decoded(machine.pc)))
<1> DEFINE pc == machine.pc
           d == Decoded(pc)
           s == View(machine)
           r == High(s)
           code == Op(pc) % 16
<1>1. /\ pc \in Nat /\ Opcode(s) = Op(pc) /\ Opcode(s) \in 0 .. 255
      /\ r = Pair(pc) \div 16 /\ Low(s) = Pair(pc) % 16 /\ Low(s) \in 0 .. 15
      /\ \A q \in 0 .. 15 : s.regs[q] = machine.regs[q] /\ machine.regs[q] \in Words
  BY SeenIs
<1>2. code \in 0 .. 10
  BY <1>1 DEF Arithmetic
<1>3. d = Entry(pc, <<"alu", code>>, Destination(r), Low(s), Long(pc))
  BY <1>1, DecodedIs
<1>4. Right(d) = Operand(s) /\ Right(d) \in Words
  BY <1>3, RightIs
<1> DEFINE a == machine.regs[Low(s)]
           b == Right(d)
           v == Operation(code, a, b)
<1>5. d.uop = <<"alu", code>> /\ d.a = Destination(r) /\ d.b = Low(s)
  BY <1>3 DEF Entry
<1> HIDE DEF d, s, r, code
<1>6. a \in Words /\ s.regs[Low(s)] = a
  BY <1>1
<1>7. v \in Words /\ Computed(code, a, b) = v
  BY <1>2, <1>4, <1>6, ComputedIs
<1>8. Performed(d) = Put(Destination(r), Computed(code, a, b))
  <2>1. d.uop[1] = "alu" /\ d.uop[2] = code
    BY <1>5
  <2> QED
    BY <2>1, <1>5 DEF Performed
<1>9. Executed(s, settings) = Set(s, High(s), Operation(Opcode(s) % 16, s.regs[Low(s)], Operand(s)))
  BY <1>1, ExecutedIs
<1>10. Executed(s, settings) = Set(s, r, v)
  BY <1>1, <1>4, <1>6, <1>9, Zenon DEF r, code
<1>11. Performed(d) = Put(Destination(r), v)
  BY <1>7, <1>8, Zenon
<1> HIDE DEF v
<1> QED
  BY <1>7, <1>10, <1>11, RegisterIs DEF r, s, d

(* The size of an access is that of its code.                              *)
LEMMA AccessIs ==
  ASSUME NEW op \in 0 .. 255
  PROVE  /\ op % 8 \in 0 .. 7
         /\ AccessSize(op % 8) = AccessSize(op) /\ AccessSize(op) \in {1, 2, 4}
<1>1. op % 8 \in 0 .. 7 /\ (op % 8) % 4 = op % 4
  OBVIOUS
<1> QED
  BY <1>1 DEF AccessSize

(* Loading from one of the two memories.                                   *)
LEMMA LoadIs ==
  ASSUME IsMachine(machine, Sink), Access(Op(machine.pc)), Op(machine.pc) % 8 \in 0 .. 3,
         Op(machine.pc) % 8 = 3 => DOMAIN machine.persistent # {}
  PROVE  Step(Performed(Decoded(machine.pc)))
<1> DEFINE pc == machine.pc
           d == Decoded(pc)
           s == View(machine)
           r == High(s)
           code == Op(pc) % 8
           a == Right(d)
           size == AccessSize(Op(pc))
<1>1. /\ pc \in Nat /\ Opcode(s) = Op(pc) /\ Opcode(s) \in 0 .. 255
      /\ r = Pair(pc) \div 16 /\ s.memory = machine.memory /\ s.persistent = machine.persistent
  BY SeenIs
<1>2. /\ IsMemory(machine.memory) /\ DOMAIN machine.memory # {} /\ IsMemory(machine.persistent)
  BY MachineHasFields
<1>3. d = Entry(pc, <<"access", code>>, Destination(r), 0, Long(pc))
  <2>1. d = Entry(pc, <<"access", code>>,
                  IF code < 4 THEN Destination(Pair(pc) \div 16) ELSE Pair(pc) % 16, 0, Long(pc))
    BY <1>1, DecodedIs, Zenon
  <2>2. code < 4
    OBVIOUS
  <2> QED
    BY <2>1, <2>2, <1>1, Zenon
<1>4. a = Operand(s) /\ a \in Words
  BY <1>3, RightIs
<1>5. AccessSize(code) = size /\ size \in {1, 2, 4}
  BY <1>1, AccessIs
<1>6. d.uop[1] = "access" /\ d.uop[2] = code /\ d.a = Destination(r)
  BY <1>3 DEF Entry
<1>7. a \in Nat
  BY <1>4, WordIs DEF Words
<1> HIDE DEF d, s, r, a, size
<1>8. CASE code = 3
  <2> DEFINE v == Bytes(machine.persistent, a, 4)
  <2>1. v \in Words
    BY <1>2, <1>7, <1>8, BytesAre
  <2>2. Performed(d) = Put(Destination(r), v)
    BY <1>6, <1>8 DEF Performed, a
  <2>3. Executed(s, settings) = Set(s, High(s), Bytes(s.persistent, Operand(s), 4))
    BY <1>1, <1>8, ExecutedIs
  <2>4. Executed(s, settings) = Set(s, r, v)
    BY <2>3, <1>1, <1>4, Zenon DEF r
  <2> HIDE DEF v
  <2> QED
    BY <2>1, <2>2, <2>4, RegisterIs DEF r, s, d
<1>9. CASE code \in 0 .. 2
  <2> DEFINE v == Bytes(machine.memory, a, size)
  <2>1. v \in Words
    <3>1. \A x \in 0 .. 255 : x \in Words
      BY WordIs
    <3>2. /\ Bytes(machine.memory, a, 1) \in 0 .. 255 /\ Bytes(machine.memory, a, 2) \in Words
          /\ Bytes(machine.memory, a, 4) \in Words
      BY <1>2, <1>7, BytesAre
    <3> QED
      BY <3>1, <3>2, <1>5
  <2>2. Performed(d) = Put(Destination(r), Bytes(machine.memory, a, AccessSize(code)))
    <3>1. code < 3 /\ code # 3 /\ code # 7
      BY <1>9
    <3> HIDE DEF code
    <3> QED
      BY <3>1, <1>6 DEF Performed, a
  <2>3. Executed(s, settings) = Set(s, High(s), Bytes(s.memory, Operand(s), AccessSize(Opcode(s))))
    <3>1. Access(Opcode(s)) /\ Opcode(s) % 8 \in 0 .. 2
      BY <1>1, <1>9
    <3> QED
      BY <3>1, <1>1, ExecutedIs, Zenon
  <2>4. Executed(s, settings) = Set(s, r, v)
    BY <2>3, <1>1, <1>4, Zenon DEF r, size
  <2>5. Performed(d) = Put(Destination(r), v)
    BY <2>2, <1>5, Zenon
  <2> HIDE DEF v
  <2> QED
    BY <2>1, <2>4, <2>5, RegisterIs DEF r, s, d
<1>10. code = 3 \/ code \in 0 .. 2
  OBVIOUS
<1> QED
  BY <1>8, <1>9, <1>10

(* Storing to one of the two memories.                                     *)
LEMMA StoreIs ==
  ASSUME IsMachine(machine, Sink), Access(Op(machine.pc)), Op(machine.pc) % 8 \in 4 .. 7,
         Op(machine.pc) % 8 = 7 => DOMAIN machine.persistent # {}
  PROVE  Step(Performed(Decoded(machine.pc)))
<1> DEFINE pc == machine.pc
           d == Decoded(pc)
           s == View(machine)
           code == Op(pc) % 8
           a == Right(d)
           b == machine.regs[Low(s)]
           size == AccessSize(Op(pc))
<1>1. /\ pc \in Nat /\ Opcode(s) = Op(pc) /\ Opcode(s) \in 0 .. 255
      /\ Low(s) = Pair(pc) % 16 /\ Low(s) \in 0 .. 15
      /\ s.memory = machine.memory /\ s.persistent = machine.persistent
      /\ s.regs[Low(s)] = b /\ b \in Words
  BY SeenIs
<1>2. /\ IsMemory(machine.memory) /\ DOMAIN machine.memory # {} /\ IsMemory(machine.persistent)
  BY MachineHasFields
<1>3. d = Entry(pc, <<"access", code>>, Low(s), 0, Long(pc))
  <2>1. d = Entry(pc, <<"access", code>>,
                  IF code < 4 THEN Destination(Pair(pc) \div 16) ELSE Pair(pc) % 16, 0, Long(pc))
    BY <1>1, DecodedIs, Zenon
  <2>2. ~ (code < 4)
    OBVIOUS
  <2> QED
    BY <2>1, <2>2, <1>1, Zenon
<1>4. a = Operand(s) /\ a \in Words
  BY <1>3, RightIs
<1>5. AccessSize(code) = size /\ size \in {1, 2, 4}
  BY <1>1, AccessIs
<1>6. d.uop[1] = "access" /\ d.uop[2] = code /\ d.a = Low(s)
  BY <1>3 DEF Entry
<1>7. a \in Nat
  BY <1>4, WordIs DEF Words
<1> HIDE DEF d, a, size, b
<1>8. CASE code = 7
  <2> DEFINE x == Stored(machine.persistent, a, b, 4)
             n == [machine EXCEPT !.persistent = x]
  <2>1. IsMemory(x)
    BY <1>1, <1>2, <1>7, <1>8, StoredIs
  <2>2. Performed(d) = n
    BY <1>6, <1>8 DEF Performed, a, b
  <2>3. /\ IsMachine(n, Sink) /\ View(n) = [s EXCEPT !.persistent = x]
        /\ n.memory = machine.memory /\ n.pc = machine.pc /\ n.steps = machine.steps
    <3> HIDE DEF x
    <3>1. Suits("persistent", x)
      BY <2>1 DEF Suits
    <3> QED
      BY <3>1, WithField DEF FieldNames
  <2> HIDE DEF n, s
  <2>4. Executed(s, settings) =
          [s EXCEPT !.persistent = Stored(s.persistent, Operand(s), s.regs[Low(s)], 4)]
    BY <1>1, <1>8, ExecutedIs
  <2>5. Executed(s, settings) = View(n)
    BY <2>3, <2>4, <1>1, <1>4, Zenon
  <2> QED
    BY <2>2, <2>3, <2>5 DEF Step, d, s
<1>9. CASE code \in 4 .. 6
  <2> DEFINE x == Stored(machine.memory, a, b, size)
             n == [machine EXCEPT !.memory = x]
  <2>1. IsMemory(x) /\ DOMAIN x = DOMAIN machine.memory
    BY <1>1, <1>2, <1>5, <1>7, StoredIs
  <2>2. Performed(d) = [machine EXCEPT !.memory = Stored(machine.memory, a, b, AccessSize(code))]
    <3>1. code # 3 /\ code # 7 /\ ~ (code < 3)
      BY <1>9
    <3> HIDE DEF code
    <3> QED
      BY <3>1, <1>6 DEF Performed, a, b
  <2>3. Performed(d) = n
    BY <2>2, <1>5, Zenon
  <2>4. /\ IsMachine(n, Sink) /\ View(n) = [s EXCEPT !.memory = x] /\ n.memory = x
        /\ n.pc = machine.pc /\ n.steps = machine.steps
    <3> HIDE DEF x
    <3>1. Suits("memory", x)
      BY <2>1, <1>2 DEF Suits
    <3> QED
      BY <3>1, WithField DEF FieldNames
  <2> HIDE DEF n, s
  <2>5. Executed(s, settings) =
          [s EXCEPT !.memory = Stored(s.memory, Operand(s), s.regs[Low(s)], AccessSize(Opcode(s)))]
    <3>1. Access(Opcode(s)) /\ Opcode(s) % 8 \in 4 .. 6
      BY <1>1, <1>9
    <3> QED
      BY <3>1, <1>1, ExecutedIs, Zenon
  <2>6. Executed(s, settings) = View(n)
    BY <2>4, <2>5, <1>1, <1>4, Zenon DEF size
  <2> QED
    BY <2>1, <2>3, <2>4, <2>6 DEF Step, d, s
<1>10. code = 7 \/ code \in 4 .. 6
  OBVIOUS
<1> QED
  BY <1>8, <1>9, <1>10

-----------------------------------------------------------------------------
(* The kinds of instructions, told apart by the operation of the entry.    *)
LEMMA KindIs ==
  ASSUME IsMachine(machine, Sink)
  PROVE  LET op == Op(machine.pc)
             d == Decoded(machine.pc)
         IN  /\ d.valid = TRUE /\ d.tag = machine.pc
             /\ d.uop[1] = "invalid" <=> ~ Known(op)
             /\ d.uop[1] = "access" <=> Access(op)
             /\ d.uop[1] = "branch" <=> Jump(op)
             /\ Access(op) => d.uop[2] = op % 8
             /\ Known(op) => d.next = Next4(machine.pc, Width(op))
             /\ op \in {4, 20} => d.uop[1] = ScreenOp
             /\ op \notin {4, 20} => d.uop[1] # "screen_callback"
<1> DEFINE pc == machine.pc
           op == Op(pc)
           d == Decoded(pc)
           Is(kind) == /\ d.valid = TRUE /\ d.tag = pc /\ d.uop[1] = kind
           Plain == {"nop", "in", "out", "key", "time", "getpc", "alu"}
<1>1. pc \in Nat /\ op \in 0 .. 255
  BY SeenIs
<1> DEFINE target == Destination(Pair(pc) \div 16)
           source == Pair(pc) % 16
<1>2. /\ op = 0 => d = Entry(pc, <<"nop">>, 0, 0, 1)
      /\ op = 1 => d = Entry(pc, <<"in">>, target, 0, 2)
      /\ op \in {2, 18} => d = Entry(pc, <<"out">>, 0, 0, Long(pc))
      /\ op = 3 => d = Entry(pc, <<"key">>, target, 0, 2)
      /\ op \in {4, 20} => d = Entry(pc, <<ScreenOp>>, source, 0, Long(pc))
      /\ op \in {5, 6} => d = Entry(pc, <<"time", TimeOp, op - 5>>, target, 0, 2)
      /\ op = 7 => d = Entry(pc, <<"getpc">>, target, 0, 2)
      /\ Arithmetic(op) => d = Entry(pc, <<"alu", op % 16>>, target, source, Long(pc))
      /\ Jump(op) => d = Entry(pc, <<"branch">>, source, op % 16, Long(pc))
      /\ Access(op) =>
           d = Entry(pc, <<"access", op % 8>>,
                     IF op % 8 < 4 THEN target ELSE source, 0, Long(pc))
      /\ ~ Known(op) => d = Entry(pc, <<"invalid">>, 0, 0, 1)
  BY <1>1, DecodedIs, Zenon
<1>3. /\ Long(pc) = IF Immediate(op) THEN 4 ELSE 3
      /\ op = 0 => Width(op) = 1
      /\ op \in {1, 3, 5, 6, 7} => Width(op) = 2
      /\ op \notin {0, 1, 3, 5, 6, 7} => Width(op) = Long(pc)
  BY DEF Long, Width
<1> HIDE DEF d, op, target, source
<1>4. CASE op \in {0, 1, 2, 18, 3, 5, 6, 7}
  <2>1. /\ Known(op) /\ ~ Access(op) /\ ~ Jump(op) /\ op \notin {4, 20}
    BY <1>4 DEF Known, Access, Jump
  <2>2. d.valid = TRUE /\ d.tag = pc /\ d.uop[1] \in Plain
    BY <1>2, <1>4 DEF Entry
  <2>3. d.next = Next4(pc, Width(op))
    BY <1>2, <1>3, <1>4 DEF Entry
  <2> QED
    BY <2>1, <2>2, <2>3 DEF d, op
<1>5. CASE op \in {4, 20}
  <2>1. /\ Known(op) /\ ~ Access(op) /\ ~ Jump(op)
    BY <1>5 DEF Known, Access, Jump
  <2>2. d.valid = TRUE /\ d.tag = pc /\ d.uop[1] = ScreenOp /\ d.next = Next4(pc, Long(pc))
    BY <1>2, <1>5 DEF Entry
  <2>3. d.next = Next4(pc, Width(op))
    BY <2>2, <1>3, <1>5
  <2>4. ScreenOp \in {"screen", "screen_callback"}
    BY DEF ScreenOp
  <2> QED
    BY <2>1, <2>2, <2>3, <2>4, <1>5 DEF d, op
<1>6. CASE Arithmetic(op)
  <2>1. /\ Known(op) /\ ~ Access(op) /\ ~ Jump(op) /\ op \notin {4, 20}
        /\ op \notin {0, 1, 3, 5, 6, 7}
    BY <1>6 DEF Known, Access, Jump, Arithmetic
  <2>2. d.valid = TRUE /\ d.tag = pc /\ d.uop[1] = "alu" /\ d.next = Next4(pc, Long(pc))
    BY <1>2, <1>6 DEF Entry
  <2> QED
    BY <2>1, <2>2, <1>3 DEF d, op
<1>7. CASE Jump(op)
  <2>1. /\ Known(op) /\ ~ Access(op) /\ op \notin {4, 20} /\ op \notin {0, 1, 3, 5, 6, 7}
    BY <1>7 DEF Known, Access, Jump
  <2>2. d.valid = TRUE /\ d.tag = pc /\ d.uop[1] = "branch" /\ d.next = Next4(pc, Long(pc))
    BY <1>2, <1>7 DEF Entry
  <2> QED
    BY <2>1, <2>2, <1>3, <1>7 DEF d, op
<1>8. CASE Access(op)
  <2>1. /\ Known(op) /\ ~ Jump(op) /\ op \notin {4, 20} /\ op \notin {0, 1, 3, 5, 6, 7}
    BY <1>8 DEF Known, Access, Jump
  <2>2. /\ d.valid = TRUE /\ d.tag = pc /\ d.uop[1] = "access" /\ d.uop[2] = op % 8
        /\ d.next = Next4(pc, Long(pc))
    BY <1>2, <1>8 DEF Entry
  <2> QED
    BY <2>1, <2>2, <1>3, <1>8 DEF d, op
<1>9. CASE ~ Known(op)
  <2>1. /\ ~ Access(op) /\ ~ Jump(op) /\ op \notin {4, 20}
    BY <1>9 DEF Known
  <2>2. d.valid = TRUE /\ d.tag = pc /\ d.uop[1] = "invalid"
    BY <1>2, <1>9 DEF Entry
  <2> QED
    BY <2>1, <2>2, <1>9 DEF d, op
<1>10. \/ op \in {0, 1, 2, 18, 3, 5, 6, 7} \/ op \in {4, 20} \/ Arithmetic(op)
       \/ Jump(op) \/ Access(op) \/ ~ Known(op)
  BY <1>1 DEF Known, op
<1> QED
  BY <1>4, <1>5, <1>6, <1>7, <1>8, <1>9, <1>10

(* The native emulator fails where the reference raises                    *)
(* (native_emulator.c:688-693, 723, machine.py:110-220).                   *)
LEMMA FailsIs ==
  ASSUME IsMachine(machine, Sink)
  PROVE  /\ Fails(Decoded(machine.pc)) <=> Raises(View(machine))
         /\ ~ Fails(Decoded(machine.pc)) => Known(Op(machine.pc))
<1> DEFINE op == Op(machine.pc)
           d == Decoded(machine.pc)
           s == View(machine)
<1>1. Opcode(s) = op /\ s.persistent = machine.persistent /\ op \in 0 .. 255
  BY SeenIs
<1>2. /\ d.uop[1] = "invalid" <=> ~ Known(op)
      /\ d.uop[1] = "access" <=> Access(op)
      /\ Access(op) => d.uop[2] = op % 8
  BY KindIs, Zenon
<1> HIDE DEF op, d, s
<1>3. Raises(s) <=> ~ Known(op) \/ (Access(op) /\ op % 8 \in {3, 7} /\ DOMAIN machine.persistent = {})
  BY <1>1, Zenon DEF Raises, PersistentAccess
<1>4. Fails(d) <=> ~ Known(op) \/ (Access(op) /\ op % 8 \in {3, 7} /\ DOMAIN machine.persistent = {})
  <2>1. CASE Access(op)
    BY <2>1, <1>2, Zenon DEF Fails
  <2>2. CASE ~ Access(op)
    BY <2>2, <1>2, Zenon DEF Fails
  <2> QED
    BY <2>1, <2>2
<1> QED
  BY <1>3, <1>4, Zenon DEF op, d, s

(* Every instruction that does not fail does what the reference does.      *)
LEMMA StepIs ==
  ASSUME IsMachine(machine, Sink), IsSettings(settings), ~ Fails(Decoded(machine.pc))
  PROVE  Step(Performed(Decoded(machine.pc)))
<1> DEFINE op == Op(machine.pc)
           d == Decoded(machine.pc)
<1>1. Known(op) /\ op \in 0 .. 255
  BY FailsIs, SeenIs
<1>2. Access(op) /\ op % 8 \in {3, 7} => DOMAIN machine.persistent # {}
  <2>1. Access(op) => d.uop[1] = "access" /\ d.uop[2] = op % 8
    BY KindIs, Zenon
  <2> QED
    BY <2>1, Zenon DEF Fails
<1>3. CASE op = 0 \/ Jump(op)
  BY <1>3, SkipIs
<1>4. CASE op \in {1, 3}
  BY <1>4, InputIs
<1>5. CASE op \in {2, 18, 4, 20}
  BY <1>5, OutputIs
<1>6. CASE op \in {5, 6, 7}
  BY <1>6, TimeIs
<1>7. CASE Arithmetic(op)
  BY <1>7, ArithmeticIs
<1>8. CASE Access(op)
  <2>1. op % 8 \in 0 .. 3 \/ op % 8 \in 4 .. 7
    BY <1>1
  <2>2. op % 8 = 3 => DOMAIN machine.persistent # {}
    BY <1>2, <1>8
  <2>3. op % 8 = 7 => DOMAIN machine.persistent # {}
    BY <1>2, <1>8
  <2> QED
    BY <2>1, <2>2, <2>3, <1>8, LoadIs, StoreIs, Zenon
<1>9. \/ op = 0 \/ Jump(op) \/ op \in {1, 3} \/ op \in {2, 18, 4, 20} \/ op \in {5, 6, 7}
      \/ Arithmetic(op) \/ Access(op)
  <2> HIDE DEF op
  <2> QED
    BY <1>1 DEF Known
<1> QED
  BY <1>3, <1>4, <1>5, <1>6, <1>7, <1>8, <1>9

-----------------------------------------------------------------------------
(* A taken branch of a Symphony program into the bytes of its own          *)
(* instruction.  The reference goes on behind the instruction              *)
(* (machine.py:222-229), the native emulator at the address it was given   *)
(* (native_emulator.c:765-766).                                            *)
ShortBranch(m) ==
  LET op == Opcode(m)
  IN  /\ settings.symphony
      /\ Jump(op) /\ Holds(op % 16, m.regs[Low(m)])
      /\ (Operand(m) + Word - m.pc) % Word \in 1 .. 3

ShortJump == phase = "dispatch" /\ ShortBranch(View(machine))

(* A sum that wraps once at most.                                          *)
LEMMA WrapsOnce ==
  ASSUME NEW n \in Nat \ {0}, NEW a \in Nat, a < 2 * n
  PROVE  a % n = IF a < n THEN a ELSE a - n
<1>1. CASE a < n
  <2>1. a \in 0 .. n - 1 /\ a = n * 0 + a /\ 0 \in Int /\ a \in Int
    BY <1>1
  <2>2. a % n = a
    BY <2>1, DivModIs
  <2> QED
    BY <2>2, <1>1
<1>2. CASE ~ (a < n)
  <2>1. a - n \in 0 .. n - 1 /\ a = n * 1 + (a - n) /\ 1 \in Int /\ a \in Int
    BY <1>2
  <2> DEFINE r == a - n
  <2>2. r \in 0 .. n - 1 /\ a = n * 1 + r
    BY <2>1
  <2> HIDE DEF r
  <2>3. a % n = r
    BY <2>1, <2>2, DivModIs
  <2> QED
    BY <2>3, <1>2 DEF r
<1> QED
  BY <1>1, <1>2

(* How far a PC moves.                                                     *)
LEMMA MovedIs ==
  ASSUME NEW pc \in Words, NEW next \in Words
  PROVE  /\ (pc + 4) % Word \in Words
         /\ \A w \in 1 .. 4 : next = (pc + w) % Word => (next + Word - pc) % Word = w
         /\ (next + Word - pc) % Word = 4 => next = (pc + 4) % Word
<1>1. Word \in Nat \ {0} /\ Word >= 256 /\ pc \in Nat /\ next \in Nat /\ pc < Word /\ next < Word
  BY WordIs DEF Words
<1> DEFINE a == next + Word - pc
<1>2. a \in Nat /\ a < 2 * Word
  BY <1>1
<1>3. a % Word = IF a < Word THEN a ELSE a - Word
  <2> HIDE DEF a
  <2> QED
    BY <1>1, <1>2, WrapsOnce
<1>4. \A b \in Nat : b < 2 * Word => b % Word = IF b < Word THEN b ELSE b - Word
  BY <1>1, WrapsOnce
<1>5. PICK b : b = pc + 4
  OBVIOUS
<1>6. b % Word = IF b < Word THEN b ELSE b - Word
  <2>1. b \in Nat /\ b < 2 * Word
    BY <1>1, <1>5
  <2> QED
    BY <2>1, <1>4
<1>7. ASSUME NEW w \in 1 .. 4, next = (pc + w) % Word PROVE a % Word = w
  <2>1. PICK c : c = pc + w
    OBVIOUS
  <2>2. c \in Nat /\ c < 2 * Word
    BY <2>1, <1>1
  <2>3. c % Word = IF c < Word THEN c ELSE c - Word
    BY <2>2, <1>4
  <2>4. next = c % Word
    BY <2>1, <1>7, Zenon
  <2>5. CASE c < Word
    BY <2>1, <2>3, <2>4, <2>5, <1>1, <1>3
  <2>6. CASE ~ (c < Word)
    BY <2>1, <2>3, <2>4, <2>6, <1>1, <1>3
  <2> QED
    BY <2>5, <2>6
<1>8. a % Word = 4 => next = b % Word
  BY <1>1, <1>3, <1>5, <1>6
<1>9. b % Word \in Words
  BY <1>1, <1>5, <1>6 DEF Words
<1>10. (pc + 4) % Word = b % Word
  BY <1>5, Zenon
<1> QED
  BY <1>7, <1>8, <1>9, <1>10, Zenon

LEMMA WidthIs ==
  ASSUME NEW op
  PROVE  Width(op) \in 1 .. 4
BY DEF Width

(* Where both emulators go on, but for short branches.                     *)
LEMMA TargetIs ==
  ASSUME IsMachine(machine, Sink), ~ Fails(Decoded(machine.pc))
  PROVE  /\ Target(Decoded(machine.pc)) \in Words
         /\ ~ ShortBranch(View(machine)) =>
              Target(Decoded(machine.pc)) = NextPC(View(machine), settings)
<1> DEFINE pc == machine.pc
           op == Op(pc)
           d == Decoded(pc)
           s == View(machine)
           taken == Jump(op) /\ Holds(op % 16, s.regs[Low(s)])
<1>1. /\ pc \in Nat /\ Opcode(s) = op /\ s.pc = pc /\ op \in 0 .. 255 /\ Known(op)
      /\ Low(s) = Pair(pc) % 16 /\ s.regs[Low(s)] = machine.regs[Low(s)]
  BY SeenIs, FailsIs
<1>2. pc \in Words /\ Word \in Nat \ {0}
  <2>1. pc \in Words
    BY MachineHasFields
  <2>2. Word \in Nat \ {0}
    BY WordIs
  <2> QED
    BY <2>1, <2>2
<1>3. \A x \in Int : x % Word \in Words
  BY <1>2, DivMod DEF Words
<1>4. /\ d.uop[1] = "branch" <=> Jump(op)
      /\ d.next = Next4(pc, Width(op))
  BY <1>1, KindIs, Zenon
<1>5. Jump(op) => d = Entry(pc, <<"branch">>, Pair(pc) % 16, op % 16, Long(pc))
  BY <1>1, DecodedIs
<1>6. Jump(op) => Right(d) = Operand(s) /\ Right(d) \in Words
  BY <1>5, RightIs
<1>7. Jump(op) => d.a = Low(s) /\ d.b = op % 16
  BY <1>1, <1>5 DEF Entry
<1> DEFINE w == Width(op)
<1>8. w \in 1 .. 4
  BY WidthIs
<1> HIDE DEF d, s, op, w
<1>9. Target(d) = IF taken THEN Operand(s) ELSE d.next
  <2>1. CASE Jump(op)
    BY <2>1, <1>1, <1>4, <1>6, <1>7, Zenon DEF Target
  <2>2. CASE ~ Jump(op)
    BY <2>2, <1>4, Zenon DEF Target
  <2> QED
    BY <2>1, <2>2
<1>10. d.next = IF settings.symphony THEN (pc + 4) % Word ELSE (pc + w) % Word
  BY <1>4 DEF Next4, w
<1>11. VariablePC(s) = IF taken THEN Operand(s) ELSE (pc + w) % Word
  BY <1>1, Zenon DEF VariablePC, w
<1> HIDE DEF taken
<1>12. (pc + w) % Word \in Words /\ (pc + 4) % Word \in Words
  BY <1>1, <1>3, <1>8
<1>13. taken => Operand(s) \in Words
  BY <1>6 DEF taken
<1>14. Target(d) \in Words
  BY <1>9, <1>10, <1>12, <1>13
<1> DEFINE next == VariablePC(s)
           moved == (next + Word - pc) % Word
<1>15. next \in Words
  BY <1>11, <1>12, <1>13
<1>16. NextPC(s, settings) =
         IF settings.symphony /\ moved \in 1 .. 4 THEN (pc + 4) % Word ELSE next
  BY <1>1, Zenon DEF NextPC
<1>17. ShortBranch(s) <=>
         settings.symphony /\ taken /\ (Operand(s) + Word - pc) % Word \in 1 .. 3
  BY <1>1, Zenon DEF ShortBranch, taken
<1> HIDE DEF next
<1>18. moved = 4 => next = (pc + 4) % Word
  BY <1>2, <1>15, MovedIs
<1>19. next = (pc + w) % Word => moved = w
  BY <1>2, <1>8, <1>15, MovedIs
<1>20. ASSUME ~ ShortBranch(s) PROVE Target(d) = NextPC(s, settings)
  <2>1. CASE taken
    <3>1. next = Operand(s) /\ Target(d) = next
      BY <2>1, <1>9, <1>11 DEF next
    <3>2. settings.symphony => moved \notin 1 .. 3
      BY <3>1, <2>1, <1>17, <1>20
    <3> HIDE DEF moved
    <3>3. settings.symphony /\ moved \in 1 .. 4 => moved = 4
      BY <3>2
    <3> QED
      BY <3>1, <3>3, <1>16, <1>18
  <2>2. CASE ~ taken
    <3>1. next = (pc + w) % Word /\ Target(d) = d.next
      BY <2>2, <1>9, <1>11 DEF next
    <3>2. moved \in 1 .. 4
      BY <3>1, <1>8, <1>19
    <3> HIDE DEF moved
    <3> QED
      BY <3>1, <3>2, <1>10, <1>16
  <2> QED
    BY <2>1, <2>2
<1> QED
  BY <1>14, <1>20 DEF d, s

(* The callback asks to stop at the same screen updates.                   *)
LEMMA StopIs ==
  ASSUME IsMachine(machine, Sink), IsSettings(settings)
  PROVE  LET d == Decoded(machine.pc)
         IN  d.uop[1] = "screen_callback" /\ Right(d) \in settings.stops
               <=> StopRequested(View(machine), settings)
<1> DEFINE pc == machine.pc
           op == Op(pc)
           d == Decoded(pc)
           s == View(machine)
<1>1. pc \in Nat /\ Opcode(s) = op
  BY SeenIs
<1>2. /\ op \in {4, 20} => d.uop[1] = ScreenOp
      /\ op \notin {4, 20} => d.uop[1] # "screen_callback"
  BY KindIs, Zenon
<1>3. op \in {4, 20} => d = Entry(pc, <<ScreenOp>>, Pair(pc) % 16, 0, Long(pc))
  BY <1>1, DecodedIs
<1>4. op \in {4, 20} => Right(d) = Operand(s)
  BY <1>3, RightIs
<1>5. ScreenOp = "screen_callback" <=> settings.callback
  BY DEF ScreenOp, IsSettings
<1> HIDE DEF d, s, op
<1>6. CASE op \in {4, 20}
  BY <1>6, <1>1, <1>2, <1>4, <1>5, Zenon DEF StopRequested, d, s
<1>7. CASE op \notin {4, 20}
  BY <1>7, <1>1, <1>2, Zenon DEF StopRequested, d, s
<1> QED
  BY <1>6, <1>7

-----------------------------------------------------------------------------
(* The end of a handler: the PC and the count of steps.                    *)
LEMMA AdvanceIs ==
  ASSUME NEW m, IsMachine(m, Sink), NEW t \in Words
  PROVE  LET n == [m EXCEPT !.pc = t, !.steps = @ + 1]
         IN  /\ IsMachine(n, Sink)
             /\ n.memory = m.memory /\ n.pc = t /\ n.steps = m.steps + 1
             /\ View(n) = [View(m) EXCEPT !.pc = t, !.steps = @ + 1]
<1> DEFINE n == [m EXCEPT !.pc = t, !.steps = @ + 1]
           s == View(m)
           u == View(n)
           w == [s EXCEPT !.pc = t, !.steps = @ + 1]
<1>1. /\ m = [f \in FieldNames |-> m[f]] /\ m.regs \in [0 .. Sink -> Words]
      /\ m.steps \in Nat /\ m.inputs \in Seq(Words) /\ m.keys \in Seq(Words)
      /\ m.outputs \in Seq(Words) /\ m.screen \in Seq(Words \X Words)
      /\ IsMemory(m.memory) /\ DOMAIN m.memory # {} /\ IsMemory(m.persistent)
      /\ m.regs[0] = 0
  BY MachineHasFields
<1>2. /\ n = [f \in FieldNames |-> n[f]] /\ n.pc = t /\ n.steps = m.steps + 1
      /\ n.memory = m.memory /\ n.persistent = m.persistent /\ n.regs = m.regs
      /\ n.inputs = m.inputs /\ n.keys = m.keys /\ n.outputs = m.outputs /\ n.screen = m.screen
  <2>1. DOMAIN m = FieldNames
    BY <1>1
  <2> QED
    BY <2>1 DEF FieldNames
<1>3. IsMachine(n, Sink)
  <2> HIDE DEF n
  <2>1. m.steps + 1 \in Nat
    BY <1>1
  <2> QED
    BY <2>1, <1>1, <1>2, FieldsMakeMachine
<1> HIDE DEF n
<1>4. /\ s = [f \in FieldNames |-> s[f]]
      /\ s.regs = [q \in 0 .. 15 |-> m.regs[q]]
      /\ s.memory = m.memory /\ s.persistent = m.persistent
      /\ s.steps = m.steps
      /\ s.inputs = m.inputs /\ s.keys = m.keys
      /\ s.outputs = m.outputs /\ s.screen = m.screen
  BY <1>1, ViewIs
<1>5. /\ u = [f \in FieldNames |-> u[f]]
      /\ u.regs = [q \in 0 .. 15 |-> n.regs[q]]
      /\ u.memory = n.memory /\ u.persistent = n.persistent
      /\ u.pc = n.pc /\ u.steps = n.steps
      /\ u.inputs = n.inputs /\ u.keys = n.keys
      /\ u.outputs = n.outputs /\ u.screen = n.screen
  BY <1>2, ViewIs
<1> HIDE DEF s, u
<1>6. /\ w = [f \in FieldNames |-> w[f]] /\ w.pc = t /\ w.steps = s.steps + 1
      /\ w.memory = s.memory /\ w.persistent = s.persistent /\ w.regs = s.regs
      /\ w.inputs = s.inputs /\ w.keys = s.keys /\ w.outputs = s.outputs /\ w.screen = s.screen
  <2>1. DOMAIN s = FieldNames
    BY <1>4
  <2> QED
    BY <2>1 DEF FieldNames
<1> HIDE DEF w
<1>7. SameFields(u, w)
  BY <1>2, <1>4, <1>5, <1>6 DEF SameFields
<1>8. u = w
  BY <1>5, <1>6, <1>7, Extensional
<1> QED
  BY <1>2, <1>3, <1>8 DEF n, u, w, s

(* The head of a chunk: the sink is cleared, which the reference does not  *)
(* see.                                                                    *)
LEMMA SinkClearedIs ==
  ASSUME IsMachine(machine, Sink)
  PROVE  LET m == [machine EXCEPT !.regs[Sink] = 0]
         IN  /\ IsMachine(m, Sink) /\ View(m) = View(machine)
             /\ m.memory = machine.memory /\ m.pc = machine.pc /\ m.steps = machine.steps
<1>1. 0 \in 0 .. 15 /\ 0 \in Words
  BY WordIs DEF Words
<1>2. Put(Destination(0), 0) = [machine EXCEPT !.regs[Sink] = 0]
  BY DEF Put, Destination
<1>3. Set(View(machine), 0, 0) = View(machine)
  BY DEF Set
<1> DEFINE m == [machine EXCEPT !.regs[Sink] = 0]
<1> HIDE DEF m
<1>4. m = Put(Destination(0), 0)
  BY <1>2 DEF m
<1>5. /\ IsMachine(m, Sink) /\ View(m) = Set(View(machine), 0, 0)
      /\ m.memory = machine.memory /\ m.pc = machine.pc /\ m.steps = machine.steps
  BY <1>1, <1>4, PutIs
<1> QED
  BY <1>3, <1>5 DEF m

-----------------------------------------------------------------------------
(* An entry stays fresh when the memory it was decoded from stays.         *)
LEMMA FreshKept ==
  ASSUME IsMachine(machine, Sink), Fresh, UNCHANGED settings,
         machine'.memory = machine.memory, table' = table \/ table' = Empty
  PROVE  Fresh'
<1>1. Positions' = Positions
  BY DEF Positions
<1>2. ASSUME NEW pc \in Words PROVE Decoded(pc)' = Decoded(pc)
  <2>1. pc \in Nat
    BY WordIs DEF Words
  <2> QED
    BY <2>1, DecodedSame
<1>3. CASE table' = table
  BY <1>1, <1>2, <1>3 DEF Fresh, FreshEntry
<1>4. CASE table' = Empty
  BY <1>1, <1>4 DEF Fresh, FreshEntry, Empty, Invalid
<1> QED
  BY <1>3, <1>4

LEMMA InitialIs ==
  ASSUME NEW m, IsMachine(m, 15)
  PROVE  LET n == [m EXCEPT !.regs = [r \in 0 .. Sink |-> IF r = Sink THEN 0 ELSE @[r]]]
         IN  IsMachine(n, Sink)
<1> DEFINE regs == [r \in 0 .. Sink |-> IF r = Sink THEN 0 ELSE m.regs[r]]
           n == [m EXCEPT !.regs = regs]
<1>1. /\ m = [f \in FieldNames |-> m[f]] /\ m.regs \in [0 .. 15 -> Words]
      /\ m.pc \in Words
      /\ m.steps \in Nat /\ m.inputs \in Seq(Words) /\ m.keys \in Seq(Words)
      /\ m.outputs \in Seq(Words) /\ m.screen \in Seq(Words \X Words)
      /\ IsMemory(m.memory) /\ DOMAIN m.memory # {} /\ IsMemory(m.persistent)
      /\ m.regs[0] = 0
  BY MachineHasFields
<1>2. 0 \in Words
  BY WordIs DEF Words
<1>3. regs \in [0 .. Sink -> Words] /\ regs[0] = 0
  <2>1. \A r \in 0 .. 16 : r # 16 => r \in 0 .. 15 /\ m.regs[r] \in Words
    BY <1>1
  <2>2. \A r \in 0 .. 16 : (IF r = 16 THEN 0 ELSE m.regs[r]) \in Words
    BY <2>1, <1>2
  <2> QED
    BY <2>2, <1>1 DEF Sink
<1>4. n = [m EXCEPT !.regs = [r \in 0 .. Sink |-> IF r = Sink THEN 0 ELSE @[r]]]
  OBVIOUS
<1> HIDE DEF regs
<1>5. /\ n = [f \in FieldNames |-> n[f]] /\ n.pc = m.pc /\ n.steps = m.steps
      /\ n.memory = m.memory /\ n.persistent = m.persistent /\ n.regs = regs
      /\ n.inputs = m.inputs /\ n.keys = m.keys /\ n.outputs = m.outputs /\ n.screen = m.screen
  <2>1. DOMAIN m = FieldNames
    BY <1>1
  <2> QED
    BY <2>1 DEF FieldNames
<1> HIDE DEF n
<1>6. IsMachine(n, Sink)
  BY <1>1, <1>3, <1>5, FieldsMakeMachine
<1> QED
  BY <1>4, <1>6

(* The table of a new session is empty.                                    *)
LEMMA InitInv == NativeInit => IInv
<1> SUFFICES ASSUME NativeInit PROVE IInv
  OBVIOUS
<1>1. PICK job \in Jobs :
        /\ machine = [job[1] EXCEPT !.regs = [r \in 0 .. Sink |-> IF r = Sink THEN 0 ELSE @[r]]]
        /\ settings = job[2]
  BY DEF NativeInit
<1>2. IsMachine(machine, Sink)
  <2>1. IsMachine(job[1], 15)
    BY JobsAssumption
  <2> QED
    BY <2>1, <1>1, InitialIs
<1>3. IsSettings(settings)
  BY <1>1, JobsAssumption DEF IsSettings
<1>4. table = Empty /\ bound = 0 /\ phase = "between"
  BY DEF NativeInit
<1>5. Fresh
  BY <1>4 DEF Fresh, FreshEntry, Empty, Invalid
<1>6. Phases
  BY <1>3, <1>4 DEF Phases, IsSettings
<1> QED
  BY <1>2, <1>3, <1>5, <1>6 DEF IInv

-----------------------------------------------------------------------------
(* The four steps keep the invariant.                                      *)
LEMMA StartChunkInv == IInv /\ StartChunk => IInv'
<1> SUFFICES ASSUME IInv, StartChunk PROVE IInv'
  OBVIOUS
<1>1. IsMachine(machine, Sink) /\ IsSettings(settings) /\ Fresh /\ Phases
  BY DEF IInv
<1>2. /\ machine' = [machine EXCEPT !.regs[Sink] = 0] /\ UNCHANGED settings
      /\ machine.steps < settings.limit
      /\ bound' = IF Progress /\ machine.steps + settings.interval < settings.limit
                    THEN machine.steps + settings.interval ELSE settings.limit
      /\ table' = table \/ table' = Empty
      /\ phase' = IF machine.pc = settings.halt THEN "returned" ELSE "fetch"
  BY DEF StartChunk
<1>3. /\ IsMachine(machine', Sink) /\ machine'.memory = machine.memory
      /\ machine'.pc = machine.pc /\ machine'.steps = machine.steps
  BY <1>1, <1>2, SinkClearedIs, Zenon
<1>4. Fresh'
  BY <1>1, <1>2, <1>3, FreshKept
<1>5. Phases'
  <2>1. machine.steps \in Nat
    BY <1>1, MachineHasFields
  <2>2. bound' \in Nat /\ bound' <= settings.limit /\ machine.steps < bound'
    BY <1>1, <1>2, <2>1 DEF Progress, IsSettings
  <2> QED
    BY <1>2, <1>3, <2>2 DEF Phases
<1> QED
  BY <1>1, <1>2, <1>3, <1>4, <1>5 DEF IInv, IsSettings

LEMMA LimitExceededInv == IInv /\ LimitExceeded => IInv'
<1> SUFFICES ASSUME IInv, LimitExceeded PROVE IInv'
  OBVIOUS
<1>1. IsMachine(machine, Sink) /\ IsSettings(settings) /\ Fresh /\ Phases
  BY DEF IInv
<1>2. /\ machine' = machine /\ UNCHANGED settings /\ table' = table /\ bound' = bound
      /\ phase' = "limit"
  BY DEF LimitExceeded
<1>3. Fresh'
  BY <1>1, <1>2, FreshKept
<1>4. Phases'
  BY <1>1, <1>2 DEF Phases
<1> QED
  BY <1>1, <1>2, <1>3, <1>4 DEF IInv, IsSettings

LEMMA StutterInv == IInv /\ UNCHANGED vars => IInv'
<1> SUFFICES ASSUME IInv, UNCHANGED vars PROVE IInv'
  OBVIOUS
<1>1. IsMachine(machine, Sink) /\ IsSettings(settings) /\ Fresh /\ Phases
  BY DEF IInv
<1>2. /\ machine' = machine /\ UNCHANGED settings /\ table' = table /\ bound' = bound
      /\ phase' = phase
  BY DEF vars
<1>3. Fresh'
  BY <1>1, <1>2, FreshKept
<1>4. Phases'
  BY <1>1, <1>2 DEF Phases, Here, Positions
<1> QED
  BY <1>1, <1>2, <1>3, <1>4 DEF IInv, IsSettings

(* Decoding keeps the rest of the table (native_emulator.c:615-620).       *)
LEMMA FetchInv == IInv /\ Fetch => IInv'
<1> SUFFICES ASSUME IInv, Fetch PROVE IInv'
  OBVIOUS
<1>1. IsMachine(machine, Sink) /\ IsSettings(settings) /\ Fresh /\ Phases
  BY DEF IInv
<1> DEFINE d == Decoded(machine.pc)
<1>2. /\ machine' = machine /\ UNCHANGED settings /\ bound' = bound
      /\ phase = "fetch" /\ phase' = "dispatch"
      /\ table' = IF table[Here].valid /\ table[Here].tag = machine.pc THEN table
                  ELSE [table EXCEPT ![Here] = d]
  BY DEF Fetch
<1>3. Here \in Positions /\ Here = machine.pc % Length(machine.memory)
  BY <1>1, HereIs
<1>4. machine.pc \in Words
  BY <1>1, MachineHasFields
<1>5. d.valid = TRUE /\ d.tag = machine.pc
  BY <1>1, KindIs, Zenon
<1>6. Positions' = Positions /\ Here' = Here
  BY <1>2 DEF Positions, Here
<1>7. \A pc \in Words : Decoded(pc)' = Decoded(pc)
  <2> SUFFICES ASSUME NEW pc \in Words PROVE Decoded(pc)' = Decoded(pc)
    OBVIOUS
  <2>1. pc \in Nat
    BY WordIs DEF Words
  <2> QED
    BY <1>2, <2>1, DecodedSame
<1> HIDE DEF d
<1>8. CASE table[Here].valid /\ table[Here].tag = machine.pc
  <2>1. table' = table
    BY <1>2, <1>8
  <2>2. Fresh'
    BY <1>1, <1>2, <2>1, FreshKept
  <2>3. Phases'
    BY <1>1, <1>2, <1>6, <1>8, <2>1 DEF Phases
  <2> QED
    BY <1>1, <1>2, <2>2, <2>3 DEF IInv, IsSettings
<1>9. CASE ~ (table[Here].valid /\ table[Here].tag = machine.pc)
  <2>1. table' = [table EXCEPT ![Here] = d]
    BY <1>2, <1>9
  <2>2. table = [p \in Positions |-> table[p]]
    BY <1>1 DEF Fresh
  <2>3. /\ table' = [p \in Positions |-> table'[p]]
        /\ table'[Here] = d
        /\ \A p \in Positions : p # Here => table'[p] = table[p]
    BY <1>3, <2>1, <2>2
  <2>4. Fresh'
    <3>1. ASSUME NEW p \in Positions PROVE FreshEntry(p)'
      <4>1. CASE p = Here
        <5>1. table'[p] = Decoded(machine.pc) /\ table'[p].tag = machine.pc
          BY <4>1, <2>3, <1>5 DEF d
        <5>2. machine.pc % Length(machine.memory) = p
          BY <4>1, <1>3, Zenon
        <5> QED
          BY <5>1, <5>2, <1>2, <1>4, <1>7 DEF FreshEntry
      <4>2. CASE p # Here
        <5>1. table'[p] = table[p]
          BY <4>2, <2>3
        <5>2. FreshEntry(p)
          BY <1>1 DEF Fresh
        <5> QED
          BY <5>1, <5>2, <1>2, <1>7 DEF FreshEntry
      <4> QED
        BY <4>1, <4>2
    <3> QED
      BY <3>1, <2>3, <1>2, <1>6 DEF Fresh
  <2>5. Phases'
    BY <1>1, <1>2, <1>5, <1>6, <2>3 DEF Phases
  <2> QED
    BY <1>1, <1>2, <2>4, <2>5 DEF IInv, IsSettings
<1> QED
  BY <1>8, <1>9

(* A handler that stores to memory, and what it does to it.                *)
Stores(d) == d.uop[1] = "access" /\ d.uop[2] \in 4 .. 6

LEMMA MemoryIs ==
  ASSUME IsMachine(machine, Sink), NEW d, d = Decoded(machine.pc), ~ Fails(d)
  PROVE  /\ ~ Stores(d) => Performed(d).memory = machine.memory
         /\ Stores(d) =>
              /\ Right(d) \in Words /\ AccessSize(d.uop[2]) \in {1, 2, 4}
              /\ \E v \in Words :
                   Performed(d).memory =
                     Stored(machine.memory, Right(d), v, AccessSize(d.uop[2]))
<1> DEFINE op == Op(machine.pc)
           f == machine.memory
<1>1. machine.pc \in Nat /\ op \in 0 .. 255
  BY SeenIs
<1>2. DOMAIN machine = FieldNames
  BY MachineHasFields
<1>3. \A r, v : Put(r, v).memory = f
  BY <1>2 DEF Put, FieldNames
<1>4. CASE ~ Stores(d)
  <2>1. CASE d.uop[1] = "access"
    <3> DEFINE v == IF d.uop[2] = 3 THEN Bytes(machine.persistent, Right(d), 4)
                    ELSE Bytes(machine.memory, Right(d), AccessSize(d.uop[2]))
    <3>1. Access(op) /\ d.uop[2] = op % 8
      BY <2>1, KindIs, Zenon
    <3>2. d.uop[2] \in {0, 1, 2, 3, 7}
      <4>1. op % 8 \in 0 .. 7
        BY <1>1
      <4>2. d.uop[2] \notin 4 .. 6
        BY <2>1, <1>4 DEF Stores
      <4>3. d.uop[2] \in 0 .. 7
        BY <3>1, <4>1, Zenon
      <4> QED
        BY <4>2, <4>3
    <3>3. CASE d.uop[2] = 7
      <4> DEFINE x == Stored(machine.persistent, Right(d), machine.regs[d.a], 4)
      <4>1. Performed(d) = [machine EXCEPT !.persistent = x]
        BY <2>1, <3>3 DEF Performed
      <4> HIDE DEF x
      <4>2. Performed(d).memory = f
        BY <4>1, <1>2 DEF FieldNames
      <4> QED
        BY <4>2, <1>4, Zenon
    <3>4. CASE d.uop[2] # 7
      <4>1. Performed(d) = Put(d.a, v)
        BY <2>1, <3>2, <3>4 DEF Performed
      <4> QED
        BY <4>1, <1>3, <1>4, Zenon
    <3> QED
      BY <3>3, <3>4
  <2>2. CASE d.uop[1] # "access"
    <3>1. CASE d.uop[1] \in {"in", "key"}
      <4> DEFINE v == IF d.uop[1] = "in" THEN First(machine.inputs) ELSE First(machine.keys)
                 m == Put(d.a, v)
      <4>1. \/ Performed(d) = [m EXCEPT !.inputs = Popped(m.inputs)]
            \/ Performed(d) = [m EXCEPT !.keys = Popped(m.keys)]
        BY <3>1 DEF Performed
      <4>2. DOMAIN m = FieldNames /\ m.memory = f
        BY <1>2, <1>3 DEF Put
      <4> HIDE DEF m
      <4> QED
        BY <4>1, <4>2, <1>4 DEF FieldNames
    <3>2. CASE d.uop[1] \in {"out", "screen", "screen_callback"}
      <4>1. \/ Performed(d) = [machine EXCEPT !.outputs = Append(machine.outputs, Right(d))]
            \/ Performed(d) = [machine EXCEPT !.screen =
                                 Append(machine.screen, <<machine.regs[d.a], Right(d)>>)]
        BY <3>2 DEF Performed
      <4> QED
        BY <4>1, <1>2, <1>4 DEF FieldNames
    <3>3. CASE d.uop[1] \in {"time", "getpc", "alu"}
      <4>1. \E v : Performed(d) = Put(d.a, v)
        <5>1. CASE d.uop[1] = "time"
          BY <5>1, Zenon DEF Performed
        <5>2. CASE d.uop[1] = "getpc"
          BY <5>2 DEF Performed
        <5>3. CASE d.uop[1] = "alu"
          BY <5>3 DEF Performed
        <5> QED
          BY <3>3, <5>1, <5>2, <5>3
      <4> QED
        BY <4>1, <1>3, <1>4, Zenon
    <3>4. CASE d.uop[1] \notin {"in", "key", "out", "screen", "screen_callback",
                                "time", "getpc", "alu"}
      <4>1. Performed(d) = machine
        BY <2>2, <3>4 DEF Performed
      <4> QED
        BY <4>1, <1>4
    <3> QED
      BY <3>1, <3>2, <3>3, <3>4
  <2> QED
    BY <2>1, <2>2
<1>5. CASE Stores(d)
  <2> DEFINE code == d.uop[2]
             a == Right(d)
             v == machine.regs[d.a]
             x == Stored(f, a, v, AccessSize(code))
  <2>1. Access(op) /\ code = op % 8 /\ code \in 4 .. 6
    <3>1. d.uop[1] = "access" /\ d.uop[2] \in 4 .. 6
      BY <1>5 DEF Stores
    <3> QED
      BY <3>1, KindIs, Zenon
  <2>2. ~ (op % 8 < 4)
    BY <2>1
  <2>3. d = Entry(machine.pc, <<"access", op % 8>>, Pair(machine.pc) % 16, 0, Long(machine.pc))
    <3>1. d = Entry(machine.pc, <<"access", op % 8>>,
                    IF op % 8 < 4 THEN Destination(Pair(machine.pc) \div 16)
                                  ELSE Pair(machine.pc) % 16, 0, Long(machine.pc))
      BY <1>1, <2>1, DecodedIs, Zenon
    <3> QED
      BY <3>1, <2>2, Zenon
  <2>4. a \in Words
    BY <2>3, RightIs
  <2>5. v \in Words
    <3>1. d.a = Pair(machine.pc) % 16
      BY <2>3 DEF Entry
    <3>2. /\ Pair(machine.pc) % 16 \in 0 .. 15
          /\ \A r \in 0 .. 15 : machine.regs[r] \in Words
      BY SeenIs
    <3> QED
      BY <3>1, <3>2, Zenon
  <2>6. AccessSize(code) \in {1, 2, 4}
    BY DEF AccessSize
  <2>7. d.uop[1] = "access"
    BY <1>5 DEF Stores
  <2>8. code # 3 /\ code # 7 /\ ~ (code < 3)
    BY <2>1
  <2>9. Performed(d) = [machine EXCEPT !.memory = x]
    <3>1. \A k : k = code /\ k # 3 /\ k # 7 /\ ~ (k < 3) =>
            Performed(d) = [machine EXCEPT !.memory = Stored(f, a, v, AccessSize(k))]
      BY <2>7 DEF Performed
    <3> QED
      BY <3>1, <2>8, Zenon
  <2> HIDE DEF x
  <2>10. Performed(d).memory = x
    BY <2>9, <1>2 DEF FieldNames
  <2>11. Performed(d).memory = Stored(machine.memory, Right(d), v, AccessSize(d.uop[2]))
    BY <2>10, Zenon DEF x
  <2> QED
    BY <2>4, <2>5, <2>6, <2>11, <1>5, Zenon
<1> QED
  BY <1>4, <1>5

(* An entry the store does not clear was decoded from bytes it left alone. *)
LEMMA ClearedIsFresh ==
  ASSUME IsMachine(machine, Sink), Fresh, UNCHANGED settings,
         NEW a \in Words, NEW v \in Words, NEW size \in {1, 2, 4},
         machine'.memory = Stored(machine.memory, a, v, size),
         table' = Cleared(a, size)
  PROVE  Fresh'
<1> DEFINE f == machine.memory
           L == Length(f)
<1>1. /\ IsMemory(f) /\ DOMAIN f # {} /\ Positions = DOMAIN f
      /\ a \in Nat
  <2>1. IsMemory(f) /\ DOMAIN f # {}
    BY MachineHasFields
  <2>2. a \in Nat
    BY WordIs DEF Words
  <2> QED
    BY <2>1, <2>2 DEF Positions
<1>2. L \in Nat \ {0}
  BY <1>1, Wraps
<1>3. /\ DOMAIN Stored(f, a, v, size) = DOMAIN f
      /\ \A q \in DOMAIN f : Place(f, a, q) >= size => Stored(f, a, v, size)[q] = f[q]
  BY <1>1, StoredIs
<1>4. Positions' = Positions /\ DOMAIN machine'.memory = DOMAIN f
  BY <1>3 DEF Positions
<1>5. Length(machine'.memory) = Length(machine.memory)
  BY <1>4, Zenon DEF Length
<1>6. /\ table' = [p \in Positions |-> table'[p]]
      /\ \A p \in Positions :
           table'[p] = IF p \in Overlapped(a, size) THEN Invalid ELSE table[p]
  BY DEF Cleared
<1>7. \A p : p \in Overlapped(a, size) <=> \E delta \in 1 .. size + 3 : p = (a + delta + L - 4) % L
  BY DEF Overlapped, Positions, Length
<1>8. ASSUME NEW p \in Positions PROVE FreshEntry(p)'
  <2>1. CASE p \in Overlapped(a, size)
    <3>1. table'[p].valid = FALSE
      BY <2>1, <1>6 DEF Invalid
    <3> QED
      BY <3>1 DEF FreshEntry
  <2>2. CASE p \notin Overlapped(a, size) /\ ~ table[p].valid
    <3>1. ~ table'[p].valid
      BY <2>2, <1>6
    <3> QED
      BY <3>1 DEF FreshEntry
  <2>3. CASE p \notin Overlapped(a, size) /\ table[p].valid
    <3>0. PICK tag : tag = table[p].tag
      OBVIOUS
    <3>1. table'[p] = table[p]
      BY <2>3, <1>6
    <3>2. tag \in Words /\ tag % L = p /\ table[p] = Decoded(tag)
      BY <2>3, <3>0 DEF Fresh, FreshEntry
    <3>3. tag \in Nat
      BY <3>2, WordIs DEF Words
    <3>4. ASSUME NEW n \in 0 .. 3 PROVE f[(tag + n) % L] = machine'.memory[(tag + n) % L]
      <4> DEFINE q == (tag + n) % L
      <4>1. q \in DOMAIN f
        <5>1. tag + n \in Int
          BY <3>3
        <5> QED
          BY <5>1, <1>1, Wraps
      <4>2. ~ (Place(f, a, q) < size)
        <5>1. ASSUME (((tag + n) % L) + L - (a % L)) % L < size PROVE FALSE
          <6>1. Reaches(L, tag, n, a, size)
            BY <5>1, Zenon DEF Reaches
          <6>2. Clears(L, tag, a, size)
            BY <6>1, <1>1, <1>2, <3>3, OverlapFound
          <6>3. \E delta \in 1 .. size + 3 : (a + delta + L - 4) % L = tag % L
            BY <6>2, Zenon DEF Clears
          <6>4. p \in Overlapped(a, size)
            BY <6>3, <3>2, <1>7, Zenon
          <6> QED
            BY <6>4, <2>3
        <5> QED
          BY <5>1, Zenon DEF Place
      <4>3. Place(f, a, q) \in Int
        <5> DEFINE x == q + L - (a % L)
        <5>1. q \in Int
          BY <4>1, <1>1, Wraps
        <5>2. a % L \in Int
          BY <1>1, <1>2, DivMod
        <5> HIDE DEF q, L
        <5>3. x \in Int
          BY <5>1, <5>2, <1>2
        <5> HIDE DEF x
        <5>4. x % L \in Int
          BY <5>3, <1>2, DivMod
        <5> QED
          BY <5>4, Zenon DEF Place, x, L
      <4>4. Place(f, a, q) >= size
        <5> DEFINE z == Place(f, a, q)
        <5>1. z \in Int /\ ~ (z < size)
          BY <4>2, <4>3
        <5> HIDE DEF z
        <5>2. z >= size
          BY <5>1
        <5> QED
          BY <5>2 DEF z
      <4> HIDE DEF q
      <4>5. Stored(f, a, v, size)[q] = f[q]
        BY <4>1, <4>4, <1>3
      <4> QED
        BY <4>5 DEF q
    <3>5. Decoded(tag)' = Decoded(tag)
      <4>1. DOMAIN machine.memory = DOMAIN machine'.memory
        BY <1>4
      <4>2. \A n \in 0 .. 3 : machine.memory[(tag + n) % Length(machine.memory)] =
                              machine'.memory[(tag + n) % Length(machine.memory)]
        BY <3>4, Zenon
      <4> HIDE DEF f
      <4> QED
        BY <3>3, <4>1, <4>2, DecodedSame
    <3> QED
      BY <3>0, <3>1, <3>2, <3>5, <1>5 DEF FreshEntry
  <2> QED
    BY <2>1, <2>2, <2>3
<1> QED
  BY <1>4, <1>6, <1>8 DEF Fresh

(* The entry a handler runs on is that of the instruction at the PC.       *)
LEMMA EntryIs ==
  ASSUME IInv, phase = "dispatch"
  PROVE  table[Here] = Decoded(machine.pc)
<1>1. IsMachine(machine, Sink) /\ Fresh /\ Phases
  BY DEF IInv
<1>2. Here \in Positions
  BY <1>1, HereIs
<1>3. table[Here].valid /\ table[Here].tag = machine.pc
  BY <1>1 DEF Phases
<1> QED
  BY <1>1, <1>2, <1>3 DEF Fresh, FreshEntry

(* What Dispatch does when the instruction does not fail.                  *)
LEMMA DispatchIs ==
  ASSUME IInv, Dispatch, NEW d, d = table[Here], ~ Fails(d)
  PROVE  /\ machine' = [Performed(d) EXCEPT !.pc = Target(d), !.steps = @ + 1]
         /\ d = Decoded(machine.pc) /\ Step(Performed(d)) /\ Target(d) \in Words
         /\ IsMachine(machine', Sink)
         /\ machine'.memory = Performed(d).memory
         /\ machine'.pc = Target(d) /\ machine'.steps = machine.steps + 1
<1>1. IsMachine(machine, Sink) /\ IsSettings(settings)
  BY DEF IInv
<1>2. phase = "dispatch"
  BY DEF Dispatch
<1>3. d = Decoded(machine.pc)
  BY <1>2, EntryIs
<1>4. machine' = [Performed(d) EXCEPT !.pc = Target(d), !.steps = @ + 1]
  BY Zenon DEF Dispatch
<1>5. ~ Fails(Decoded(machine.pc))
  BY <1>3
<1>6. Step(Performed(d)) /\ Target(d) \in Words
  BY <1>1, <1>3, <1>5, StepIs, TargetIs
<1> DEFINE m == Performed(d)
           t == Target(d)
<1>7. IsMachine(m, Sink) /\ m.steps = machine.steps
  BY <1>6 DEF Step
<1> HIDE DEF m, t
<1>8. t \in Words /\ machine' = [m EXCEPT !.pc = t, !.steps = @ + 1]
  BY <1>4, <1>6 DEF m, t
<1>9. /\ IsMachine(machine', Sink) /\ machine'.memory = m.memory
      /\ machine'.pc = t /\ machine'.steps = m.steps + 1
  BY <1>7, <1>8, AdvanceIs, Zenon
<1> QED
  BY <1>3, <1>4, <1>6, <1>7, <1>9 DEF m, t

(* A handler (native_emulator.c:659-850).                                  *)
LEMMA DispatchInv == IInv /\ Dispatch => IInv'
<1> SUFFICES ASSUME IInv, Dispatch PROVE IInv'
  OBVIOUS
<1>1. IsMachine(machine, Sink) /\ IsSettings(settings) /\ Fresh /\ Phases
  BY DEF IInv
<1>2. PICK d : d = table[Here]
  OBVIOUS
<1>3. UNCHANGED settings /\ bound' = bound /\ phase = "dispatch"
  BY DEF Dispatch
<1>4. CASE Fails(d)
  <2>1. machine' = machine /\ table' = table /\ phase' = "raised"
    BY <1>2, <1>4, Zenon DEF Dispatch
  <2>2. Fresh'
    BY <1>1, <1>3, <2>1, FreshKept
  <2>3. Phases'
    BY <1>1, <1>3, <2>1 DEF Phases
  <2> QED
    BY <1>1, <1>3, <2>1, <2>2, <2>3 DEF IInv, IsSettings
<1>5. CASE ~ Fails(d)
  <2>1. /\ d = Decoded(machine.pc)
        /\ IsMachine(machine', Sink)
        /\ machine'.memory = Performed(d).memory
        /\ machine'.pc = Target(d) /\ machine'.steps = machine.steps + 1
    BY <1>2, <1>5, DispatchIs
  <2>2. /\ table' = TableAfter(d)
        /\ phase' = IF \/ d.uop[1] = "screen_callback" /\ Right(d) \in settings.stops
                       \/ Target(d) = machine.pc
                       THEN "returned"
                    ELSE IF machine.steps + 1 >= bound THEN "between"
                    ELSE IF Target(d) = settings.halt THEN "returned" ELSE "fetch"
    BY <1>2, <1>5, Zenon DEF Dispatch
  <2>3. Fresh'
    <3>1. CASE Stores(d)
      <4>1. PICK v \in Words : machine'.memory = Stored(machine.memory, Right(d), v, AccessSize(d.uop[2]))
        BY <3>1, <2>1, <1>1, <1>5, MemoryIs, Zenon
      <4>2. Right(d) \in Words /\ AccessSize(d.uop[2]) \in {1, 2, 4}
        BY <3>1, <2>1, <1>1, <1>5, MemoryIs, Zenon
      <4>3. table' = Cleared(Right(d), AccessSize(d.uop[2]))
        BY <3>1, <2>2, Zenon DEF TableAfter, Stores
      <4> QED
        BY <4>1, <4>2, <4>3, <1>1, <1>3, ClearedIsFresh
    <3>2. CASE ~ Stores(d)
      <4>1. machine'.memory = machine.memory
        BY <3>2, <2>1, <1>1, <1>5, MemoryIs, Zenon
      <4>2. table' = table
        BY <3>2, <2>2, Zenon DEF TableAfter, Stores
      <4> QED
        BY <4>1, <4>2, <1>1, <1>3, FreshKept
    <3> QED
      BY <3>1, <3>2
  <2>4. Phases'
    <3>1. machine.steps \in Nat /\ bound \in Nat
      BY <1>1, MachineHasFields DEF Phases
    <3>2. /\ phase' \in {"between", "fetch", "returned"}
          /\ phase' = "fetch" => ~ (machine.steps + 1 >= bound) /\ Target(d) # settings.halt
      BY <2>2, Zenon
    <3>3. phase' = "fetch" => machine.steps + 1 < bound /\ Target(d) # settings.halt
      BY <3>1, <3>2
    <3> QED
      BY <3>2, <3>3, <2>1, <1>1, <1>3 DEF Phases
  <2> QED
    BY <1>1, <1>3, <2>1, <2>3, <2>4 DEF IInv, IsSettings
<1> QED
  BY <1>4, <1>5

LEMMA NextInv == IInv /\ [NativeNext]_vars => IInv'
BY StartChunkInv, LimitExceededInv, FetchInv, DispatchInv, StutterInv DEF NativeNext

(* The invariant of the native emulator.                                   *)
THEOREM Invariance == NativeSpec => []IInv
BY InitInv, NextInv, PTL DEF NativeSpec

(* A decoded instruction is the one that is in memory now, whatever program*)
(* writes over itself, in however many chunks (native_emulator.c:491-499,  *)
(* 615-620).                                                               *)
THEOREM TableIsFreshTheorem == NativeSpec => []TableIsFresh
<1>1. IInv => TableIsFresh
  BY DEF IInv, Fresh, FreshEntry, TableIsFresh
<1> QED
  BY <1>1, Invariance, PTL

-----------------------------------------------------------------------------
(* The state of the reference that the native emulator shows.              *)
Status == IF phase = "between" THEN AtHead(machine, settings)
          ELSE IF Ended THEN phase ELSE "running"

(* An iteration of the reference, on what is shown of the machine.         *)
Iterates ==
  /\ Status = "running"
  /\ IF Raises(View(machine))
       THEN Status' = "raised" /\ View(machine)' = View(machine)
       ELSE /\ View(machine)' = Stepped(View(machine), settings)
            /\ Status' = IF StopRequested(View(machine), settings)
                              \/ View(machine)'.pc = View(machine).pc
                           THEN "returned" ELSE AtHead(View(machine)', settings)
  /\ UNCHANGED settings

LEMMA ReferenceIterates == Iterates <=> Reference!Iterate
BY Zenon DEF Iterates, Reference!Iterate, View, Status

LEMMA AtHeadIs ==
  ASSUME NEW m, m = [f \in FieldNames |-> m[f]], NEW c
  PROVE  AtHead(View(m), c) = AtHead(m, c)
BY ViewIs DEF AtHead

(* Three of the steps the reference does not see.                          *)
LEMMA StartChunkRefines ==
  ASSUME IInv, StartChunk
  PROVE  View(machine)' = View(machine) /\ settings' = settings /\ Status' = Status
<1>1. IsMachine(machine, Sink) /\ IsSettings(settings)
  BY DEF IInv
<1>2. /\ machine' = [machine EXCEPT !.regs[Sink] = 0] /\ settings' = settings
      /\ phase = "between" /\ machine.steps < settings.limit
      /\ phase' = IF machine.pc = settings.halt THEN "returned" ELSE "fetch"
  BY DEF StartChunk
<1>3. View(machine') = View(machine)
  BY <1>1, <1>2, SinkClearedIs, Zenon
<1>4. machine.steps \in Nat /\ settings.limit \in Nat
  BY <1>1, MachineHasFields DEF IsSettings
<1>5. AtHead(machine, settings) = IF machine.pc = settings.halt THEN "returned" ELSE "running"
  BY <1>2, <1>4 DEF AtHead
<1>6. Status' = Status
  BY <1>2, <1>5 DEF Status, Ended
<1> QED
  BY <1>2, <1>3, <1>6

LEMMA LimitExceededRefines ==
  ASSUME IInv, LimitExceeded
  PROVE  View(machine)' = View(machine) /\ settings' = settings /\ Status' = Status
<1>1. /\ machine' = machine /\ settings' = settings
      /\ phase = "between" /\ machine.steps >= settings.limit /\ phase' = "limit"
  BY DEF LimitExceeded
<1>2. AtHead(machine, settings) = "limit"
  BY <1>1 DEF AtHead
<1> QED
  BY <1>1, <1>2 DEF Status, Ended

LEMMA FetchRefines ==
  ASSUME IInv, Fetch
  PROVE  View(machine)' = View(machine) /\ settings' = settings /\ Status' = Status
<1>1. /\ machine' = machine /\ settings' = settings
      /\ phase = "fetch" /\ phase' = "dispatch"
  BY DEF Fetch
<1> QED
  BY <1>1 DEF Status, Ended

LEMMA StutterRefines ==
  ASSUME UNCHANGED vars
  PROVE  View(machine)' = View(machine) /\ settings' = settings /\ Status' = Status
<1>1. machine' = machine /\ settings' = settings /\ phase' = phase
  BY DEF vars
<1> QED
  BY <1>1 DEF Status, Ended, AtHead

(* A handler is an iteration, unless it takes a short branch.              *)
LEMMA DispatchRefines ==
  ASSUME IInv, Dispatch, ~ ShortJump
  PROVE  Iterates
<1>1. /\ IsMachine(machine, Sink) /\ IsSettings(settings) /\ Phases
  BY DEF IInv
<1>2. PICK d : d = table[Here]
  OBVIOUS
<1>3. settings' = settings /\ bound' = bound /\ phase = "dispatch"
  BY DEF Dispatch
<1>4. d = Decoded(machine.pc)
  BY <1>2, <1>3, EntryIs
<1>5. Status = "running"
  BY <1>3 DEF Status, Ended
<1>6. Fails(d) <=> Raises(View(machine))
  BY <1>1, <1>4, FailsIs, Zenon
<1>7. CASE Fails(d)
  <2>1. machine' = machine /\ phase' = "raised"
    BY <1>2, <1>7, Zenon DEF Dispatch
  <2>2. Status' = "raised" /\ View(machine)' = View(machine)
    BY <2>1 DEF Status, Ended
  <2> QED
    BY <2>2, <1>3, <1>5, <1>6, <1>7, Zenon DEF Iterates
<1>8. CASE ~ Fails(d)
  <2> DEFINE s == View(machine)
             t == Target(d)
             stop == d.uop[1] = "screen_callback" /\ Right(d) \in settings.stops
  <2>1. /\ machine' = [Performed(d) EXCEPT !.pc = t, !.steps = @ + 1]
        /\ Step(Performed(d)) /\ t \in Words
        /\ IsMachine(machine', Sink)
        /\ machine'.pc = t /\ machine'.steps = machine.steps + 1
    BY <1>2, <1>8, DispatchIs
  <2>2. phase' = IF stop \/ t = machine.pc THEN "returned"
                 ELSE IF machine.steps + 1 >= bound THEN "between"
                 ELSE IF t = settings.halt THEN "returned" ELSE "fetch"
    BY <1>2, <1>8, Zenon DEF Dispatch
  <2>3. t = NextPC(s, settings)
    <3>1. ~ ShortBranch(s)
      BY <1>3 DEF ShortJump
    <3> QED
      BY <3>1, <1>1, <1>4, <1>8, TargetIs, Zenon
  <2>4. stop <=> StopRequested(s, settings)
    BY <1>1, <1>4, StopIs, Zenon
  <2>5. View(machine)' = Stepped(s, settings)
    <3> DEFINE m == Performed(d)
    <3>1. IsMachine(m, Sink) /\ View(m) = Executed(s, settings)
      BY <2>1 DEF Step
    <3>2. View(machine') = [View(m) EXCEPT !.pc = t, !.steps = @ + 1]
      <4> HIDE DEF m, t
      <4>1. machine' = [m EXCEPT !.pc = t, !.steps = @ + 1] /\ t \in Words
        BY <2>1 DEF m
      <4> QED
        BY <4>1, <3>1, AdvanceIs, Zenon
    <3>3. View(machine') = [Executed(s, settings) EXCEPT !.pc = NextPC(s, settings), !.steps = @ + 1]
      BY <3>1, <3>2, <2>3, Zenon
    <3>4. View(machine)' = View(machine')
      BY DEF View
    <3> QED
      BY <3>3, <3>4, Zenon DEF Stepped
  <2>6. machine' = [f \in FieldNames |-> machine'[f]]
    <3>1. PICK n : n = machine'
      OBVIOUS
    <3>2. IsMachine(n, Sink)
      BY <3>1, <2>1, Zenon
    <3>3. n = [f \in FieldNames |-> n[f]]
      BY <3>2, MachineHasFields
    <3> QED
      BY <3>1, <3>3
  <2>7. s.pc = machine.pc /\ View(machine)'.pc = t
    <3>1. s.pc = machine.pc
      BY <1>1, SeenIs
    <3>2. machine' = [f \in FieldNames |-> machine'[f]]
      BY <2>6
    <3>3. View(machine').pc = machine'.pc
      BY <3>2, ViewIs
    <3>4. View(machine)' = View(machine')
      BY DEF View
    <3> QED
      BY <3>1, <3>3, <3>4, <2>1
  <2>8. AtHead(View(machine)', settings) = AtHead(machine', settings)
    <3>1. machine' = [f \in FieldNames |-> machine'[f]]
      BY <2>6
    <3>2. View(machine)' = View(machine')
      BY DEF View
    <3> QED
      BY <3>1, <3>2, AtHeadIs, Zenon
  <2>9. machine.steps \in Nat /\ bound \in Nat /\ settings.limit \in Nat /\ bound <= settings.limit
    BY <1>1, MachineHasFields DEF Phases, IsSettings
  <2>10. Status' = IF stop \/ t = machine.pc THEN "returned" ELSE AtHead(machine', settings)
    <3> HIDE DEF t, stop
    <3>1. CASE stop \/ t = machine.pc
      BY <3>1, <2>2 DEF Status, Ended
    <3>2. CASE ~ (stop \/ t = machine.pc) /\ machine.steps + 1 >= bound
      BY <3>2, <2>2, <1>3 DEF Status, AtHead
    <3>3. CASE ~ (stop \/ t = machine.pc) /\ ~ (machine.steps + 1 >= bound)
      <4>1. ~ (machine'.steps >= settings.limit)
        BY <3>3, <2>1, <2>9
      <4>2. phase' = IF t = settings.halt THEN "returned" ELSE "fetch"
        BY <3>3, <2>2
      <4>3. AtHead(machine', settings) = IF t = settings.halt THEN "returned" ELSE "running"
        BY <4>1, <2>1 DEF AtHead
      <4> QED
        BY <3>3, <4>2, <4>3 DEF Status, Ended
    <3> QED
      BY <3>1, <3>2, <3>3
  <2> HIDE DEF s, t, stop
  <2>11. Status' = IF StopRequested(s, settings) \/ View(machine)'.pc = s.pc THEN "returned"
                   ELSE AtHead(View(machine)', settings)
    BY <2>4, <2>7, <2>8, <2>10, Zenon
  <2> QED
    BY <2>5, <2>11, <1>3, <1>5, <1>6, <1>8, Zenon DEF Iterates, s
<1> QED
  BY <1>7, <1>8

LEMMA NextRefines ==
  IInv /\ ~ ShortJump /\ [NativeNext]_vars =>
    Iterates \/ (View(machine)' = View(machine) /\ settings' = settings /\ Status' = Status)
BY StartChunkRefines, LimitExceededRefines, FetchRefines, StutterRefines, DispatchRefines
   DEF NativeNext

LEMMA InitRefines ==
  ASSUME NativeInit
  PROVE  Status = AtHead(View(machine), settings)
<1>1. IInv
  BY InitInv
<1>2. machine = [f \in FieldNames |-> machine[f]]
  BY <1>1, MachineHasFields DEF IInv
<1>3. phase = "between"
  BY DEF NativeInit
<1> QED
  BY <1>2, <1>3, AtHeadIs DEF Status

(* The native emulator implements the reference: in whatever chunks it     *)
(* runs, whatever the program writes over its own instructions, it takes   *)
(* the reference's steps, and it stops where and why the reference does, as*)
(* long as no branch of a Symphony program leads into its own bytes.       *)
THEOREM Refinement == NativeSpec /\ []~ ShortJump => ImplementsReference
<1>1. NativeInit =>
        (IF phase = "between" THEN AtHead(machine, settings) ELSE IF Ended THEN phase ELSE "running")
          = AtHead([machine EXCEPT !.regs = [r \in 0 .. 15 |-> @[r]]], settings)
  <2>1. NativeInit => Status = AtHead(View(machine), settings)
    BY InitRefines
  <2> QED
    BY <2>1, Zenon DEF Status, View
<1>2. IInv /\ ~ ShortJump /\ [NativeNext]_vars =>
        [Reference!Iterate]_<<[machine EXCEPT !.regs = [r \in 0 .. 15 |-> @[r]]], settings,
                              IF phase = "between" THEN AtHead(machine, settings)
                              ELSE IF Ended THEN phase ELSE "running">>
  <2>1. IInv /\ ~ ShortJump /\ [NativeNext]_vars =>
          [Reference!Iterate]_<<View(machine), settings, Status>>
    BY NextRefines, ReferenceIterates
  <2> QED
    BY <2>1, Zenon DEF View, Status
<1> QED
  BY <1>1, <1>2, Invariance, PTL DEF NativeSpec, ImplementsReference, Reference!Spec

(* A Dynphony run implements the reference whatever its branches do.       *)
Dynphony == ~ settings.symphony

THEOREM DynphonyRefinement ==
  ASSUME \A job \in Jobs : ~ job[2].symphony
  PROVE  NativeSpec => ImplementsReference
<1>1. NativeInit => Dynphony
  BY DEF NativeInit, Dynphony
<1>2. Dynphony /\ [NativeNext]_vars => Dynphony'
  BY DEF Dynphony, NativeNext, StartChunk, LimitExceeded, Fetch, Dispatch, vars
<1>3. Dynphony => ~ ShortJump
  BY DEF Dynphony, ShortJump, ShortBranch
<1> QED
  BY <1>1, <1>2, <1>3, Refinement, PTL DEF NativeSpec
=============================================================================
