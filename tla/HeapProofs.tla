----------------------------- MODULE HeapProofs -----------------------------
(***************************************************************************)
(* Proofs about the run-time heap.  The allocator's functions take a heap   *)
(* and return one, so most of the work is about them: each is shown to take *)
(* a good heap (blocks that tile, a sorted and coalesced free list) to a    *)
(* good heap, and to say which blocks it took from nobody and left to their *)
(* holders.  The calls of a program follow from that, and the invariant     *)
(* IInv and the refinement of Allocator from the calls.                     *)
(***************************************************************************)
EXTENDS Heap, Lemmas

(* A multiple of a word.                                                    *)
Aligned(a) == a % 4 = 0

(* The block at b ends where another one begins, or the heap ends, and no   *)
(* block begins inside it.                                                  *)
Block(s, e, b) ==
  /\ b \in Nat /\ Aligned(b) /\ Base <= b
  /\ s[b] \in Nat /\ Aligned(s[b])
  /\ b + 8 + s[b] <= e
  /\ b + 8 + s[b] \in DOMAIN s \cup {e}
  /\ \A c \in DOMAIN s : c <= b \/ c >= b + 8 + s[b]

(* Blocks of sizes s tile the heap up to e.                                 *)
Blocks(s, e) ==
  /\ e \in Nat /\ Aligned(e) /\ Base <= e /\ e <= Modulus
  /\ s = [b \in DOMAIN s |-> s[b]]
  /\ \A b \in DOMAIN s : Block(s, e, b)
  /\ DOMAIN s = {} => e = Base
  /\ DOMAIN s # {} => Base \in DOMAIN s

(* The list f is in the order of addresses.                                 *)
Sorted(s, f) ==
  /\ f \in Seq(DOMAIN s)
  /\ \A i, j \in 1 .. Len(f) : i < j => f[i] < f[j]

(* No free block touches the next one, the positions S aside.               *)
ApartBut(s, f, S) ==
  \A k \in 1 .. Len(f) - 1 : k \in S \/ f[k] + 8 + s[f[k]] # f[k + 1]

(* The blocks of the list f, and those a program holds.                     *)
Listed(f) == {f[i] : i \in 1 .. Len(f)}

HeldOf(s, f) == DOMAIN s \ Listed(f)

(* What a heap is between two calls.                                        *)
Good(s, f, e) == Blocks(s, e) /\ Sorted(s, f) /\ ApartBut(s, f, {})

-----------------------------------------------------------------------------
(* Sums and differences of multiples of four are multiples of four: the     *)
(* sizes malloc rounds up and the addresses it computes from them           *)
(* (helpers.py:109-130).                                                    *)
LEMMA Aligning ==
  /\ \A a, b \in Nat : Aligned(a) /\ Aligned(b) => Aligned(a + b)
  /\ \A a, b \in Nat : Aligned(a) /\ Aligned(b) /\ b <= a => Aligned(a - b)
  /\ Aligned(8) /\ Aligned(0) /\ Aligned(Base) /\ Aligned(Modulus)
BY HeapAssumption DEF Aligned

(* Block c merged into the block b before it.                               *)
Joined(s, b, c) ==
  [a \in DOMAIN s \ {c} |-> IF a = b THEN s[b] + 8 + s[c] ELSE s[a]]

(* Blocks that tile the heap still do when a block takes in the one after   *)
(* it, as free does on either side (helpers.py:143-155).                    *)
LEMMA JoinedBlocks ==
  ASSUME NEW s, NEW e, Blocks(s, e),
         NEW b \in DOMAIN s, NEW c \in DOMAIN s, b + 8 + s[b] = c
  PROVE  Blocks(Joined(s, b, c), e)
<1> DEFINE t == Joined(s, b, c)
<1>1. /\ Block(s, e, b) /\ Block(s, e, c)
      /\ e \in Nat /\ Aligned(e) /\ Base <= e /\ e <= Modulus
      /\ Base \in DOMAIN s /\ Base \in Nat
  BY HeapAssumption DEF Blocks
<1>2. b \in Nat /\ s[b] \in Nat /\ c \in Nat /\ s[c] \in Nat /\ b < c
  BY <1>1 DEF Block
<1>3. /\ DOMAIN t = DOMAIN s \ {c} /\ t[b] = s[b] + 8 + s[c]
      /\ \A a \in DOMAIN t : a # b => t[a] = s[a]
      /\ t = [a \in DOMAIN t |-> t[a]]
      /\ b \in DOMAIN t
  BY <1>2 DEF Joined
<1> HIDE DEF t
<1>4. b + 8 + t[b] = c + 8 + s[c]
  BY <1>2, <1>3
<1>5. Aligned(t[b])
  BY <1>1, <1>2, <1>3, Aligning DEF Block
<1>6. Block(t, e, b)
  <2>1. ASSUME NEW d \in DOMAIN t PROVE d <= b \/ d >= c + 8 + s[c]
    <3>1. d \in DOMAIN s /\ d # c /\ d \in Nat
      BY <1>3 DEF Blocks, Block
    <3>2. (d <= b \/ d >= c) /\ (d <= c \/ d >= c + 8 + s[c])
      BY <1>1, <3>1 DEF Block
    <3> QED
      BY <1>2, <3>1, <3>2
  <2>2. c + 8 + s[c] \in DOMAIN t \cup {e}
    BY <1>1, <1>2, <1>3 DEF Block
  <2>3. t[b] \in Nat
    BY <1>2, <1>3
  <2> QED
    BY <1>1, <1>4, <1>5, <2>1, <2>2, <2>3 DEF Block
<1>7. ASSUME NEW a \in DOMAIN t, a # b PROVE Block(t, e, a)
  <2>1. a \in DOMAIN s /\ a # c /\ t[a] = s[a] /\ Block(s, e, a)
    BY <1>3, <1>7 DEF Blocks
  <2>2. a + 8 + s[a] # c
    <3>1. (b <= a \/ b >= a + 8 + s[a]) /\ (a <= b \/ a >= c)
      BY <1>1, <2>1 DEF Block
    <3> QED
      BY <1>2, <1>7, <2>1, <3>1 DEF Block
  <2> QED
    BY <1>3, <2>1, <2>2 DEF Block
<1>8. Base # c
  BY <1>1, <1>2 DEF Block
<1>9. Blocks(t, e)
  BY <1>1, <1>3, <1>6, <1>7, <1>8 DEF Blocks
<1> QED
  BY <1>9 DEF t

(* What the parts of a heap are.                                            *)
LEMMA HeapFields ==
  ASSUME NEW s, NEW f, NEW e
  PROVE  HeapOf(s, f, e).size = s /\ HeapOf(s, f, e).free = f /\ HeapOf(s, f, e).end = e
BY DEF HeapOf

(* What free's look at one neighbour comes to: the blocks joined and the    *)
(* second one off the list, or nothing (helpers.py:143-155).                *)
LEMMA MergedIs ==
  ASSUME NEW s, NEW f, NEW e, NEW i, Blocks(s, e), Sorted(s, f)
  PROVE  Merged(HeapOf(s, f, e), i) =
           IF i \in 1 .. Len(f) - 1 /\ f[i] + 8 + s[f[i]] = f[i + 1]
             THEN HeapOf(Joined(s, f[i], f[i + 1]), RemoveAt(f, i + 1), e)
             ELSE HeapOf(s, f, e)
<1> DEFINE h == HeapOf(s, f, e)
<1>1. h.size = s /\ h.free = f /\ h.end = e
  BY HeapFields
<1> HIDE DEF h
<1>2. CASE ~ (i \in 1 .. Len(f) - 1 /\ f[i] + 8 + s[f[i]] = f[i + 1])
  <2>1. Merged(h, i) = h
    BY <1>1, <1>2 DEF Merged, After, HeaderSize
  <2> QED
    BY <1>2, <2>1 DEF h
<1>3. CASE i \in 1 .. Len(f) - 1 /\ f[i] + 8 + s[f[i]] = f[i + 1]
  <2>1. Merged(h, i) = HeapOf(With(Without(s, f[i+1]), f[i], s[f[i]] + 8 + s[f[i+1]]),
                              RemoveAt(f, i + 1), e)
    BY <1>1, <1>3 DEF Merged, After, HeaderSize
  <2> DEFINE b == f[i]
             c == f[i + 1]
  <2>2. b \in DOMAIN s /\ b \in Nat /\ s[b] \in Nat /\ b # c
    BY <1>3 DEF Sorted, Blocks, Block
  <2> HIDE DEF b, c
  <2>3. With(Without(s, c), b, s[b] + 8 + s[c]) = Joined(s, b, c)
    BY <2>2 DEF With, Without, Joined
  <2>4. Merged(h, i) = HeapOf(Joined(s, f[i], f[i + 1]), RemoveAt(f, i + 1), e)
    BY <2>1, <2>3 DEF b, c
  <2> QED
    BY <1>3, <2>4 DEF h
<1> QED
  BY <1>2, <1>3

(* The positions of S are at most i, and R has those that are not i.        *)
Leaves(S, i, R) ==
  /\ \A k \in S : k \in Nat /\ k <= i
  /\ S \subseteq R \cup {i}

(* Merging a free block with the next one leaves the heap tiled and the     *)
(* list sorted, takes nothing from a held block, and leaves only the        *)
(* touching pairs the list had elsewhere.                                   *)
LEMMA Merging ==
  ASSUME NEW s, NEW f, NEW e, Blocks(s, e), Sorted(s, f),
         NEW i \in Nat, NEW S, ApartBut(s, f, S), NEW R, Leaves(S, i, R)
  PROVE  \E t, g :
           /\ Merged(HeapOf(s, f, e), i) = HeapOf(t, g, e)
           /\ Blocks(t, e) /\ Sorted(t, g) /\ ApartBut(t, g, R)
           /\ HeldOf(t, g) = HeldOf(s, f)
           /\ \A b \in HeldOf(s, f) : t[b] = s[b]
<1>1. CASE ~ (i \in 1 .. Len(f) - 1 /\ f[i] + 8 + s[f[i]] = f[i + 1])
  <2>1. Merged(HeapOf(s, f, e), i) = HeapOf(s, f, e)
    BY <1>1, MergedIs
  <2>2. ApartBut(s, f, R)
    BY <1>1 DEF ApartBut, Leaves
  <2> QED
    BY <2>1, <2>2
<1>2. ASSUME NEW b, NEW c, b = f[i], c = f[i + 1],
             i \in 1 .. Len(f) - 1, b + 8 + s[b] = c
      PROVE  \E t, g :
               /\ Merged(HeapOf(s, f, e), i) = HeapOf(t, g, e)
               /\ Blocks(t, e) /\ Sorted(t, g) /\ ApartBut(t, g, R)
               /\ HeldOf(t, g) = HeldOf(s, f)
               /\ \A a \in HeldOf(s, f) : t[a] = s[a]
  <2> DEFINE t == Joined(s, b, c)
             g == RemoveAt(f, i + 1)
  <2>1. /\ f \in Seq(DOMAIN s) /\ i \in 1 .. Len(f) /\ i + 1 \in 1 .. Len(f)
        /\ b \in DOMAIN s /\ c \in DOMAIN s /\ b < c
        /\ \A j, k \in 1 .. Len(f) : j < k => f[j] < f[k]
    BY <1>2 DEF Sorted
  <2>2. \A a \in DOMAIN s : a \in Nat /\ s[a] \in Nat
    BY DEF Blocks, Block
  <2>3. Merged(HeapOf(s, f, e), i) = HeapOf(t, g, e)
    BY <1>2, MergedIs
  <2>4. /\ DOMAIN t = DOMAIN s \ {c} /\ t[b] = s[b] + 8 + s[c]
        /\ \A a \in DOMAIN t : a # b => t[a] = s[a]
    BY <2>1, <2>2 DEF Joined
  <2>5. /\ g \in Seq(DOMAIN s) /\ Len(g) = Len(f) - 1
        /\ \A k \in 1 .. Len(f) - 1 : g[k] = IF k < i + 1 THEN f[k] ELSE f[k + 1]
    BY <2>1, RemoveAtProperties
  <2>6. Blocks(t, e)
    BY <1>2, <2>1, JoinedBlocks
  <2> HIDE DEF t, g
  <2>7. ASSUME NEW k \in 1 .. Len(f), k # i + 1
        PROVE  f[k] \in DOMAIN s /\ f[k] \in Nat /\ f[k] # c /\ (k # i => f[k] # b)
    <3>0. f[k] \in DOMAIN s
      BY <2>1
    <3>1. f[k] \in DOMAIN s /\ f[k] \in Nat
      BY <3>0, <2>2
    <3>2. k < i + 1 => f[k] < c
      BY <1>2, <2>1
    <3>3. k > i + 1 => c < f[k]
      BY <1>2, <2>1
    <3>4. k < i => f[k] < b
      BY <1>2, <2>1
    <3>5. k > i => b < f[k]
      BY <1>2, <2>1
    <3>6. k \in Nat /\ i \in Nat /\ b \in Nat /\ c \in Nat
      BY <2>1, <2>2
    <3> QED
      BY <2>7, <3>1, <3>2, <3>3, <3>4, <3>5, <3>6
  <2>8. Sorted(t, g)
    <3>1. ASSUME NEW k \in 1 .. Len(g) PROVE g[k] \in DOMAIN t
      <4>1. k < i + 1 => g[k] = f[k]
        BY <2>5
      <4>2. k >= i + 1 => g[k] = f[k + 1]
        BY <2>5
      <4> QED
        BY <2>1, <2>4, <2>5, <2>7, <4>1, <4>2
    <3>2. g \in Seq(DOMAIN t)
      BY <2>5, <3>1
    <3>3. ASSUME NEW k \in 1 .. Len(g), NEW j \in 1 .. Len(g), k < j
          PROVE  g[k] < g[j]
      <4>1. (k < i + 1 /\ g[k] = f[k]) \/ (k >= i + 1 /\ g[k] = f[k + 1])
        BY <2>1, <2>5
      <4>2. (j < i + 1 /\ g[j] = f[j]) \/ (j >= i + 1 /\ g[j] = f[j + 1])
        BY <2>1, <2>5
      <4> QED
        BY <2>1, <2>5, <3>3, <4>1, <4>2
    <3> QED
      BY <3>2, <3>3 DEF Sorted
  <2>9. ApartBut(t, g, R)
    <3>1. SUFFICES ASSUME NEW k \in 1 .. Len(g) - 1, k \notin R
                   PROVE  g[k] + 8 + t[g[k]] # g[k + 1]
      BY DEF ApartBut
    <3>2. k \in 1 .. Len(f) - 1 /\ k + 1 \in 1 .. Len(f) - 1
      BY <2>1, <2>5
    <3>3. \A j \in 1 .. Len(f) - 1 : j \notin S => f[j] + 8 + s[f[j]] # f[j + 1]
      BY DEF ApartBut
    <3>4. CASE k < i
      <4>1. g[k] = f[k] /\ g[k + 1] = f[k + 1] /\ k \notin S
        BY <3>1, <3>2, <3>4, <2>1, <2>5 DEF Leaves
      <4>2. f[k] \in DOMAIN t /\ f[k] # b
        BY <3>2, <3>4, <2>1, <2>4, <2>7
      <4> QED
        BY <4>1, <4>2, <3>2, <3>3, <2>4
    <3>5. CASE k = i
      <4>0. i + 1 \notin S
        BY DEF Leaves
      <4>1. g[k] = b /\ g[k + 1] = f[(i + 1) + 1] /\ i + 1 \in 1 .. Len(f) - 1 /\ i + 1 \notin S
        BY <1>2, <3>2, <3>5, <2>1, <2>5, <4>0
      <4>2. c + 8 + s[c] # f[(i + 1) + 1]
        BY <4>1, <3>3, <1>2
      <4>3. b + 8 + t[b] = c + 8 + s[c]
        <5>1. b \in Nat /\ s[b] \in Nat /\ c \in Nat /\ s[c] \in Nat /\ t[b] = s[b] + 8 + s[c]
          BY <2>1, <2>2, <2>4
        <5>3. b + 8 + s[b] = c
          BY <1>2
        <5>4. b + 8 + (s[b] + 8 + s[c]) = c + 8 + s[c]
          <6>1. ASSUME NEW x \in Nat, NEW y \in Nat, NEW z \in Nat PROVE x + (y + 8 + z) = (x + y) + 8 + z
            OBVIOUS
          <6>2. b + 8 \in Nat
            BY <5>1
          <6>3. b + 8 + (s[b] + 8 + s[c]) = (b + 8 + s[b]) + 8 + s[c]
            BY <5>1, <6>1, <6>2
          <6> QED
            BY <5>3, <6>3, Zenon
        <5> QED
          BY <5>1, <5>4
      <4> QED
        BY <4>1, <4>2, <4>3
    <3>6. CASE k > i
      <4>0. k + 1 \notin S
        BY <3>2, <3>6 DEF Leaves
      <4>1. g[k] = f[k + 1] /\ g[k + 1] = f[(k + 1) + 1] /\ k + 1 \notin S
        BY <3>2, <3>6, <2>1, <2>5, <4>0
      <4>2. f[k + 1] \in DOMAIN t /\ f[k + 1] # b
        BY <3>2, <3>6, <2>1, <2>4, <2>7
      <4> QED
        BY <4>1, <4>2, <3>2, <3>3, <2>4
    <3> QED
      BY <3>4, <3>5, <3>6, <2>1
  <2>10. Listed(f) = Listed(g) \cup {c}
    <3>1. ASSUME NEW j \in 1 .. Len(f), j # i + 1 PROVE f[j] \in Listed(g)
      <4>1. CASE j < i + 1
        BY <4>1, <2>1, <2>5 DEF Listed
      <4>2. CASE j > i + 1
        <5>1. j - 1 \in 1 .. Len(g) /\ g[j - 1] = f[(j - 1) + 1] /\ (j - 1) + 1 = j
          BY <4>2, <2>1, <2>5
        <5> QED
          BY <5>1 DEF Listed
      <4> QED
        BY <3>1, <4>1, <4>2, <2>1
    <3>2. ASSUME NEW k \in 1 .. Len(g) PROVE g[k] \in Listed(f)
      <4>1. k \in 1 .. Len(f) /\ k + 1 \in 1 .. Len(f) /\ (g[k] = f[k] \/ g[k] = f[k + 1])
        BY <2>1, <2>5
      <4> QED
        BY <4>1 DEF Listed
    <3> QED
      BY <1>2, <3>1, <3>2, <2>1 DEF Listed
  <2>11. HeldOf(t, g) = HeldOf(s, f)
    BY <2>4, <2>10 DEF HeldOf
  <2>12. \A d \in HeldOf(s, f) : t[d] = s[d]
    <3>1. b \in Listed(f)
      BY <1>2, <2>1 DEF Listed
    <3> QED
      BY <3>1, <2>4, <2>10 DEF HeldOf
  <2> QED
    BY <2>3, <2>6, <2>8, <2>9, <2>11, <2>12
<1> QED
  BY <1>1, <1>2

-----------------------------------------------------------------------------
(* Block b cut down to n bytes; what is left is a block of its own.         *)
Cut(s, b, n) ==
  [a \in DOMAIN s \cup {b + 8 + n} |->
     IF a = b THEN n ELSE IF a = b + 8 + n THEN (s[b] - n) - 8 ELSE s[a]]

(* Blocks that tile the heap still do when one of them is split and the     *)
(* rest is large enough for a header and a word (helpers.py:90-99).         *)
LEMMA CutBlocks ==
  ASSUME NEW s, NEW e, Blocks(s, e), NEW b \in DOMAIN s,
         NEW n \in Nat, Aligned(n), s[b] - n >= 12
  PROVE  /\ Blocks(Cut(s, b, n), e)
         /\ b + 8 + n \notin DOMAIN s
<1> DEFINE t == Cut(s, b, n)
           r == b + 8 + n
           m == (s[b] - n) - 8
<1>1. /\ Block(s, e, b) /\ b \in Nat /\ s[b] \in Nat /\ e \in Nat /\ b + 8 + s[b] <= e
      /\ Aligned(b) /\ Aligned(s[b]) /\ Base \in Nat /\ Base <= b
  BY HeapAssumption DEF Blocks, Block
<1>2. /\ r \in Nat /\ m \in Nat /\ b < r /\ r < b + 8 + s[b] /\ r + 8 + m = b + 8 + s[b]
  BY <1>1
<1>3. Aligned(r) /\ Aligned(m)
  <2>1. \A x, y, z \in Nat :
          Aligned(x) /\ Aligned(y) /\ Aligned(z) /\ x - y >= 12
          => Aligned(z + 8 + y) /\ Aligned((x - y) - 8)
    BY DEF Aligned
  <2> QED
    BY <1>1, <2>1
<1>4. r \notin DOMAIN s
  BY <1>1, <1>2 DEF Block
<1>5. /\ DOMAIN t = DOMAIN s \cup {r} /\ t = [a \in DOMAIN t |-> t[a]]
      /\ t[b] = n /\ t[r] = m /\ \A a \in DOMAIN s : a # b => t[a] = s[a]
  BY <1>2, <1>4 DEF Cut
<1>6. b + 8 + s[b] \in DOMAIN s \cup {e} /\ \A c \in DOMAIN s : c <= b \/ c >= b + 8 + s[b]
  BY <1>1 DEF Block
<1>7. \A a \in DOMAIN s : Block(s, e, a) /\ a \in Nat /\ s[a] \in Nat
  BY DEF Blocks, Block
<1> HIDE DEF t, r, m
<1>8. Block(t, e, b)
  <2>1. \A c \in DOMAIN t : c <= b \/ c >= r
    BY <1>1, <1>2, <1>5, <1>6, <1>7
  <2>2. b + 8 + t[b] = r
    BY <1>5 DEF r
  <2> QED
    BY <1>1, <1>2, <1>5, <2>1, <2>2 DEF Block
<1>9. Block(t, e, r)
  <2>1. \A c \in DOMAIN t : c <= r \/ c >= r + 8 + m
    BY <1>1, <1>2, <1>5, <1>6, <1>7
  <2> QED
    BY <1>1, <1>2, <1>3, <1>5, <1>6, <2>1 DEF Block
<1>10. ASSUME NEW a \in DOMAIN s, a # b PROVE Block(t, e, a)
  <2>1. Block(s, e, a) /\ a \in Nat /\ s[a] \in Nat /\ t[a] = s[a]
    BY <1>5, <1>7, <1>10
  <2>2. r <= a \/ r >= a + 8 + s[a]
    <3>1. (a <= b \/ a >= b + 8 + s[b]) /\ (b <= a \/ b >= a + 8 + s[a])
      BY <2>1, <1>6 DEF Block
    <3> QED
      BY <1>1, <1>2, <1>10, <2>1, <3>1
  <2> QED
    BY <1>5, <2>1, <2>2 DEF Block
<1>11. Blocks(t, e)
  BY <1>5, <1>8, <1>9, <1>10 DEF Blocks
<1> QED
  BY <1>4, <1>11 DEF t, r

(* Blocks that tile the heap still do when it grows by one block            *)
(* (helpers.py:118-126).                                                    *)
LEMMA GrownBlocks ==
  ASSUME NEW s, NEW e, Blocks(s, e), NEW n \in Nat, Aligned(n), e + 8 + n <= Modulus
  PROVE  /\ Blocks(With(s, e, n), e + 8 + n)
         /\ e \notin DOMAIN s
<1> DEFINE t == With(s, e, n)
           d == e + 8 + n
<1>1. e \in Nat /\ Aligned(e) /\ Base <= e /\ e <= Modulus /\ Base \in Nat
  BY HeapAssumption DEF Blocks
<1>2. \A a \in DOMAIN s : Block(s, e, a) /\ a \in Nat /\ s[a] \in Nat /\ a + 8 + s[a] <= e
  BY DEF Blocks, Block
<1>3. e \notin DOMAIN s
  BY <1>1, <1>2
<1>4. /\ DOMAIN t = DOMAIN s \cup {e} /\ t = [a \in DOMAIN t |-> t[a]] /\ t[e] = n
      /\ \A a \in DOMAIN s : t[a] = s[a]
  BY <1>3 DEF With
<1>5. d \in Nat /\ Aligned(d) /\ e < d /\ d <= Modulus
  <2>1. Aligned(e + 8) /\ e + 8 \in Nat
    BY <1>1, Aligning
  <2> QED
    BY <1>1, <2>1, Aligning
<1> HIDE DEF t
<1>6. Block(t, d, e)
  <2>1. \A a \in DOMAIN t : a <= e
    BY <1>1, <1>2, <1>4
  <2> QED
    BY <1>1, <1>4, <1>5, <2>1 DEF Block
<1>7. ASSUME NEW a \in DOMAIN s PROVE Block(t, d, a)
  <2>1. Block(s, e, a) /\ a \in Nat /\ s[a] \in Nat /\ t[a] = s[a] /\ a + 8 + s[a] <= e
    BY <1>2, <1>4
  <2> QED
    BY <1>1, <1>4, <1>5, <2>1 DEF Block
<1>8. Base \in DOMAIN t
  BY <1>1, <1>4 DEF Blocks
<1>9. Blocks(t, d)
  BY <1>1, <1>4, <1>5, <1>6, <1>7, <1>8 DEF Blocks
<1> QED
  BY <1>3, <1>9 DEF t

-----------------------------------------------------------------------------
(* The block take_free stops at is on the list and large enough             *)
(* (helpers.py:81-107).                                                     *)
LEMMA FirstFitIs ==
  ASSUME NEW s, NEW f, NEW e, Blocks(s, e), Sorted(s, f), NEW n \in Nat
  PROVE  LET i == FirstFit(HeapOf(s, f, e), n)
         IN  i = 0 \/ (i \in 1 .. Len(f) /\ s[f[i]] >= n)
<1> DEFINE I == {k \in 1 .. Len(f) : s[f[k]] >= n}
<1>1. ASSUME NEW h, h.size = s, h.free = f
      PROVE  FirstFit(h, n) = IF I # {} THEN Min(I) ELSE 0
  BY <1>1 DEF FirstFit, SelectInSeq
<1>2. Len(f) \in Nat
  BY DEF Sorted
<1>3. I # {} => Min(I) \in I
  BY <1>2, FirstPosition
<1>4. FirstFit(HeapOf(s, f, e), n) = IF I # {} THEN Min(I) ELSE 0
  BY <1>1, HeapFields
<1> QED
  BY <1>3, <1>4

(* Taking a block off the free list, the rest of it put back when large     *)
(* enough, leaves a good heap in which that block is held.                  *)
LEMMA Taking ==
  ASSUME NEW s, NEW f, NEW e, Good(s, f, e), NEW i \in 1 .. Len(f),
         NEW n \in Nat, Aligned(n), s[f[i]] >= n
  PROVE  \E t, g :
           /\ TakeFree(HeapOf(s, f, e), i, n) = HeapOf(t, g, e)
           /\ Good(t, g, e)
           /\ f[i] \notin HeldOf(s, f)
           /\ HeldOf(t, g) = HeldOf(s, f) \cup {f[i]}
           /\ t[f[i]] >= n
           /\ \A a \in HeldOf(s, f) : t[a] = s[a]
<1> SUFFICES ASSUME NEW b, b = f[i]
             PROVE  \E t, g :
                      /\ TakeFree(HeapOf(s, f, e), i, n) = HeapOf(t, g, e)
                      /\ Good(t, g, e)
                      /\ b \notin HeldOf(s, f)
                      /\ HeldOf(t, g) = HeldOf(s, f) \cup {b}
                      /\ t[b] >= n
                      /\ \A a \in HeldOf(s, f) : t[a] = s[a]
  OBVIOUS
<1>1. /\ f \in Seq(DOMAIN s) /\ Len(f) \in Nat /\ i \in Nat /\ b = f[i]
      /\ \A j, k \in 1 .. Len(f) : j < k => f[j] < f[k]
      /\ \A k \in 1 .. Len(f) - 1 : f[k] + 8 + s[f[k]] # f[k + 1]
  BY DEF Good, Sorted, ApartBut
<1>2. \A a \in DOMAIN s :
        /\ a \in Nat /\ s[a] \in Nat
        /\ \A c \in DOMAIN s : c <= a \/ c >= a + 8 + s[a]
  BY DEF Good, Blocks, Block
<1>3. \A k \in 1 .. Len(f) : f[k] \in DOMAIN s /\ f[k] \in Nat /\ s[f[k]] \in Nat
  BY <1>1, <1>2
<1>4. b \in DOMAIN s /\ b \in Nat /\ s[b] \in Nat /\ s[b] >= n
  BY <1>1, <1>3
<1>5. b \notin HeldOf(s, f) /\ b \in Listed(f)
  BY <1>1 DEF HeldOf, Listed
<1>6. CASE s[b] - n >= 12
  <2> DEFINE r == b + 8 + n
             t == Cut(s, b, n)
             g == ReplaceAt(f, i, r)
  <2>1. TakeFree(HeapOf(s, f, e), i, n) =
          HeapOf(With(With(s, r, (s[b] - n) - 8), b, n), g, e)
    BY <1>6, <1>1, HeapFields DEF TakeFree, HeaderSize
  <2>2. With(With(s, r, (s[b] - n) - 8), b, n) = t
    <3>1. r # b
      BY <1>4
    <3> QED
      BY <1>4, <3>1 DEF With, Cut
  <2>3. Blocks(t, e) /\ r \notin DOMAIN s
    BY <1>4, <1>6, CutBlocks DEF Good
  <2>4. /\ DOMAIN t = DOMAIN s \cup {r} /\ t[b] = n /\ t[r] = (s[b] - n) - 8
        /\ \A a \in DOMAIN s : a # b => t[a] = s[a]
    BY <1>4, <2>3 DEF Cut
  <2>5. /\ r \in Nat /\ b < r /\ r < b + 8 + s[b]
        /\ r + 8 + ((s[b] - n) - 8) = b + 8 + s[b]
    <3>1. \A x, y \in Nat : y - n >= 12 =>
            /\ x + 8 + n \in Nat /\ x < x + 8 + n /\ x + 8 + n < x + 8 + y
            /\ (x + 8 + n) + 8 + ((y - n) - 8) = x + 8 + y
      OBVIOUS
    <3> QED
      BY <1>4, <1>6, <3>1
  <2>6. /\ g \in Seq(DOMAIN t) /\ Len(g) = Len(f)
        /\ g[i] = r /\ \A k \in 1 .. Len(f) : k # i => g[k] = f[k]
    BY <1>1, <2>4 DEF ReplaceAt
  <2> HIDE DEF t, g, r
  <2>7. ASSUME NEW k \in 1 .. Len(f), k # i
        PROVE  f[k] # b /\ (k < i => f[k] < r) /\ (k > i => r < f[k])
    <3>1. (k < i => f[k] < b) /\ (k > i => b < f[k])
      BY <1>1
    <3>2. f[k] \in Nat /\ k \in Nat /\ (f[k] <= b \/ f[k] >= b + 8 + s[b])
      BY <1>2, <1>3, <1>4
    <3>3. b \in Nat /\ s[b] \in Nat /\ r \in Nat /\ b < r /\ r < b + 8 + s[b]
      BY <1>4, <2>5
    <3>4. k < i \/ k > i
      BY <1>1, <2>7
    <3> QED
      BY <3>1, <3>2, <3>3, <3>4
  <2>8. Sorted(t, g)
    <3>1. ASSUME NEW j \in 1 .. Len(g), NEW k \in 1 .. Len(g), j < k
          PROVE  g[j] < g[k]
      <4>1. CASE j # i /\ k # i
        BY <1>1, <2>6, <3>1, <4>1
      <4>2. CASE j = i
        BY <2>6, <2>7, <3>1, <4>2
      <4>3. CASE k = i
        BY <2>6, <2>7, <3>1, <4>3
      <4> QED
        BY <4>1, <4>2, <4>3
    <3> QED
      BY <2>6, <3>1 DEF Sorted
  <2>9. ApartBut(t, g, {})
    <3>1. ASSUME NEW k \in 1 .. Len(g) - 1
          PROVE  g[k] + 8 + t[g[k]] # g[k + 1]
      <4>1. k \in 1 .. Len(f) - 1 /\ k \in 1 .. Len(f) /\ k + 1 \in 1 .. Len(f) /\ k # k + 1
        BY <1>1, <2>6
      <4>2. f[k] + 8 + s[f[k]] # f[k + 1]
        BY <1>1, <4>1
      <4>3. CASE k = i
        <5>1. g[k] = r /\ g[k + 1] = f[k + 1] /\ f[k] = b
          BY <1>1, <2>6, <4>1, <4>3
        <5> QED
          BY <1>4, <2>4, <2>5, <4>2, <5>1
      <4>4. CASE k + 1 = i
        <5>1. g[k] = f[k] /\ g[k + 1] = r /\ t[f[k]] = s[f[k]]
          BY <1>3, <2>4, <2>6, <2>7, <4>1, <4>4
        <5>2. b >= f[k] + 8 + s[f[k]]
          <6>1. f[k] < b
            BY <1>1, <4>1, <4>4
          <6>2. f[k] \in DOMAIN s /\ f[k] \in Nat
            BY <1>3, <4>1
          <6>3. b <= f[k] \/ b >= f[k] + 8 + s[f[k]]
            BY <1>2, <1>4, <6>2
          <6> QED
            BY <1>4, <6>1, <6>2, <6>3
        <5>3. f[k] \in Nat /\ s[f[k]] \in Nat /\ b \in Nat /\ r \in Nat /\ b < r
          BY <1>3, <1>4, <2>5, <4>1
        <5>4. f[k] + 8 + s[f[k]] # r
          BY <5>2, <5>3
        <5> QED
          BY <5>1, <5>4
      <4>5. CASE k # i /\ k + 1 # i
        <5>1. g[k] = f[k] /\ g[k + 1] = f[k + 1] /\ t[f[k]] = s[f[k]]
          BY <1>3, <2>4, <2>6, <2>7, <4>1, <4>5
        <5> QED
          BY <4>2, <5>1
      <4> QED
        BY <4>3, <4>4, <4>5
    <3> QED
      BY <3>1 DEF ApartBut
  <2>10. HeldOf(t, g) = HeldOf(s, f) \cup {b}
    <3>1. Listed(g) = (Listed(f) \ {b}) \cup {r}
      BY <1>1, <2>6, <2>7 DEF Listed
    <3>2. b # r /\ r \notin DOMAIN s
      BY <1>4, <2>3, <2>5
    <3> QED
      BY <1>4, <1>5, <2>4, <3>1, <3>2 DEF HeldOf
  <2>11. t[b] >= n /\ \A a \in HeldOf(s, f) : t[a] = s[a]
    BY <1>5, <2>4 DEF HeldOf
  <2> QED
    BY <1>5, <2>1, <2>2, <2>3, <2>8, <2>9, <2>10, <2>11 DEF Good
<1>7. CASE ~ (s[b] - n >= 12)
  <2> DEFINE g == RemoveAt(f, i)
  <2>1. TakeFree(HeapOf(s, f, e), i, n) = HeapOf(s, g, e)
    BY <1>7, <1>1, HeapFields DEF TakeFree, HeaderSize
  <2>2. /\ g \in Seq(DOMAIN s) /\ Len(g) = Len(f) - 1
        /\ \A k \in 1 .. Len(f) - 1 : g[k] = IF k < i THEN f[k] ELSE f[k + 1]
    BY <1>1, RemoveAtProperties
  <2> HIDE DEF g
  <2>3. Sorted(s, g)
    <3>1. ASSUME NEW j \in 1 .. Len(g), NEW k \in 1 .. Len(g), j < k
          PROVE  g[j] < g[k]
      <4>1. (j < i /\ g[j] = f[j]) \/ (j >= i /\ g[j] = f[j + 1])
        BY <1>1, <2>2
      <4>2. (k < i /\ g[k] = f[k]) \/ (k >= i /\ g[k] = f[k + 1])
        BY <1>1, <2>2
      <4> QED
        BY <1>1, <2>2, <3>1, <4>1, <4>2
    <3> QED
      BY <2>2, <3>1 DEF Sorted
  <2>4. ApartBut(s, g, {})
    <3>1. ASSUME NEW k \in 1 .. Len(g) - 1
          PROVE  g[k] + 8 + s[g[k]] # g[k + 1]
      <4>0. k \in 1 .. Len(f) - 1 /\ k + 1 \in 1 .. Len(f) - 1 /\ k \in 1 .. Len(f)
        BY <1>1, <2>2
      <4>1. CASE k + 1 < i
        BY <1>1, <2>2, <4>0, <4>1
      <4>2. CASE k + 1 = i
        <5>1. g[k] = f[k] /\ g[k + 1] = f[i + 1] /\ i + 1 \in 1 .. Len(f)
          BY <1>1, <2>2, <4>0, <4>2
        <5>2. f[k] < b /\ b < f[i + 1]
          BY <1>1, <4>0, <4>2, <5>1
        <5>3. /\ f[k] \in DOMAIN s /\ f[k] \in Nat /\ s[f[k]] \in Nat
              /\ f[i + 1] \in Nat
          BY <1>3, <4>0, <5>1
        <5>4. b >= f[k] + 8 + s[f[k]]
          <6>1. b <= f[k] \/ b >= f[k] + 8 + s[f[k]]
            BY <1>2, <1>4, <5>3
          <6>2. \A x, y \in Nat : x < y => ~ (y <= x)
            OBVIOUS
          <6> QED
            BY <1>4, <5>2, <5>3, <6>1, <6>2, Zenon
        <5>5. f[k] + 8 + s[f[k]] # f[i + 1]
          <6>1. \A x, y, z, w \in Nat : z >= x + 8 + y /\ z < w => x + 8 + y # w
            OBVIOUS
          <6> QED
            BY <1>4, <5>2, <5>3, <5>4, <6>1, Zenon
        <5> QED
          BY <5>1, <5>5
      <4>3. CASE k + 1 > i
        BY <1>1, <2>2, <4>0, <4>3
      <4> QED
        BY <4>0, <4>1, <4>2, <4>3, <1>1
    <3> QED
      BY <3>1 DEF ApartBut
  <2>5. Listed(g) = Listed(f) \ {b}
    <3>1. ASSUME NEW j \in 1 .. Len(f), j # i PROVE f[j] \in Listed(g) /\ f[j] # b
      <4>1. CASE j < i
        <5>1. j \in 1 .. Len(g) /\ g[j] = f[j] /\ f[j] < b
          BY <4>1, <1>1, <2>2
        <5> QED
          BY <5>1, <1>3, <1>4 DEF Listed
      <4>2. CASE j > i
        <5>1. j - 1 \in 1 .. Len(g) /\ g[j - 1] = f[(j - 1) + 1] /\ (j - 1) + 1 = j /\ b < f[j]
          BY <4>2, <1>1, <2>2
        <5> QED
          BY <5>1, <1>3, <1>4 DEF Listed
      <4> QED
        BY <3>1, <4>1, <4>2, <1>1
    <3>2. ASSUME NEW k \in 1 .. Len(g) PROVE g[k] \in Listed(f) \ {b}
      <4>1. \/ k \in 1 .. Len(f) /\ k # i /\ g[k] = f[k]
            \/ k + 1 \in 1 .. Len(f) /\ k + 1 # i /\ g[k] = f[k + 1]
        BY <1>1, <2>2
      <4> QED
        BY <3>1, <4>1 DEF Listed
    <3>3. Listed(f) \subseteq Listed(g) \cup {b}
      BY <1>1, <3>1 DEF Listed
    <3>4. Listed(g) \subseteq Listed(f) \ {b}
      BY <3>2 DEF Listed
    <3>5. b \notin Listed(g)
      BY <3>4
    <3> QED
      BY <3>3, <3>4
  <2>6. HeldOf(s, g) = HeldOf(s, f) \cup {b}
    BY <1>4, <1>5, <2>5 DEF HeldOf
  <2> QED
    BY <1>4, <1>5, <2>1, <2>3, <2>4, <2>6 DEF Good
<1> QED
  BY <1>6, <1>7

(* Growing the heap by a block that is held leaves it good.                 *)
LEMMA Extending ==
  ASSUME NEW s, NEW f, NEW e, Good(s, f, e),
         NEW n \in Nat, Aligned(n), e + 8 + n <= Modulus
  PROVE  /\ Good(With(s, e, n), f, e + 8 + n)
         /\ e \notin HeldOf(s, f)
         /\ HeldOf(With(s, e, n), f) = HeldOf(s, f) \cup {e}
         /\ With(s, e, n)[e] = n
         /\ \A a \in HeldOf(s, f) : With(s, e, n)[a] = s[a]
<1> DEFINE t == With(s, e, n)
<1>1. Blocks(t, e + 8 + n) /\ e \notin DOMAIN s
  BY GrownBlocks DEF Good
<1>2. /\ DOMAIN t = DOMAIN s \cup {e} /\ t[e] = n
      /\ \A a \in DOMAIN s : t[a] = s[a]
  BY <1>1 DEF With
<1> HIDE DEF t
<1>3. /\ f \in Seq(DOMAIN s) /\ \A k \in 1 .. Len(f) : f[k] \in DOMAIN s
  BY DEF Good, Sorted
<1>4. Sorted(t, f)
  <2>1. f \in Seq(DOMAIN t)
    BY <1>2, <1>3
  <2> QED
    BY <2>1 DEF Good, Sorted
<1>5. ApartBut(t, f, {})
  <2>1. \A k \in 1 .. Len(f) - 1 : t[f[k]] = s[f[k]]
    BY <1>2, <1>3
  <2> QED
    BY <2>1 DEF Good, ApartBut
<1>6. e \notin Listed(f)
  BY <1>1, <1>3 DEF Listed
<1>7. HeldOf(t, f) = HeldOf(s, f) \cup {e} /\ e \notin HeldOf(s, f)
  BY <1>1, <1>2, <1>6 DEF HeldOf
<1>8. \A a \in HeldOf(s, f) : t[a] = s[a]
  BY <1>2 DEF HeldOf
<1> QED
  BY <1>1, <1>2, <1>4, <1>5, <1>7, <1>8 DEF Good, t

(* A size malloc accepts does not wrap when it is rounded up to a word      *)
(* (helpers.py:113-115).                                                    *)
LEMMA RoundUpProperties ==
  ASSUME NEW want \in 1 .. Modulus - 12
  PROVE  RoundUp(want) \in Nat /\ Aligned(RoundUp(want)) /\ RoundUp(want) >= want
BY HeapAssumption DEF RoundUp, Aligned

(* malloc either refuses and leaves the heap alone, or hands out a block    *)
(* nobody held, large enough, and takes nothing from the others             *)
(* (helpers.py:109-130).                                                    *)
LEMMA Allocated ==
  ASSUME NEW s, NEW f, NEW e, Good(s, f, e), sp \in Stacks, NEW want \in 0 .. Modulus - 1
  PROVE  LET r == Malloc(HeapOf(s, f, e), want)
         IN  \/ r.pointer = 0 /\ r.heap = HeapOf(s, f, e)
             \/ \E t, g, d, b :
                  /\ r.heap = HeapOf(t, g, d) /\ r.pointer = b + 8
                  /\ Good(t, g, d) /\ want >= 1
                  /\ b \notin HeldOf(s, f) /\ HeldOf(t, g) = HeldOf(s, f) \cup {b}
                  /\ t[b] >= want
                  /\ \A a \in HeldOf(s, f) : t[a] = s[a]
<1> DEFINE h == HeapOf(s, f, e)
           r == Malloc(h, want)
           n == RoundUp(want)
           i == FirstFit(h, n)
<1>1. h.size = s /\ h.free = f /\ h.end = e
  BY HeapFields
<1>2. e \in Nat /\ Modulus \in Nat /\ Modulus > 12 /\ want \in Nat
  BY HeapAssumption DEF Good, Blocks
<1>3. CASE want = 0 \/ want > Modulus - 12
  <2>1. r = Refused(h)
    <3>1. want \notin 1 .. Modulus - 12
      BY <1>2, <1>3
    <3> QED
      BY <1>3, <3>1 DEF Malloc
  <2> QED
    BY <2>1 DEF Refused
<1>4. CASE ~ (want = 0 \/ want > Modulus - 12)
  <2>0. want \in 1 .. Modulus - 12
    BY <1>2, <1>4
  <2>1. n \in Nat /\ Aligned(n) /\ n >= want
    BY <2>0, RoundUpProperties
  <2>2. i = 0 \/ (i \in 1 .. Len(f) /\ s[f[i]] >= n)
    BY <2>1, FirstFitIs DEF Good
  <2>3. Len(f) \in Nat
    BY DEF Good, Sorted
  <2>4. CASE i # 0
    <3>1. i \in 1 .. Len(f) /\ s[f[i]] >= n
      BY <2>2, <2>4
    <3>2. r = [heap |-> TakeFree(h, i, n), pointer |-> f[i] + 8]
      BY <1>1, <1>4, <2>0, <2>4 DEF Malloc, Payload, HeaderSize
    <3>3. PICK t, g :
             /\ TakeFree(h, i, n) = HeapOf(t, g, e)
             /\ Good(t, g, e)
             /\ f[i] \notin HeldOf(s, f)
             /\ HeldOf(t, g) = HeldOf(s, f) \cup {f[i]}
             /\ t[f[i]] >= n
             /\ \A a \in HeldOf(s, f) : t[a] = s[a]
      BY <2>1, <3>1, Taking
    <3>4. t[f[i]] >= want
      <4>1. f[i] \in DOMAIN t
        BY <3>3 DEF HeldOf
      <4>2. t[f[i]] \in Nat
        BY <3>3, <4>1 DEF Good, Blocks, Block
      <4> QED
        BY <1>2, <2>1, <3>3, <4>2
    <3>5. r.heap = HeapOf(t, g, e) /\ r.pointer = f[i] + 8
      BY <3>2, <3>3
    <3> HIDE DEF r, i, n, h
    <3> QED
      BY <2>0, <3>3, <3>4, <3>5 DEF r, h
  <2>5. CASE i = 0 /\ Remaining(h) < 8 + n
    <3>1. r = Refused(h)
      BY <1>4, <2>0, <2>5 DEF Malloc, HeaderSize
    <3> QED
      BY <3>1 DEF Refused
  <2>6. CASE i = 0 /\ ~ (Remaining(h) < 8 + n)
    <3>1. r = [heap |-> HeapOf(With(s, e, n), f, e + 8 + n), pointer |-> e + 8]
      BY <1>1, <1>4, <2>0, <2>6 DEF Malloc, HeaderSize, Payload
    <3>2. e + 8 + n <= Modulus
      <4>1. sp \in Nat /\ sp < Modulus
        BY HeapAssumption
      <4>2. Remaining(h) = IF sp > e THEN sp - e ELSE 0
        BY <1>1 DEF Remaining
      <4> HIDE DEF h, n
      <4> QED
        BY <1>2, <2>1, <2>6, <4>1, <4>2
    <3>3. /\ Good(With(s, e, n), f, e + 8 + n)
          /\ e \notin HeldOf(s, f)
          /\ HeldOf(With(s, e, n), f) = HeldOf(s, f) \cup {e}
          /\ With(s, e, n)[e] = n
          /\ \A a \in HeldOf(s, f) : With(s, e, n)[a] = s[a]
      BY <2>1, <3>2, Extending
    <3>4. r.heap = HeapOf(With(s, e, n), f, e + 8 + n) /\ r.pointer = e + 8
      BY <3>1
    <3>5. With(s, e, n)[e] >= want /\ want >= 1
      BY <2>0, <2>1, <3>3
    <3> HIDE DEF r, i, n, h
    <3> QED
      BY <3>3, <3>4, <3>5 DEF r, h
  <2> QED
    BY <2>4, <2>5, <2>6
<1> QED
  BY <1>3, <1>4

-----------------------------------------------------------------------------
(* The positions at which a block put at `at` may touch a neighbour.        *)
Beside(at) == {at - 1, at}

(* A held block is put on the free list at the place its address gives it.  *)
LEMMA Linking ==
  ASSUME NEW s, NEW f, NEW e, Good(s, f, e), NEW x \in HeldOf(s, f)
  PROVE  \E g, at :
           /\ Linked(HeapOf(s, f, e), x) = HeapOf(s, g, e)
           /\ Sorted(s, g) /\ at \in 1 .. Len(g) /\ g[at] = x
           /\ ApartBut(s, g, Beside(at))
           /\ Listed(g) = Listed(f) \cup {x}
<1> DEFINE I == {k \in 1 .. Len(f) : f[k] >= x}
           first == IF I # {} THEN Min(I) ELSE 0
           at == IF first = 0 THEN Len(f) + 1 ELSE first
           g == InsertAt(f, at, x)
<1>1. /\ f \in Seq(DOMAIN s) /\ Len(f) \in Nat
      /\ \A j, k \in 1 .. Len(f) : j < k => f[j] < f[k]
      /\ \A k \in 1 .. Len(f) - 1 : f[k] + 8 + s[f[k]] # f[k + 1]
  BY DEF Good, Sorted, ApartBut
<1>2. /\ x \in DOMAIN s /\ x \in Nat
      /\ \A k \in 1 .. Len(f) : f[k] \in DOMAIN s /\ f[k] \in Nat /\ f[k] # x
  <2>1. x \in DOMAIN s /\ x \notin Listed(f)
    BY DEF HeldOf
  <2>2. \A a \in DOMAIN s : a \in Nat
    BY DEF Good, Blocks, Block
  <2>3. \A k \in 1 .. Len(f) : f[k] \in Listed(f) /\ f[k] \in DOMAIN s
    BY <1>1 DEF Listed
  <2> QED
    BY <2>1, <2>2, <2>3
<1>3. Linked(HeapOf(s, f, e), x) = HeapOf(s, g, e)
  <2>1. ASSUME NEW h, h.size = s, h.free = f, h.end = e
        PROVE  Linked(h, x) = HeapOf(s, g, e)
    BY <2>1 DEF Linked, SelectInSeq
  <2> QED
    BY <2>1, HeapFields
<1>4. I # {} => Min(I) \in I /\ \A k \in I : Min(I) <= k
  BY <1>1, FirstPosition
<1>5. /\ at \in 1 .. Len(f) + 1
      /\ \A k \in 1 .. Len(f) : (k < at => f[k] < x) /\ (k >= at => x < f[k])
  <2>1. CASE I = {}
    <3>1. at = Len(f) + 1
      BY <2>1
    <3>2. \A k \in 1 .. Len(f) : f[k] < x
      BY <1>2, <2>1
    <3> HIDE DEF at
    <3> QED
      BY <1>1, <3>1, <3>2
  <2>2. CASE I # {}
    <3>0. Min(I) \in 1 .. Len(f)
      BY <1>4, <2>2
    <3>1. at = Min(I) /\ at \in I /\ \A k \in I : at <= k
      <4>1. at = Min(I)
        BY <1>1, <2>2, <3>0
      <4> QED
        BY <1>4, <2>2, <4>1
    <3>2. at \in 1 .. Len(f) /\ f[at] >= x /\ \A k \in 1 .. Len(f) : f[k] >= x => at <= k
      BY <3>1
    <3> HIDE DEF at, I
    <3>3. at \in 1 .. Len(f) + 1
      BY <1>1, <3>2
    <3>4. ASSUME NEW k \in 1 .. Len(f) PROVE (k < at => f[k] < x) /\ (k >= at => x < f[k])
      <4>1. f[k] \in Nat /\ f[k] # x /\ f[at] \in Nat /\ f[at] # x /\ k \in Nat /\ at \in Nat
        BY <1>2, <3>2
      <4>2. k > at => f[at] < f[k]
        BY <1>1, <3>2
      <4>3. f[k] >= x => at <= k
        BY <3>2
      <4> QED
        BY <1>2, <3>2, <4>1, <4>2, <4>3
    <3> QED
      BY <3>3, <3>4
  <2> QED
    BY <2>1, <2>2
<1> HIDE DEF at
<1>6. /\ g \in Seq(DOMAIN s) /\ Len(g) = Len(f) + 1
      /\ \A k \in 1 .. Len(f) + 1 :
           g[k] = IF k < at THEN f[k] ELSE IF k = at THEN x ELSE f[k - 1]
  <2>1. f \in Seq(DOMAIN s) /\ at \in 1 .. Len(f) + 1 /\ x \in DOMAIN s
    BY <1>1, <1>2, <1>5
  <2> QED
    BY <2>1, InsertAtProperties
<1> HIDE DEF g
<1>7. Sorted(s, g)
  <2>1. ASSUME NEW j \in 1 .. Len(g), NEW k \in 1 .. Len(g), j < k PROVE g[j] < g[k]
    <3>0. j \in Nat /\ k \in Nat /\ at \in Nat
      BY <1>5
    <3>1. \/ j < at /\ j \in 1 .. Len(f) /\ g[j] = f[j]
          \/ j = at /\ g[j] = x
          \/ j > at /\ j - 1 \in 1 .. Len(f) /\ g[j] = f[j - 1]
      BY <1>1, <1>5, <1>6
    <3>2. \/ k < at /\ k \in 1 .. Len(f) /\ g[k] = f[k]
          \/ k = at /\ g[k] = x
          \/ k > at /\ k - 1 \in 1 .. Len(f) /\ g[k] = f[k - 1]
      BY <1>1, <1>5, <1>6
    <3>3. CASE j < at /\ k > at
      <4>0. j \in 1 .. Len(f) /\ k - 1 \in 1 .. Len(f) /\ k - 1 >= at
        BY <3>0, <3>1, <3>2, <3>3
      <4>1. f[j] < x /\ x < f[k - 1] /\ f[j] \in Nat /\ f[k - 1] \in Nat
        BY <1>2, <1>5, <3>3, <4>0
      <4>2. g[j] = f[j] /\ g[k] = f[k - 1]
        BY <3>0, <3>1, <3>2, <3>3
      <4> QED
        BY <1>2, <4>1, <4>2
    <3>4. CASE j < at /\ k = at
      BY <1>5, <3>0, <3>1, <3>2, <3>4
    <3>5. CASE j = at /\ k > at
      <4>1. k - 1 >= at /\ k - 1 \in 1 .. Len(f) /\ g[k] = f[k - 1] /\ g[j] = x
        BY <3>0, <3>1, <3>2, <3>5
      <4> QED
        BY <1>5, <4>1
    <3>6. CASE j < at /\ k < at
      BY <1>1, <2>1, <3>0, <3>1, <3>2, <3>6
    <3>7. CASE j > at /\ k > at
      <4>1. /\ j - 1 < k - 1 /\ j - 1 \in 1 .. Len(f) /\ k - 1 \in 1 .. Len(f)
            /\ g[j] = f[j - 1] /\ g[k] = f[k - 1]
        BY <2>1, <3>0, <3>1, <3>2, <3>7
      <4> QED
        BY <1>1, <4>1
    <3> QED
      BY <2>1, <3>0, <3>3, <3>4, <3>5, <3>6, <3>7
  <2> QED
    BY <1>6, <2>1 DEF Sorted
<1>8. at \in 1 .. Len(g) /\ g[at] = x
  BY <1>1, <1>5, <1>6
<1>9. ApartBut(s, g, Beside(at))
  <2>1. ASSUME NEW k \in 1 .. Len(g) - 1, k \notin {at - 1, at}
        PROVE  g[k] + 8 + s[g[k]] # g[k + 1]
    <3>1. k # at /\ k + 1 # at /\ k + 1 \in 1 .. Len(f) + 1 /\ k \in 1 .. Len(f) + 1
      BY <1>1, <1>5, <1>6, <2>1
    <3>2. CASE k < at
      <4>1. k \in 1 .. Len(f) - 1 /\ g[k] = f[k] /\ g[k + 1] = f[k + 1]
        BY <1>1, <1>5, <1>6, <3>1, <3>2
      <4> QED
        BY <1>1, <4>1
    <3>3. CASE k > at
      <4>1. k - 1 \in 1 .. Len(f) - 1 /\ g[k] = f[k - 1] /\ g[k + 1] = f[(k - 1) + 1]
        BY <1>1, <1>5, <1>6, <3>1, <3>3
      <4> QED
        BY <1>1, <4>1
    <3> QED
      BY <1>5, <3>1, <3>2, <3>3
  <2> QED
    BY <2>1 DEF ApartBut, Beside
<1>10. Listed(g) = Listed(f) \cup {x}
  <2>1. ASSUME NEW k \in 1 .. Len(f) PROVE f[k] \in Listed(g)
    <3>1. \/ k \in 1 .. Len(g) /\ g[k] = f[k]
          \/ k + 1 \in 1 .. Len(g) /\ g[k + 1] = f[(k + 1) - 1] /\ (k + 1) - 1 = k
      BY <1>1, <1>5, <1>6
    <3> QED
      BY <3>1 DEF Listed
  <2>2. ASSUME NEW k \in 1 .. Len(g) PROVE g[k] \in Listed(f) \cup {x}
    <3>1. \/ k \in 1 .. Len(f) /\ g[k] = f[k]
          \/ g[k] = x
          \/ k - 1 \in 1 .. Len(f) /\ g[k] = f[k - 1]
      BY <1>1, <1>5, <1>6
    <3> QED
      BY <3>1 DEF Listed
  <2>3. x \in Listed(g)
    BY <1>8 DEF Listed
  <2>4. Listed(f) \subseteq Listed(g) /\ Listed(g) \subseteq Listed(f) \cup {x}
    BY <2>1, <2>2 DEF Listed
  <2> QED
    BY <2>3, <2>4
<1> QED
  BY <1>3, <1>7, <1>8, <1>9, <1>10

(* Freeing a held block leaves a good heap in which the other held blocks   *)
(* are still held and have the sizes they had.                              *)
LEMMA Freed ==
  ASSUME NEW s, NEW f, NEW e, Good(s, f, e), NEW x \in HeldOf(s, f)
  PROVE  \E t, g :
           /\ Free(HeapOf(s, f, e), x + 8) = HeapOf(t, g, e)
           /\ Good(t, g, e)
           /\ HeldOf(t, g) = HeldOf(s, f) \ {x}
           /\ \A a \in HeldOf(s, f) \ {x} : t[a] = s[a]
<1>1. PICK g, at :
        /\ Linked(HeapOf(s, f, e), x) = HeapOf(s, g, e)
        /\ Sorted(s, g) /\ at \in 1 .. Len(g) /\ g[at] = x
        /\ ApartBut(s, g, Beside(at))
        /\ Listed(g) = Listed(f) \cup {x}
  BY Linking
<1>2. Blocks(s, e) /\ x \in Nat /\ x \in DOMAIN s
  BY DEF Good, HeldOf, Blocks, Block
<1>3. Len(g) \in Nat /\ \A j, k \in 1 .. Len(g) : j < k => g[j] < g[k]
  BY <1>1 DEF Sorted
<1>4. Free(HeapOf(s, f, e), x + 8) = Merged(Merged(HeapOf(s, g, e), at), at - 1)
  <2> DEFINE I == {k \in 1 .. Len(g) : g[k] = x}
  <2>1. ASSUME NEW h, h.free = g
        PROVE  SelectInSeq(h.free, LAMBDA b : b = x) = IF I # {} THEN Min(I) ELSE 0
    BY <2>1 DEF SelectInSeq
  <2>2. I = {at}
    <3>1. ASSUME NEW k \in 1 .. Len(g), k # at PROVE g[k] # x
      <4>1. g[k] < x \/ x < g[k]
        BY <1>1, <1>3, <3>1
      <4>2. g[k] \in Nat
        <5>1. g[k] \in DOMAIN s
          BY <1>1 DEF Sorted
        <5> QED
          BY <1>2, <5>1 DEF Blocks, Block
      <4> QED
        BY <1>2, <4>1, <4>2
    <3> QED
      BY <1>1, <3>1
  <2>3. Min(I) = at
    BY <1>3, <2>2, FirstPosition
  <2>4. BlockOf(x + 8) = x
    BY <1>2 DEF BlockOf, HeaderSize
  <2>5. Linked(HeapOf(s, f, e), BlockOf(x + 8)) = HeapOf(s, g, e)
    BY <1>1, <2>4
  <2>6. ASSUME NEW h, h.free = g, NEW k, Linked(k, BlockOf(x + 8)) = h
        PROVE  Free(k, x + 8) = Merged(Merged(h, at), at - 1)
    BY <2>1, <2>2, <2>3, <2>4, <2>6 DEF Free, SelectInSeq
  <2> QED
    BY <2>5, <2>6, HeapFields
<1> DEFINE j == at
           i == at - 1
           S2 == Beside(at)
           S1 == {at - 1}
<1>5. /\ j \in Nat /\ Leaves(S2, j, S1)
      /\ i \in Nat /\ Leaves(S1, i, {})
      /\ Blocks(s, e) /\ Sorted(s, g) /\ ApartBut(s, g, S2)
  BY <1>1, <1>2 DEF Beside, Leaves
<1> HIDE DEF S1, S2, i, j
<1>6. PICK t1, g1 :
        /\ Merged(HeapOf(s, g, e), j) = HeapOf(t1, g1, e)
        /\ Blocks(t1, e) /\ Sorted(t1, g1) /\ ApartBut(t1, g1, S1)
        /\ HeldOf(t1, g1) = HeldOf(s, g)
        /\ \A a \in HeldOf(s, g) : t1[a] = s[a]
  BY <1>5, Merging
<1>7. PICK t, g2 :
        /\ Merged(HeapOf(t1, g1, e), i) = HeapOf(t, g2, e)
        /\ Blocks(t, e) /\ Sorted(t, g2) /\ ApartBut(t, g2, {})
        /\ HeldOf(t, g2) = HeldOf(t1, g1)
        /\ \A a \in HeldOf(t1, g1) : t[a] = t1[a]
  BY <1>5, <1>6, Merging
<1>8. HeldOf(s, g) = HeldOf(s, f) \ {x}
  BY <1>1 DEF HeldOf
<1> QED
  BY <1>4, <1>6, <1>7, <1>8 DEF Good, i, j

-----------------------------------------------------------------------------
(* Two held blocks do not overlap.                                          *)
LEMMA HeldApart ==
  ASSUME NEW s, NEW f, NEW e, Good(s, f, e),
         NEW b \in HeldOf(s, f), NEW c \in HeldOf(s, f), b # c
  PROVE  b + 8 + s[b] <= c \/ c + 8 + s[c] <= b
<1>1. /\ b \in DOMAIN s /\ c \in DOMAIN s
      /\ Block(s, e, b) /\ Block(s, e, c)
  BY DEF HeldOf, Good, Blocks
<1>2. /\ b \in Nat /\ c \in Nat /\ s[b] \in Nat /\ s[c] \in Nat
      /\ c <= b \/ c >= b + 8 + s[b]
      /\ b <= c \/ b >= c + 8 + s[c]
  BY <1>1 DEF Block
<1> QED
  BY <1>2

(* A held block is a block of the heap, aligned and inside it.              *)
LEMMA HeldBlock ==
  ASSUME NEW s, NEW f, NEW e, Good(s, f, e), NEW b \in HeldOf(s, f)
  PROVE  /\ b \in DOMAIN s /\ b \in Nat /\ s[b] \in Nat /\ b % 4 = 0
         /\ Base <= b /\ b + 8 + s[b] <= e /\ e <= Modulus /\ e \in Nat
BY DEF HeldOf, Good, Blocks, Block, Aligned

(* Neither a header nor a free payload covers a word of a held payload.     *)
LEMMA WithHeadersKeeps ==
  ASSUME NEW s, NEW f, NEW e, Good(s, f, e), NEW b \in HeldOf(s, f),
         NEW m, NEW w \in Word, b + 8 <= w, w < b + 8 + s[b]
  PROVE  WithHeaders(m, HeapOf(s, f, e))[w] = m[w]
<1> DEFINE h == HeapOf(s, f, e)
<1>1. h.size = s /\ h.free = f /\ w \in Nat
  BY HeapFields, HeapAssumption DEF Word
<1> HIDE DEF h
<1>2. b \in DOMAIN s /\ Block(s, e, b) /\ b \in Nat /\ s[b] \in Nat /\ b \notin Listed(f)
  BY DEF Good, Blocks, Block, HeldOf
<1>3. \A a \in DOMAIN s : Block(s, e, a) /\ a \in Nat /\ s[a] \in Nat
  BY DEF Good, Blocks, Block
<1>4. ASSUME NEW a \in DOMAIN s PROVE w # a /\ w # a + 4
  <2>1. a \in Nat /\ (a <= b \/ a >= b + 8 + s[b])
    BY <1>2, <1>3 DEF Block
  <2> QED
    BY <1>1, <1>2, <2>1
<1>5. w \notin Headers(h)
  BY <1>1, <1>4 DEF Headers
<1>6. ASSUME NEW k \in DOMAIN f PROVE w \notin Words(Payload(f[k]), s[f[k]])
  <2>1. f \in Seq(DOMAIN s) /\ DOMAIN f = 1 .. Len(f)
    BY DEF Good, Sorted
  <2>2. f[k] \in DOMAIN s /\ f[k] # b
    BY <1>2, <2>1 DEF Listed
  <2>3. f[k] \in Nat /\ s[f[k]] \in Nat /\ Block(s, e, f[k])
    BY <1>3, <2>2
  <2>4. f[k] <= b \/ f[k] >= b + 8 + s[b]
    BY <1>2, <2>2 DEF Block
  <2>5. b <= f[k] \/ b >= f[k] + 8 + s[f[k]]
    BY <1>2, <2>3 DEF Block
  <2>6. ~ (f[k] + 8 <= w /\ w < f[k] + 8 + s[f[k]])
    BY <1>1, <1>2, <2>2, <2>3, <2>4, <2>5
  <2> QED
    BY <2>6 DEF Words, Payload, HeaderSize
<1>7. w \notin FreeWords(h)
  BY <1>1, <1>6 DEF FreeWords
<1>8. WithHeaders(m, h)[w] = m[w]
  BY <1>5, <1>7 DEF WithHeaders
<1> QED
  BY <1>8 DEF h

-----------------------------------------------------------------------------
(* What programs ask for.                                                   *)
Sizes == Request \cup {c * n : c \in Counts, n \in Request}

(* The program's allocations are the held blocks.                           *)
Holdings ==
  /\ DOMAIN live = {b + 8 : b \in HeldOf(size, free)}
  /\ live = [p \in DOMAIN live |-> live[p]]
  /\ \A p \in DOMAIN live :
       /\ live[p] = [want |-> live[p].want, kept |-> live[p].kept, tag |-> live[p].tag]
       /\ live[p].want \in Sizes /\ live[p].want \in Nat
       /\ live[p].kept \in 1 .. live[p].want
       /\ live[p].tag \in Contents \cup {Zero}

(* The inductive invariant.                                                 *)
IInv ==
  /\ Good(size, free, end)
  /\ sp \in Stacks
  /\ Holdings
  /\ LargeEnough
  /\ ContentsKept

(* What the invariant says of an allocation and of its block: the program's *)
(* pointer is to a held block, large enough, and inside the heap.           *)
LEMMA Holding ==
  ASSUME IInv, NEW p \in DOMAIN live
  PROVE  /\ BlockOf(p) \in HeldOf(size, free) /\ BlockOf(p) \in Nat
         /\ p = BlockOf(p) + 8 /\ p \in Nat /\ p % 4 = 0 /\ Base <= p
         /\ size[BlockOf(p)] \in Nat /\ p + size[BlockOf(p)] <= Modulus
         /\ live[p].want <= size[BlockOf(p)] /\ live[p].want \in Nat
         /\ live[p].kept <= live[p].want /\ live[p].kept \in Nat /\ 1 <= live[p].kept
<1>1. PICK b \in HeldOf(size, free) : p = b + 8
  BY DEF IInv, Holdings
<1>2. /\ b \in Nat /\ size[b] \in Nat /\ b % 4 = 0 /\ Base <= b
      /\ b + 8 + size[b] <= end /\ end <= Modulus /\ end \in Nat
  BY HeldBlock DEF IInv
<1>3. BlockOf(p) = b
  BY <1>1, <1>2 DEF BlockOf, HeaderSize
<1>4. live[p].want <= size[b]
  BY <1>3 DEF IInv, LargeEnough
<1>5. live[p].want \in Nat /\ live[p].kept \in 1 .. live[p].want
  BY DEF IInv, Holdings
<1>6. Modulus \in Nat /\ Base \in Nat
  BY HeapAssumption
<1>7. p + size[b] <= Modulus /\ p % 4 = 0
  BY <1>1, <1>2, <1>6
<1> QED
  BY <1>1, <1>2, <1>3, <1>4, <1>5, <1>6, <1>7

(* The heap starts empty, with nothing held.                                *)
LEMMA InitInv == Init => IInv
<1> SUFFICES ASSUME Init PROVE IInv
  OBVIOUS
<1>1. DOMAIN size = {} /\ free = << >> /\ end = Base /\ DOMAIN live = {} /\ sp \in Stacks
  BY DEF Init
<1>2. Blocks(size, end)
  <2>1. size = [b \in DOMAIN size |-> size[b]]
    BY DEF Init
  <2>2. end \in Nat /\ Aligned(end) /\ Base <= end /\ end <= Modulus
    <3>1. Base <= sp /\ sp < Modulus /\ sp \in Nat
      BY <1>1, HeapAssumption
    <3> QED
      BY <1>1, <3>1, HeapAssumption DEF Aligned
  <2> QED
    BY <1>1, <2>1, <2>2 DEF Blocks
<1>3. Sorted(size, free) /\ ApartBut(size, free, {})
  BY <1>1 DEF Sorted, ApartBut
<1>4. HeldOf(size, free) = {}
  BY <1>1 DEF HeldOf
<1>5. Holdings
  <2>1. live = [p \in DOMAIN live |-> live[p]]
    BY DEF Init
  <2> QED
    BY <1>1, <1>4, <2>1 DEF Holdings
<1>6. LargeEnough /\ ContentsKept
  BY <1>1 DEF LargeEnough, ContentsKept
<1> QED
  BY <1>1, <1>2, <1>3, <1>5, <1>6 DEF IInv, Good

-----------------------------------------------------------------------------
(* A block b nobody held is handed out with `want` bytes filled with `tag`; *)
(* the others keep their blocks.                                            *)
Grants(b, want, tag) ==
  /\ Good(size', free', end') /\ sp' = sp
  /\ b \notin HeldOf(size, free) /\ HeldOf(size', free') = HeldOf(size, free) \cup {b}
  /\ want >= 1 /\ size'[b] >= want
  /\ \A a \in HeldOf(size, free) : size'[a] = size[a]
  /\ live' = With(live, b + 8, [want |-> want, kept |-> want, tag |-> tag])
  /\ memory' = Fill(WithHeaders(memory, HeapOf(size', free', end')), b + 8, want, tag)

(* A call of malloc changes nothing or grants a block (helpers.py:109-130). *)
LEMMA AllocateEffect ==
  ASSUME IInv, NEW want \in 0 .. Modulus - 1, NEW tag, Allocate(want, tag)
  PROVE  UNCHANGED vars \/ \E b : Grants(b, want, tag)
<1> DEFINE r == Malloc(Heap, want)
<1>1. Good(size, free, end) /\ sp \in Stacks /\ sp' = sp
  BY DEF IInv, Allocate
<1>2. /\ Becomes(r.heap)
      /\ r.pointer = 0 => UNCHANGED <<memory, live>>
      /\ r.pointer # 0 =>
           /\ live' = With(live, r.pointer, [want |-> want, kept |-> want, tag |-> tag])
           /\ memory' = Fill(WithHeaders(memory, r.heap), r.pointer, want, tag)
  BY DEF Allocate
<1>3. \/ r.pointer = 0 /\ r.heap = Heap
      \/ \E t, g, d, b :
           /\ r.heap = HeapOf(t, g, d) /\ r.pointer = b + 8
           /\ Good(t, g, d) /\ want >= 1
           /\ b \notin HeldOf(size, free) /\ HeldOf(t, g) = HeldOf(size, free) \cup {b}
           /\ t[b] >= want
           /\ \A a \in HeldOf(size, free) : t[a] = size[a]
  BY <1>1, Allocated DEF Heap
<1> HIDE DEF r
<1>4. CASE r.pointer = 0 /\ r.heap = Heap
  BY <1>1, <1>2, <1>4, HeapFields DEF Becomes, Heap, vars
<1>5. ASSUME NEW t, NEW g, NEW d, NEW b,
             r.heap = HeapOf(t, g, d), r.pointer = b + 8,
             Good(t, g, d), want >= 1,
             b \notin HeldOf(size, free), HeldOf(t, g) = HeldOf(size, free) \cup {b},
             t[b] >= want,
             \A a \in HeldOf(size, free) : t[a] = size[a]
      PROVE  Grants(b, want, tag)
  <2>1. b \in HeldOf(t, g)
    BY <1>5
  <2>2. b \in Nat
    BY <1>5, <2>1, HeldBlock
  <2>3. size' = t /\ free' = g /\ end' = d
    BY <1>2, <1>5, HeapFields DEF Becomes
  <2>4. r.pointer # 0
    BY <1>5, <2>2
  <2> QED
    BY <1>1, <1>2, <1>5, <2>3, <2>4 DEF Grants
<1> QED
  BY <1>3, <1>4, <1>5

(* Granting a block keeps the invariant: the block was nobody's, so filling *)
(* it overwrites nobody's contents.                                         *)
LEMMA GrantsInv ==
  ASSUME IInv, NEW b, NEW want \in Sizes, want \in Nat, NEW tag \in Contents \cup {Zero},
         Grants(b, want, tag)
  PROVE  IInv'
<1> DEFINE Held == HeldOf(size, free)
<1>1. /\ Good(size', free', end') /\ sp' = sp
      /\ b \notin Held /\ HeldOf(size', free') = Held \cup {b}
      /\ want >= 1 /\ size'[b] >= want
      /\ \A a \in Held : size'[a] = size[a]
      /\ live' = With(live, b + 8, [want |-> want, kept |-> want, tag |-> tag])
      /\ memory' = Fill(WithHeaders(memory, HeapOf(size', free', end')), b + 8, want, tag)
  BY DEF Grants
<1> HIDE DEF Held
<1>2. b \in Nat /\ size'[b] \in Nat
  BY <1>1, HeldBlock
<1>3. ASSUME NEW p \in DOMAIN live
      PROVE  /\ BlockOf(p) \in Held /\ BlockOf(p) # b /\ p # b + 8 /\ p = BlockOf(p) + 8
             /\ BlockOf(p) \in Nat /\ size'[BlockOf(p)] = size[BlockOf(p)]
  BY <1>1, <1>2, Holding DEF Held
<1>4. /\ DOMAIN live' = DOMAIN live \cup {b + 8}
      /\ live'[b + 8] = [want |-> want, kept |-> want, tag |-> tag]
      /\ \A p \in DOMAIN live : live'[p] = live[p]
      /\ live' = [p \in DOMAIN live' |-> live'[p]]
  BY <1>1, <1>3 DEF With
<1>5. Holdings'
  <2>1. DOMAIN live' = {a + 8 : a \in HeldOf(size', free')}
    <3>1. DOMAIN live = {a + 8 : a \in Held}
      BY DEF IInv, Holdings, Held
    <3> QED
      BY <1>1, <1>4, <3>1
  <2>2. ASSUME NEW p \in DOMAIN live'
        PROVE  /\ live'[p] = [want |-> live'[p].want, kept |-> live'[p].kept, tag |-> live'[p].tag]
               /\ live'[p].want \in Sizes /\ live'[p].want \in Nat
               /\ live'[p].kept \in 1 .. live'[p].want
               /\ live'[p].tag \in Contents \cup {Zero}
    <3>1. CASE p = b + 8
      BY <3>1, <1>1, <1>4
    <3>2. CASE p \in DOMAIN live
      BY <3>2, <1>4 DEF IInv, Holdings
    <3> QED
      BY <1>4, <3>1, <3>2
  <2> QED
    BY <1>4, <2>1, <2>2 DEF Holdings
<1>6. LargeEnough'
  <2>1. ASSUME NEW p \in DOMAIN live' PROVE live'[p].want <= size'[BlockOf(p)]
    <3>1. CASE p = b + 8
      <4>1. BlockOf(p) = b
        BY <1>2, <3>1 DEF BlockOf, HeaderSize
      <4> QED
        BY <1>1, <1>2, <1>4, <3>1, <4>1
    <3>2. CASE p \in DOMAIN live
      BY <1>3, <1>4, <3>2, Holding
    <3> QED
      BY <1>4, <3>1, <3>2
  <2> QED
    BY <2>1 DEF LargeEnough, BlockOf
<1>7. ContentsKept'
  <2>1. ASSUME NEW p \in DOMAIN live', NEW w \in Words(p, live'[p].kept)
        PROVE  memory'[w] = live'[p].tag
    <3>1. w \in Word /\ w \in Nat /\ p <= w /\ w < p + live'[p].kept
      BY HeapAssumption DEF Words, Word
    <3>2. memory'[w] = IF w \in Words(b + 8, want) THEN tag
                       ELSE WithHeaders(memory, HeapOf(size', free', end'))[w]
      BY <1>1, <3>1 DEF Fill
    <3>3. CASE p = b + 8
      BY <1>4, <3>2, <3>3
    <3>4. CASE p \in DOMAIN live
      <4> DEFINE c == BlockOf(p)
      <4>1. /\ c \in Held /\ c # b /\ p = c + 8 /\ c \in Nat
            /\ size'[c] = size[c] /\ live'[p] = live[p]
        BY <1>3, <1>4, <3>4
      <4>2. /\ size[c] \in Nat /\ live[p].want <= size[c] /\ live[p].want \in Nat
            /\ live[p].kept <= live[p].want /\ live[p].kept \in Nat
        BY <3>4, Holding
      <4> HIDE DEF c
      <4>3. c + 8 <= w /\ w < c + 8 + size'[c]
        BY <3>1, <4>1, <4>2
      <4>4. b + 8 + size'[b] <= c \/ c + 8 + size'[c] <= b
        BY <1>1, <4>1, HeldApart
      <4>5. ~ (b + 8 <= w /\ w < b + 8 + want)
        BY <1>1, <1>2, <3>1, <4>1, <4>2, <4>3, <4>4
      <4>6. memory'[w] = WithHeaders(memory, HeapOf(size', free', end'))[w]
        BY <3>2, <4>5 DEF Words
      <4>7. WithHeaders(memory, HeapOf(size', free', end'))[w] = memory[w]
        BY <1>1, <3>1, <4>1, <4>3, WithHeadersKeeps
      <4>8. memory[w] = live[p].tag
        BY <3>4, <4>1 DEF IInv, ContentsKept
      <4> QED
        BY <4>1, <4>6, <4>7, <4>8
    <3> QED
      BY <1>4, <3>3, <3>4
  <2> QED
    BY <2>1 DEF ContentsKept, Words
<1>8. sp' \in Stacks
  BY <1>1 DEF IInv
<1> QED
  BY <1>1, <1>5, <1>6, <1>7, <1>8 DEF IInv

-----------------------------------------------------------------------------
(* The product calloc computes is the one it was asked for.                 *)
LEMMA ProductFits ==
  ASSUME NEW c \in 0 .. Modulus - 1, NEW n \in 0 .. Modulus - 1,
         c = 0 \/ n <= Max32 \div c
  PROVE  c * n \in 0 .. Modulus - 1 /\ (c * n) % Modulus = c * n
<1>1. Modulus \in Nat /\ Modulus > 0 /\ c \in Nat /\ n \in Nat
  BY HeapAssumption
<1>2. c * n \in Nat
  BY <1>1
<1>3. c * n <= Modulus - 1
  <2>1. CASE c = 0
    BY <1>1, <2>1
  <2>2. CASE c # 0
    <3> DEFINE q == (Modulus - 1) \div c
    <3>1. q \in Nat /\ c * q <= Modulus - 1
      BY <1>1, <2>2
    <3>2. n <= q
      BY <2>2 DEF Max32
    <3> HIDE DEF q
    <3>3. c * n <= c * q
      BY <1>1, <3>1, <3>2
    <3> QED
      BY <1>1, <1>2, <3>1, <3>3
  <2> QED
    BY <2>1, <2>2
<1>4. \A k \in Nat : k < Modulus => k % Modulus = k
  BY <1>1
<1> QED
  BY <1>1, <1>2, <1>3, <1>4

(* calloc is malloc of the product, cleared (helpers.py:157-165).           *)
LEMMA ClearAllocateIs ==
  ASSUME NEW c \in Counts, NEW n \in Request, ClearAllocate(c, n)
  PROVE  c * n \in 0 .. Modulus - 1 /\ c * n \in Sizes /\ Allocate(c * n, Zero)
<1>1. c \in 0 .. Modulus - 1 /\ n \in 0 .. Modulus - 1
  BY HeapAssumption
<1>2. c = 0 \/ n <= Max32 \div c
  BY DEF ClearAllocate
<1>3. c * n \in 0 .. Modulus - 1 /\ (c * n) % Modulus = c * n
  BY <1>1, <1>2, ProductFits
<1>4. Allocate(c * n, Zero)
  BY <1>3 DEF ClearAllocate, Allocate
<1> QED
  BY <1>3, <1>4 DEF Sizes

-----------------------------------------------------------------------------
(* free leaves a good heap without the block it was given                   *)
(* (helpers.py:131-155).                                                    *)
LEMMA ReleaseEffect ==
  ASSUME IInv, NEW p \in DOMAIN live, Release(p)
  PROVE  /\ Good(size', free', end') /\ sp' = sp
         /\ HeldOf(size', free') = HeldOf(size, free) \ {BlockOf(p)}
         /\ \A a \in HeldOf(size, free) \ {BlockOf(p)} : size'[a] = size[a]
         /\ live' = Without(live, p)
         /\ memory' = WithHeaders(memory, HeapOf(size', free', end'))
<1> DEFINE x == BlockOf(p)
<1>1. x \in HeldOf(size, free) /\ p = x + 8 /\ Good(size, free, end)
  BY Holding DEF IInv
<1>2. PICK t, g :
        /\ Free(HeapOf(size, free, end), x + 8) = HeapOf(t, g, end)
        /\ Good(t, g, end)
        /\ HeldOf(t, g) = HeldOf(size, free) \ {x}
        /\ \A a \in HeldOf(size, free) \ {x} : t[a] = size[a]
  BY <1>1, Freed
<1>3. Free(Heap, p) = HeapOf(t, g, end)
  BY <1>1, <1>2 DEF Heap
<1>4. size' = t /\ free' = g /\ end' = end
  BY <1>3, HeapFields DEF Release, Becomes
<1> QED
  BY <1>2, <1>3, <1>4 DEF Release

(* free keeps the invariant: no other allocation loses its block or its     *)
(* contents.                                                                *)
LEMMA ReleaseInv ==
  ASSUME IInv, NEW p \in DOMAIN live, Release(p)
  PROVE  IInv'
<1> DEFINE x == BlockOf(p)
           Held == HeldOf(size, free)
<1>1. /\ Good(size', free', end') /\ sp' = sp
      /\ HeldOf(size', free') = Held \ {x}
      /\ \A a \in Held \ {x} : size'[a] = size[a]
      /\ live' = Without(live, p)
      /\ memory' = WithHeaders(memory, HeapOf(size', free', end'))
  BY ReleaseEffect
<1>2. /\ DOMAIN live' = DOMAIN live \ {p} /\ live' = [q \in DOMAIN live' |-> live'[q]]
      /\ \A q \in DOMAIN live' : live'[q] = live[q]
  BY <1>1 DEF Without
<1>3. ASSUME NEW q \in DOMAIN live'
      PROVE  /\ q \in DOMAIN live /\ BlockOf(q) \in Held /\ BlockOf(q) # x
             /\ size'[BlockOf(q)] = size[BlockOf(q)]
  BY <1>1, <1>2, Holding
<1>4. x \in Held /\ p = x + 8
  BY Holding
<1> HIDE DEF Held
<1>5. Holdings'
  <2>1. DOMAIN live' = {a + 8 : a \in HeldOf(size', free')}
    <3>1. DOMAIN live = {a + 8 : a \in Held} /\ \A a \in Held : a \in Nat
      BY HeldBlock DEF IInv, Holdings, Held
    <3>2. \A a \in Held : a + 8 = x + 8 => a = x
      BY <1>4, <3>1
    <3> HIDE DEF x
    <3> QED
      BY <1>1, <1>2, <1>4, <3>1, <3>2
  <2>2. \A q \in DOMAIN live' : q \in DOMAIN live /\ live'[q] = live[q]
    BY <1>2
  <2> QED
    BY <1>2, <2>1, <2>2 DEF IInv, Holdings
<1>6. LargeEnough'
  <2>1. \A q \in DOMAIN live' : live'[q].want <= size'[BlockOf(q)]
    BY <1>2, <1>3, Holding
  <2> QED
    BY <2>1 DEF LargeEnough, BlockOf
<1>7. ContentsKept'
  <2>1. ASSUME NEW q \in DOMAIN live', NEW w \in Words(q, live'[q].kept)
        PROVE  memory'[w] = live'[q].tag
    <3> DEFINE c == BlockOf(q)
    <3>1. /\ q \in DOMAIN live /\ live'[q] = live[q] /\ c \in HeldOf(size', free')
          /\ size'[c] = size[c]
      BY <1>1, <1>2, <1>3
    <3>2. w \in Word /\ w \in Nat /\ q <= w /\ w < q + live[q].kept
      BY <3>1, HeapAssumption DEF Words, Word
    <3>3. /\ q = c + 8 /\ c \in Nat /\ size[c] \in Nat
          /\ live[q].want <= size[c] /\ live[q].want \in Nat
          /\ live[q].kept <= live[q].want /\ live[q].kept \in Nat
      BY <3>1, Holding
    <3> HIDE DEF c
    <3>4. c + 8 <= w /\ w < c + 8 + size'[c]
      BY <3>1, <3>2, <3>3
    <3>5. memory'[w] = memory[w]
      BY <1>1, <3>1, <3>2, <3>4, WithHeadersKeeps
    <3>6. w \in Words(q, live[q].kept)
      BY <3>1
    <3>7. memory[w] = live[q].tag
      BY <3>1, <3>6 DEF IInv, ContentsKept
    <3> QED
      BY <3>1, <3>5, <3>7
  <2> QED
    BY <2>1 DEF ContentsKept, Words
<1>8. sp' \in Stacks
  BY <1>1 DEF IInv
<1> QED
  BY <1>1, <1>5, <1>6, <1>7, <1>8 DEF IInv

-----------------------------------------------------------------------------
(* What realloc makes of the allocation at p.                               *)
Resized(p, want) ==
  [want |-> want, tag |-> live[p].tag,
   kept |-> IF live[p].kept < want THEN live[p].kept ELSE want]

(* The block of p moves to b, whose first bytes are those p had.            *)
Moves(p, b, want) ==
  /\ Good(size', free', end') /\ sp' = sp
  /\ b \notin HeldOf(size, free)
  /\ HeldOf(size', free') = (HeldOf(size, free) \cup {b}) \ {BlockOf(p)}
  /\ size'[b] >= want
  /\ \A a \in HeldOf(size, free) \ {BlockOf(p)} : size'[a] = size[a]
  /\ live' = With(Without(live, p), b + 8, Resized(p, want))
  /\ \A w \in Word :
       /\ b + 8 <= w /\ w < b + 8 + want /\ w < b + 8 + size[BlockOf(p)]
          => memory'[w] = memory[p + (w - (b + 8))]
       /\ \A a \in HeldOf(size, free) \ {BlockOf(p)} :
            a + 8 <= w /\ w < a + 8 + size[a] => memory'[w] = memory[w]

(* The block of p is large enough and stays.                                *)
Stays(p, want) ==
  /\ UNCHANGED <<size, free, end, sp, memory>>
  /\ want <= size[BlockOf(p)]
  /\ live' = [live EXCEPT ![p] = Resized(p, want)]

(* realloc changes nothing, leaves the block where it is, or moves the      *)
(* contents into a block nobody held before it frees the old one            *)
(* (helpers.py:167-184).                                                    *)
LEMMA ReallocateEffect ==
  ASSUME IInv, NEW p \in DOMAIN live, NEW want \in 1 .. Modulus - 1, Reallocate(p, want)
  PROVE  Stays(p, want) \/ UNCHANGED vars \/ \E b : Moves(p, b, want)
<1> DEFINE x == BlockOf(p)
           old == size[x]
           r == Malloc(Heap, want)
<1>1. /\ x \in HeldOf(size, free) /\ x \in Nat /\ p = x + 8 /\ old \in Nat /\ want \in Nat
      /\ Good(size, free, end) /\ sp \in Stacks /\ Modulus \in Nat
  BY Holding, HeapAssumption DEF IInv
<1>2. /\ sp' = sp
      /\ \/ /\ old >= want
            /\ live' = [live EXCEPT ![p] = Resized(p, want)]
            /\ UNCHANGED <<size, free, end, memory>>
         \/ /\ old < want
            /\ r.pointer # 0
            /\ Becomes(Free(r.heap, p))
            /\ live' = With(Without(live, p), r.pointer, Resized(p, want))
            /\ memory' = WithHeaders(Copied(WithHeaders(memory, r.heap), p, r.pointer, old),
                                     Free(r.heap, p))
         \/ /\ old < want
            /\ r.pointer = 0
            /\ UNCHANGED <<size, free, end, memory, live>>
  BY DEF Reallocate, Resized
<1>3. \/ r.pointer = 0 /\ r.heap = Heap
      \/ \E t, g, d, b :
           /\ r.heap = HeapOf(t, g, d) /\ r.pointer = b + 8
           /\ Good(t, g, d) /\ want >= 1
           /\ b \notin HeldOf(size, free) /\ HeldOf(t, g) = HeldOf(size, free) \cup {b}
           /\ t[b] >= want
           /\ \A a \in HeldOf(size, free) : t[a] = size[a]
  <2>1. want \in 0 .. Modulus - 1
    BY <1>1
  <2> QED
    BY <1>1, <2>1, Allocated DEF Heap
<1> HIDE DEF r
<1>4. CASE old >= want /\ live' = [live EXCEPT ![p] = Resized(p, want)]
           /\ UNCHANGED <<size, free, end, memory>>
  BY <1>1, <1>2, <1>4 DEF Stays
<1>5. CASE old < want /\ r.pointer = 0 /\ UNCHANGED <<size, free, end, memory, live>>
  BY <1>2, <1>5 DEF vars
<1>6. CASE /\ old < want
           /\ r.pointer # 0
           /\ Becomes(Free(r.heap, p))
           /\ live' = With(Without(live, p), r.pointer, Resized(p, want))
           /\ memory' = WithHeaders(Copied(WithHeaders(memory, r.heap), p, r.pointer, old),
                                    Free(r.heap, p))
  <2>1. PICK t, g, d, b :
          /\ r.heap = HeapOf(t, g, d) /\ r.pointer = b + 8
          /\ Good(t, g, d)
          /\ b \notin HeldOf(size, free) /\ HeldOf(t, g) = HeldOf(size, free) \cup {b}
          /\ t[b] >= want
          /\ \A a \in HeldOf(size, free) : t[a] = size[a]
    BY <1>3, <1>6
  <2>2. x \in HeldOf(t, g) /\ b # x
    BY <1>1, <2>1
  <2>3. PICK u, k :
          /\ Free(HeapOf(t, g, d), x + 8) = HeapOf(u, k, d)
          /\ Good(u, k, d)
          /\ HeldOf(u, k) = HeldOf(t, g) \ {x}
          /\ \A a \in HeldOf(t, g) \ {x} : u[a] = t[a]
    BY <2>1, <2>2, Freed
  <2>4. Free(r.heap, p) = HeapOf(u, k, d)
    BY <1>1, <2>1, <2>3
  <2>5. size' = u /\ free' = k /\ end' = d
    BY <1>6, <2>4, HeapFields DEF Becomes
  <2> DEFINE m == WithHeaders(memory, HeapOf(t, g, d))
             n == Copied(m, p, b + 8, old)
  <2>6. memory' = WithHeaders(n, HeapOf(u, k, d))
    BY <1>6, <2>1, <2>4
  <2>7. /\ b \in HeldOf(t, g) /\ b \in Nat /\ t[b] \in Nat /\ b % 4 = 0 /\ Base <= b
        /\ b + 8 + t[b] <= Modulus
    <3>1. b \in HeldOf(t, g)
      BY <2>1
    <3>2. /\ b \in Nat /\ t[b] \in Nat /\ b % 4 = 0 /\ Base <= b
          /\ b + 8 + t[b] <= d /\ d <= Modulus /\ d \in Nat
      BY <2>1, <3>1, HeldBlock
    <3> QED
      BY <1>1, <3>1, <3>2
  <2>8. u[b] = t[b] /\ b \in HeldOf(u, k)
    BY <2>2, <2>3, <2>7
  <2>9. ASSUME NEW w \in Word, b + 8 <= w, w < b + 8 + want, w < b + 8 + old
        PROVE  memory'[w] = memory[p + (w - (b + 8))]
    <3>1. w \in Nat /\ w % 4 = 0
      BY HeapAssumption DEF Word
    <3>2. w < b + 8 + u[b]
      BY <1>1, <2>1, <2>7, <2>8, <2>9, <3>1
    <3>3. memory'[w] = n[w]
      BY <2>3, <2>6, <2>8, <2>9, <3>2, WithHeadersKeeps
    <3>4. n[w] = m[p + (w - (b + 8))]
      <4>1. w \in Words(b + 8, old)
        BY <2>9 DEF Words
      <4> QED
        BY <4>1 DEF Copied
    <3> DEFINE v == p + (w - (b + 8))
    <3>5. v \in Nat /\ x + 8 <= v /\ v < x + 8 + old /\ v % 4 = 0
      <4>1. x % 4 = 0
        BY <1>1, HeldBlock
      <4>2. \A y, z, o \in Nat : y % 4 = 0 /\ z % 4 = 0 /\ o % 4 = 0 /\ z + 8 <= y
              => (o + 8 + (y - (z + 8))) % 4 = 0
        OBVIOUS
      <4>3. \A y, z, o, l \in Nat : z + 8 <= y /\ y < z + 8 + l
              => /\ o + 8 + (y - (z + 8)) \in Nat /\ o + 8 <= o + 8 + (y - (z + 8))
                 /\ o + 8 + (y - (z + 8)) < o + 8 + l
        OBVIOUS
      <4>4. v % 4 = 0
        BY <1>1, <2>7, <2>9, <3>1, <4>1, <4>2
      <4>5. v \in Nat /\ x + 8 <= v /\ v < x + 8 + old
        BY <1>1, <2>7, <2>9, <3>1, <4>3
      <4> QED
        BY <4>4, <4>5
    <3>6. v \in Word
      <4>1. x + 8 + old <= end /\ end <= Modulus /\ Base <= x /\ end \in Nat /\ Base \in Nat
        BY <1>1, HeldBlock, HeapAssumption
      <4> QED
        BY <1>1, <3>5, <4>1 DEF Word
    <3>7. t[x] = old
      BY <1>1, <2>1
    <3>8. m[v] = memory[v]
      <4> HIDE DEF v
      <4> QED
        BY <2>1, <2>2, <3>5, <3>6, <3>7, WithHeadersKeeps
    <3> QED
      BY <3>3, <3>4, <3>8
  <2>10. ASSUME NEW w \in Word, NEW a \in HeldOf(size, free) \ {x},
                a + 8 <= w, w < a + 8 + size[a]
         PROVE  memory'[w] = memory[w]
    <3>1. /\ a \in HeldOf(t, g) /\ a \in HeldOf(u, k) /\ t[a] = size[a] /\ u[a] = size[a]
          /\ a # b /\ a \in Nat /\ size[a] \in Nat
      BY <1>1, <2>1, <2>3, HeldBlock
    <3>2. memory'[w] = n[w]
      BY <2>3, <2>6, <2>10, <3>1, WithHeadersKeeps
    <3>3. n[w] = m[w]
      <4>1. b + 8 + t[b] <= a \/ a + 8 + t[a] <= b
        BY <2>1, <2>7, <3>1, HeldApart
      <4>2. w \in Nat
        BY HeapAssumption DEF Word
      <4>3. ~ (b + 8 <= w /\ w < b + 8 + old)
        BY <1>1, <1>6, <2>1, <2>7, <2>10, <3>1, <4>1, <4>2
      <4>4. w \notin Words(b + 8, old)
        BY <4>3 DEF Words
      <4> QED
        BY <4>4 DEF Copied
    <3>4. m[w] = memory[w]
      BY <2>1, <2>10, <3>1, WithHeadersKeeps
    <3> QED
      BY <3>2, <3>3, <3>4
  <2> HIDE DEF m, n
  <2>11. HeldOf(u, k) = (HeldOf(size, free) \cup {b}) \ {x}
    BY <2>1, <2>3
  <2>12. \A a \in HeldOf(size, free) \ {x} : u[a] = size[a]
    BY <2>1, <2>3
  <2>13. live' = With(Without(live, p), b + 8, Resized(p, want))
    BY <1>6, <2>1
  <2>14. u[b] >= want
    BY <2>1, <2>8
  <2>15. Moves(p, b, want)
    BY <1>2, <2>1, <2>3, <2>5, <2>9, <2>10, <2>11, <2>12, <2>13, <2>14 DEF Moves
  <2> QED
    BY <2>15
<1> QED
  BY <1>2, <1>4, <1>5, <1>6

(* realloc of a block that is large enough keeps the invariant.             *)
LEMMA StaysInv ==
  ASSUME IInv, NEW p \in DOMAIN live, NEW want \in Request, want # 0, Stays(p, want)
  PROVE  IInv'
<1>1. /\ UNCHANGED <<size, free, end, sp, memory>>
      /\ want <= size[BlockOf(p)] /\ want \in Nat /\ want >= 1
      /\ live' = [live EXCEPT ![p] = Resized(p, want)]
  BY HeapAssumption DEF Stays
<1>2. /\ live[p].kept \in Nat /\ live[p].kept >= 1 /\ live[p].tag \in Contents \cup {Zero}
  BY Holding DEF IInv, Holdings
<1>3. /\ Resized(p, want).want = want /\ Resized(p, want).tag = live[p].tag
      /\ Resized(p, want).kept \in 1 .. want /\ Resized(p, want).kept <= live[p].kept
      /\ Resized(p, want) = [want |-> Resized(p, want).want, kept |-> Resized(p, want).kept,
                             tag |-> Resized(p, want).tag]
  BY <1>1, <1>2 DEF Resized
<1>4. /\ DOMAIN live' = DOMAIN live /\ live'[p] = Resized(p, want)
      /\ \A q \in DOMAIN live : q # p => live'[q] = live[q]
      /\ live' = [q \in DOMAIN live' |-> live'[q]]
  BY <1>1 DEF IInv, Holdings
<1>5. Holdings'
  <2>1. DOMAIN live' = {a + 8 : a \in HeldOf(size', free')}
    BY <1>1, <1>4 DEF IInv, Holdings
  <2>2. ASSUME NEW q \in DOMAIN live'
        PROVE  /\ live'[q] = [want |-> live'[q].want, kept |-> live'[q].kept, tag |-> live'[q].tag]
               /\ live'[q].want \in Sizes /\ live'[q].want \in Nat
               /\ live'[q].kept \in 1 .. live'[q].want
               /\ live'[q].tag \in Contents \cup {Zero}
    <3>1. CASE q = p
      BY <1>1, <1>2, <1>3, <1>4, <3>1 DEF Sizes
    <3>2. CASE q # p
      BY <1>4, <3>2 DEF IInv, Holdings
    <3> QED
      BY <3>1, <3>2
  <2> QED
    BY <1>4, <2>1, <2>2 DEF Holdings
<1>6. LargeEnough'
  <2>1. ASSUME NEW q \in DOMAIN live' PROVE live'[q].want <= size'[BlockOf(q)]
    BY <1>1, <1>3, <1>4, Holding
  <2> QED
    BY <2>1 DEF LargeEnough, BlockOf
<1>7. ContentsKept'
  <2>1. ASSUME NEW q \in DOMAIN live', NEW w \in Words(q, live'[q].kept)
        PROVE  memory'[w] = live'[q].tag
    <3>1. /\ live'[q].tag = live[q].tag /\ live'[q].kept <= live[q].kept
          /\ live'[q].kept \in Nat /\ q \in DOMAIN live
      BY <1>3, <1>4, Holding
    <3>2. q \in Nat /\ live[q].kept \in Nat
      BY <3>1, Holding
    <3>3. w \in Word /\ w \in Nat /\ q <= w /\ w < q + live'[q].kept
      BY HeapAssumption DEF Words, Word
    <3>4. w \in Words(q, live[q].kept)
      BY <3>1, <3>2, <3>3 DEF Words
    <3> QED
      BY <1>1, <3>1, <3>4 DEF IInv, ContentsKept
  <2> QED
    BY <2>1 DEF ContentsKept, Words
<1> QED
  BY <1>1, <1>5, <1>6, <1>7 DEF IInv

(* realloc that moves keeps the invariant: the new block has the contents   *)
(* of the old one, and the others keep theirs.                              *)
LEMMA MovesInv ==
  ASSUME IInv, NEW p \in DOMAIN live, NEW want \in Request, want # 0,
         NEW b, Moves(p, b, want)
  PROVE  IInv'
<1> DEFINE x == BlockOf(p)
           Held == HeldOf(size, free)
           new == Resized(p, want)
<1>1. /\ Good(size', free', end') /\ sp' = sp
      /\ b \notin Held /\ HeldOf(size', free') = (Held \cup {b}) \ {x}
      /\ size'[b] >= want /\ want \in Nat /\ want >= 1
      /\ \A a \in Held \ {x} : size'[a] = size[a]
      /\ live' = With(Without(live, p), b + 8, new)
  BY HeapAssumption DEF Moves
<1>2. \A w \in Word :
        /\ b + 8 <= w /\ w < b + 8 + want /\ w < b + 8 + size[x]
           => memory'[w] = memory[p + (w - (b + 8))]
        /\ \A a \in Held \ {x} :
             a + 8 <= w /\ w < a + 8 + size[a] => memory'[w] = memory[w]
  BY DEF Moves
<1>3. /\ x \in Held /\ p = x + 8 /\ x \in Nat /\ size[x] \in Nat
      /\ live[p].kept \in Nat /\ live[p].kept >= 1 /\ live[p].tag \in Contents \cup {Zero}
      /\ live[p].kept <= size[x]
  <2>1. live[p].want \in Nat /\ live[p].want <= size[x] /\ live[p].kept <= live[p].want
    BY Holding
  <2>2. live[p].tag \in Contents \cup {Zero}
    BY DEF IInv, Holdings
  <2>3. /\ x \in Held /\ p = x + 8 /\ x \in Nat /\ size[x] \in Nat
        /\ live[p].kept \in Nat /\ live[p].kept >= 1
    BY Holding
  <2> QED
    BY <2>1, <2>2, <2>3
<1>4. /\ new.want = want /\ new.tag = live[p].tag
      /\ new.kept \in 1 .. want /\ new.kept <= live[p].kept
      /\ new = [want |-> new.want, kept |-> new.kept, tag |-> new.tag]
  BY <1>1, <1>3 DEF Resized
<1>5. b \in Nat /\ size'[b] \in Nat /\ b # x /\ b % 4 = 0 /\ x % 4 = 0
  <2>1. b \in HeldOf(size', free') /\ b # x
    BY <1>1, <1>3
  <2>2. x % 4 = 0
    BY <1>3, HeldBlock DEF IInv
  <2> QED
    BY <1>1, <2>1, <2>2, HeldBlock
<1>6. ASSUME NEW q \in DOMAIN live, q # p
      PROVE  /\ BlockOf(q) \in Held \ {x} /\ BlockOf(q) # b /\ q # b + 8 /\ q = BlockOf(q) + 8
             /\ BlockOf(q) \in Nat /\ size'[BlockOf(q)] = size[BlockOf(q)]
  <2>1. BlockOf(q) \in Held /\ q = BlockOf(q) + 8 /\ BlockOf(q) \in Nat
    BY Holding
  <2>2. BlockOf(q) # x
    BY <1>3, <1>6, <2>1
  <2> HIDE DEF x
  <2> QED
    BY <1>1, <1>5, <2>1, <2>2
<1> HIDE DEF Held, new, x
<1>7. /\ DOMAIN live' = (DOMAIN live \ {p}) \cup {b + 8}
      /\ live'[b + 8] = new
      /\ \A q \in DOMAIN live : q # p => live'[q] = live[q]
      /\ live' = [q \in DOMAIN live' |-> live'[q]]
  BY <1>1, <1>6 DEF With, Without
<1>8. Holdings'
  <2>1. DOMAIN live' = {a + 8 : a \in HeldOf(size', free')}
    <3>1. DOMAIN live = {a + 8 : a \in Held} /\ \A a \in Held : a \in Nat
      BY HeldBlock DEF IInv, Holdings, Held
    <3>2. \A a \in Held : a + 8 = x + 8 => a = x
      BY <1>3, <3>1
    <3>3. DOMAIN live \ {p} = {a + 8 : a \in Held \ {x}}
      BY <1>3, <3>1, <3>2
    <3>4. (Held \cup {b}) \ {x} = (Held \ {x}) \cup {b}
      BY <1>5
    <3> QED
      BY <1>1, <1>7, <3>3, <3>4
  <2>2. ASSUME NEW q \in DOMAIN live'
        PROVE  /\ live'[q] = [want |-> live'[q].want, kept |-> live'[q].kept, tag |-> live'[q].tag]
               /\ live'[q].want \in Sizes /\ live'[q].want \in Nat
               /\ live'[q].kept \in 1 .. live'[q].want
               /\ live'[q].tag \in Contents \cup {Zero}
    <3>1. CASE q = b + 8
      BY <1>1, <1>3, <1>4, <1>7, <3>1 DEF Sizes
    <3>2. CASE q \in DOMAIN live /\ q # p
      BY <1>7, <3>2 DEF IInv, Holdings
    <3> QED
      BY <1>7, <3>1, <3>2
  <2> QED
    BY <1>7, <2>1, <2>2 DEF Holdings
<1>9. LargeEnough'
  <2>1. ASSUME NEW q \in DOMAIN live' PROVE live'[q].want <= size'[BlockOf(q)]
    <3>1. CASE q = b + 8
      <4>1. BlockOf(q) = b
        BY <1>5, <3>1 DEF BlockOf, HeaderSize
      <4> QED
        BY <1>1, <1>4, <1>5, <1>7, <3>1, <4>1
    <3>2. CASE q \in DOMAIN live /\ q # p
      BY <1>6, <1>7, <3>2, Holding
    <3> QED
      BY <1>7, <3>1, <3>2
  <2> QED
    BY <2>1 DEF LargeEnough, BlockOf
<1>10. ContentsKept'
  <2>1. ASSUME NEW q \in DOMAIN live', NEW w \in Words(q, live'[q].kept)
        PROVE  memory'[w] = live'[q].tag
    <3>1. w \in Word /\ w \in Nat /\ q <= w /\ w < q + live'[q].kept /\ w % 4 = 0
      BY HeapAssumption DEF Words, Word
    <3>2. CASE q = b + 8
      <4> DEFINE v == p + (w - (b + 8))
      <4>1. /\ b + 8 <= w /\ w < b + 8 + new.kept /\ new.kept \in Nat
            /\ new.kept <= want /\ new.kept <= live[p].kept
        BY <1>4, <1>7, <3>1, <3>2
      <4>2. w < b + 8 + want /\ w < b + 8 + size[x]
        BY <1>1, <1>3, <1>5, <3>1, <4>1
      <4>3. memory'[w] = memory[v]
        BY <1>2, <3>1, <4>1, <4>2
      <4>4. \A y, z, o, l \in Nat : z + 8 <= y /\ y < z + 8 + l
              => /\ o + 8 + (y - (z + 8)) \in Nat /\ o + 8 <= o + 8 + (y - (z + 8))
                 /\ o + 8 + (y - (z + 8)) < o + 8 + l
        OBVIOUS
      <4>5. \A y, z, o \in Nat : y % 4 = 0 /\ z % 4 = 0 /\ o % 4 = 0 /\ z + 8 <= y
              => (o + 8 + (y - (z + 8))) % 4 = 0
        OBVIOUS
      <4>6. w < b + 8 + live[p].kept
        BY <1>3, <1>5, <3>1, <4>1
      <4>7. v \in Nat /\ p <= v /\ v < p + live[p].kept
        BY <1>3, <1>5, <3>1, <4>1, <4>4, <4>6
      <4>8. v % 4 = 0
        BY <1>3, <1>5, <3>1, <4>1, <4>5
      <4>9. Base <= p /\ p + size[x] <= Modulus /\ Base \in Nat /\ Modulus \in Nat
        BY Holding, HeapAssumption DEF x
      <4> HIDE DEF v
      <4>10. v \in Words(p, live[p].kept)
        BY <1>3, <4>7, <4>8, <4>9 DEF Words, Word
      <4>11. memory[v] = live[p].tag
        BY <4>10 DEF IInv, ContentsKept
      <4> QED
        BY <1>4, <1>7, <3>2, <4>3, <4>11
    <3>3. CASE q \in DOMAIN live /\ q # p
      <4> DEFINE c == BlockOf(q)
      <4>1. /\ c \in Held \ {x} /\ q = c + 8 /\ c \in Nat /\ live'[q] = live[q]
        BY <1>6, <1>7, <3>3
      <4>2. /\ size[c] \in Nat /\ live[q].want <= size[c] /\ live[q].want \in Nat
            /\ live[q].kept <= live[q].want /\ live[q].kept \in Nat
        BY <3>3, Holding
      <4> HIDE DEF c
      <4>3. c + 8 <= w /\ w < c + 8 + size[c]
        BY <3>1, <4>1, <4>2
      <4>4. memory'[w] = memory[w]
        BY <1>2, <3>1, <4>1, <4>3
      <4>5. memory[w] = live[q].tag
        BY <3>3, <4>1 DEF IInv, ContentsKept
      <4> QED
        BY <4>1, <4>4, <4>5
    <3> QED
      BY <1>7, <3>2, <3>3
  <2> QED
    BY <2>1 DEF ContentsKept, Words
<1>11. sp' \in Stacks
  BY <1>1 DEF IInv
<1> QED
  BY <1>1, <1>8, <1>9, <1>10, <1>11 DEF IInv

-----------------------------------------------------------------------------
(* A step that leaves the heap, the memory and the allocations alone keeps  *)
(* the invariant.                                                           *)
LEMMA SameHeapInv ==
  ASSUME IInv, UNCHANGED <<size, free, end, memory, live>>, sp' \in Stacks
  PROVE  IInv'
<1>1. size' = size /\ free' = free /\ end' = end /\ memory' = memory /\ live' = live
  OBVIOUS
<1>2. Good(size', free', end')
  BY <1>1 DEF IInv
<1>3. Holdings'
  BY <1>1 DEF IInv, Holdings
<1>4. LargeEnough'
  BY <1>1 DEF IInv, LargeEnough
<1>5. ContentsKept'
  BY <1>1 DEF IInv, ContentsKept
<1> QED
  BY <1>2, <1>3, <1>4, <1>5 DEF IInv

(* Every call a program makes keeps the heap's invariant.                   *)
LEMMA NextInv == IInv /\ [Next]_vars => IInv'
<1> SUFFICES ASSUME IInv, [Next]_vars PROVE IInv'
  OBVIOUS
<1>0. CASE UNCHANGED vars
  <2>1. UNCHANGED <<size, free, end, memory, live>> /\ sp' \in Stacks
    BY <1>0 DEF vars, IInv
  <2> QED
    BY <2>1, SameHeapInv
<1>1. ASSUME NEW n \in Request, NEW t \in Contents, Allocate(n, t) PROVE IInv'
  <2>1. n \in 0 .. Modulus - 1 /\ n \in Sizes /\ n \in Nat
    BY HeapAssumption DEF Sizes
  <2> QED
    BY <1>0, <1>1, <2>1, AllocateEffect, GrantsInv
<1>2. ASSUME NEW p \in DOMAIN live, Release(p) PROVE IInv'
  BY <1>2, ReleaseInv
<1>3. ASSUME NEW c \in Counts, NEW n \in Request, ClearAllocate(c, n) PROVE IInv'
  <2>1. c * n \in 0 .. Modulus - 1 /\ c * n \in Sizes /\ Allocate(c * n, Zero)
    BY <1>3, ClearAllocateIs
  <2>2. c * n \in Nat
    BY <2>1
  <2>3. UNCHANGED vars \/ \E b : Grants(b, c * n, Zero)
    BY <2>1, AllocateEffect
  <2> DEFINE k == c * n
  <2> HIDE DEF k
  <2> QED
    BY <1>0, <2>1, <2>2, <2>3, GrantsInv DEF k
<1>4. ASSUME NEW p \in DOMAIN live, NEW n \in Request, Reallocate(p, n) PROVE IInv'
  <2>1. n \in 1 .. Modulus - 1 /\ n # 0
    BY <1>4, HeapAssumption DEF Reallocate
  <2> QED
    BY <1>0, <1>4, <2>1, ReallocateEffect, StaysInv, MovesInv
<1>5. ASSUME NEW s \in Stacks, MoveStack(s) PROVE IInv'
  <2>1. UNCHANGED <<size, free, end, memory, live>> /\ sp' \in Stacks
    BY <1>5 DEF MoveStack
  <2> QED
    BY <2>1, SameHeapInv
<1> QED
  BY <1>0, <1>1, <1>2, <1>3, <1>4, <1>5 DEF Next

(* The invariant holds in every state of every program: no sequence of      *)
(* malloc, free, calloc and realloc calls breaks the heap                   *)
(* (helpers.py:81-184).                                                     *)
THEOREM Invariance == Spec => []IInv
<1>1. Init => IInv
  BY InitInv
<1>2. IInv /\ [Next]_vars => IInv'
  BY NextInv
<1> QED
  BY <1>1, <1>2, PTL DEF Spec

-----------------------------------------------------------------------------
(* Neither free nor a block off the free list moves the end of the heap,    *)
LEMMA EndStays ==
  ASSUME NEW h, NEW p, NEW i, NEW n
  PROVE  Free(h, p).end = h.end /\ TakeFree(h, i, n).end = h.end
<1>1. \A g, j : Merged(g, j).end = g.end
  BY DEF Merged, HeapOf
<1>2. \A b : Linked(h, b).end = h.end
  BY DEF Linked, HeapOf
<1>3. Free(h, p).end = h.end
  BY <1>1, <1>2 DEF Free
<1>4. TakeFree(h, i, n).end = h.end
  BY DEF TakeFree, HeapOf
<1> QED
  BY <1>3, <1>4

(* and malloc moves it no further than to the stack (helpers.py:122-123).   *)
LEMMA EndGrows ==
  ASSUME NEW h, h.end \in Nat, sp \in Stacks, h.end <= sp, NEW want \in 0 .. Modulus - 1
  PROVE  Malloc(h, want).heap.end \in Nat /\ Malloc(h, want).heap.end <= sp
<1> DEFINE n == RoundUp(want)
           i == FirstFit(h, n)
           left == Remaining(h)
<1>1. sp \in Nat /\ Modulus \in Nat /\ Modulus > 12
  BY HeapAssumption
<1>2. CASE want = 0 \/ want > Modulus - 12
  <2>1. Malloc(h, want) = Refused(h)
    <3>1. want \notin 1 .. Modulus - 12
      BY <1>1, <1>2
    <3> QED
      BY <1>2, <3>1 DEF Malloc
  <2> QED
    BY <2>1 DEF Refused
<1>3. CASE ~ (want = 0 \/ want > Modulus - 12)
  <2>1. want \in 1 .. Modulus - 12
    BY <1>1, <1>3
  <2>2. n \in Nat
    BY <2>1, RoundUpProperties
  <2>3. CASE i # 0
    <3>1. Malloc(h, want).heap = TakeFree(h, i, n)
      BY <1>3, <2>1, <2>3 DEF Malloc
    <3> QED
      BY <3>1, EndStays
  <2>4. CASE i = 0 /\ left < HeaderSize + n
    <3>1. Malloc(h, want) = Refused(h)
      BY <1>3, <2>1, <2>4 DEF Malloc
    <3> QED
      BY <3>1 DEF Refused
  <2>5. CASE i = 0 /\ ~ (left < HeaderSize + n)
    <3>1. Malloc(h, want).heap = HeapOf(With(h.size, h.end, n), h.free, h.end + HeaderSize + n)
      BY <1>3, <2>1, <2>5 DEF Malloc
    <3>2. Malloc(h, want).heap.end = h.end + HeaderSize + n
      BY <3>1, HeapFields
    <3>3. left = IF sp > h.end THEN sp - h.end ELSE 0
      BY DEF Remaining
    <3> DEFINE at == h.end
    <3>4. at \in Nat /\ at + 8 + n \in Nat /\ at + 8 + n <= sp
      <4>1. at \in Nat /\ at <= sp /\ ~ (left < 8 + n) /\ left = IF sp > at THEN sp - at ELSE 0
        BY <2>5, <3>3 DEF HeaderSize
      <4> HIDE DEF at, left, n
      <4> QED
        BY <1>1, <2>2, <4>1
    <3> QED
      BY <3>2, <3>4 DEF HeaderSize
  <2> QED
    BY <2>3, <2>4, <2>5
<1> QED
  BY <1>2, <1>3

(* So the heap stays below the stack, which calls and returns move.         *)
LEMMA BelowTheStack ==
  ASSUME IInv, end <= sp, [Next]_vars
  PROVE  end' <= sp'
<1>1. /\ Heap.end = end /\ end \in Nat /\ sp \in Stacks /\ Modulus \in Nat
      /\ \A want \in 0 .. Modulus - 1 : Malloc(Heap, want).heap.end <= sp
  <2>1. Heap.end = end /\ end \in Nat /\ sp \in Stacks
    BY HeapFields DEF Heap, IInv, Good, Blocks
  <2> QED
    BY <2>1, EndGrows, HeapAssumption
<1>2. ASSUME NEW n \in Request, NEW t \in Contents, Allocate(n, t) PROVE end' <= sp'
  <2>1. end' = Malloc(Heap, n).heap.end /\ sp' = sp /\ n \in 0 .. Modulus - 1
    BY <1>2, HeapAssumption DEF Allocate, Becomes
  <2> QED
    BY <1>1, <2>1
<1>3. ASSUME NEW p \in DOMAIN live, Release(p) PROVE end' <= sp'
  <2>1. end' = Free(Heap, p).end /\ sp' = sp
    BY <1>3 DEF Release, Becomes
  <2> QED
    BY <1>1, <2>1, EndStays
<1>4. ASSUME NEW c \in Counts, NEW n \in Request, ClearAllocate(c, n) PROVE end' <= sp'
  <2> DEFINE total == (c * n) % Modulus
  <2>1. end' = Malloc(Heap, total).heap.end /\ sp' = sp
    BY <1>4 DEF ClearAllocate, Becomes
  <2>2. total \in 0 .. Modulus - 1
    <3>1. c \in Nat /\ n \in Nat /\ Modulus \in Nat /\ Modulus > 0
      BY HeapAssumption
    <3>2. c * n \in Nat
      BY <3>1
    <3> DEFINE product == c * n
    <3> HIDE DEF product
    <3>3. product % Modulus \in 0 .. Modulus - 1
      BY <3>1, <3>2 DEF product
    <3> QED
      BY <3>3 DEF product
  <2> HIDE DEF total
  <2> QED
    BY <1>1, <2>1, <2>2
<1>5. ASSUME NEW p \in DOMAIN live, NEW n \in Request, Reallocate(p, n) PROVE end' <= sp'
  <2>1. sp' = sp /\ (end' = end \/ end' = Free(Malloc(Heap, n).heap, p).end)
    BY <1>5 DEF Reallocate, Becomes
  <2>2. Free(Malloc(Heap, n).heap, p).end = Malloc(Heap, n).heap.end
    BY EndStays
  <2>3. n \in 0 .. Modulus - 1
    BY HeapAssumption
  <2> QED
    BY <1>1, <2>1, <2>2, <2>3
<1>6. ASSUME NEW s \in Stacks, MoveStack(s) PROVE end' <= sp'
  <2>1. s >= end /\ sp' = s /\ end' = end /\ s \in Nat
    BY <1>6, HeapAssumption DEF MoveStack
  <2> QED
    BY <1>1, <2>1
<1>7. CASE UNCHANGED vars
  BY <1>7 DEF vars
<1> QED
  BY <1>2, <1>3, <1>4, <1>5, <1>6, <1>7 DEF Next

(* The rest of the tiling the run checks is part of the invariant.          *)
LEMMA TilingInv == IInv /\ end <= sp => Tiling
<1> SUFFICES ASSUME IInv, end <= sp PROVE Tiling
  OBVIOUS
<1>1. /\ end \in Nat /\ Base \in Nat
      /\ DOMAIN size = {} => end = Base
      /\ DOMAIN size # {} => Base \in DOMAIN size
      /\ \A b \in DOMAIN size : Block(size, end, b)
  BY HeapAssumption DEF IInv, Good, Blocks
<1>2. end = Base => DOMAIN size = {}
  <2>1. ASSUME NEW b \in DOMAIN size PROVE end # Base
    <3>1. Block(size, end, b)
      BY <1>1
    <3>2. /\ b \in Nat /\ size[b] \in Nat
          /\ Base <= b /\ b + 8 + size[b] <= end
      BY <3>1 DEF Block
    <3> QED
      BY <1>1, <3>2
  <2> QED
    BY <2>1
<1>3. ASSUME NEW b \in DOMAIN size
      PROVE  /\ After(Heap, b) \in DOMAIN size \cup {end}
             /\ \A c \in DOMAIN size : c <= b \/ c >= After(Heap, b)
  <2>1. After(Heap, b) = b + 8 + size[b]
    BY HeapFields DEF After, Heap, HeaderSize
  <2> QED
    BY <1>1, <2>1 DEF Block
<1>4. {BlockOf(p) : p \in DOMAIN live} = DOMAIN size \ FreeSet
  <2>1. FreeSet = Listed(free)
    <3>1. DOMAIN free = 1 .. Len(free)
      BY DEF IInv, Good, Sorted
    <3> QED
      BY <3>1 DEF FreeSet, Listed
  <2>2. \A p \in DOMAIN live : BlockOf(p) \in HeldOf(size, free)
    BY Holding
  <2>3. ASSUME NEW b \in HeldOf(size, free) PROVE \E p \in DOMAIN live : BlockOf(p) = b
    <3>1. b + 8 \in DOMAIN live
      BY DEF IInv, Holdings
    <3>2. BlockOf(b + 8) = b
      BY HeldBlock DEF IInv, BlockOf, HeaderSize
    <3> QED
      BY <3>1, <3>2
  <2>4. {BlockOf(p) : p \in DOMAIN live} = HeldOf(size, free)
    BY <2>2, <2>3
  <2> QED
    BY <2>1, <2>4 DEF HeldOf
<1> QED
  BY <1>1, <1>2, <1>3, <1>4 DEF Tiling

(* So is the sorted and coalesced free list, of which the invariant says it *)
(* for neighbours only.                                                     *)
LEMMA CoalescedInv == IInv => Coalesced
<1> SUFFICES ASSUME IInv, NEW i \in DOMAIN free, NEW j \in DOMAIN free, i < j
             PROVE  free[i] < free[j] /\ After(Heap, free[i]) # free[j]
  BY DEF Coalesced
<1>1. /\ DOMAIN free = 1 .. Len(free) /\ free \in Seq(DOMAIN size)
      /\ \A k, l \in 1 .. Len(free) : k < l => free[k] < free[l]
      /\ \A k \in 1 .. Len(free) - 1 : free[k] + 8 + size[free[k]] # free[k + 1]
  BY DEF IInv, Good, Sorted, ApartBut
<1>2. \A k \in 1 .. Len(free) : free[k] \in DOMAIN size
  BY <1>1
<1>3. \A b \in DOMAIN size :
        b \in Nat /\ size[b] \in Nat /\ \A c \in DOMAIN size : c <= b \/ c >= b + 8 + size[b]
  BY DEF IInv, Good, Blocks, Block
<1>4. After(Heap, free[i]) = free[i] + 8 + size[free[i]]
  BY HeapFields DEF After, Heap, HeaderSize
<1>5. /\ i \in 1 .. Len(free) - 1 /\ i + 1 \in 1 .. Len(free) /\ j \in 1 .. Len(free)
      /\ free[i] \in Nat /\ free[i + 1] \in Nat /\ free[j] \in Nat /\ size[free[i]] \in Nat
  <2>1. i \in 1 .. Len(free) - 1 /\ i + 1 \in 1 .. Len(free) /\ j \in 1 .. Len(free)
    BY <1>1
  <2>2. \A k \in 1 .. Len(free) : free[k] \in Nat /\ size[free[k]] \in Nat
    BY <1>2, <1>3
  <2>3. i \in 1 .. Len(free)
    BY <1>1
  <2> QED
    BY <2>1, <2>2, <2>3
<1>6. free[i] < free[i + 1]
  BY <1>1, <1>5
<1>7. free[i + 1] >= free[i] + 8 + size[free[i]]
  <2>1. free[i] \in DOMAIN size /\ free[i + 1] \in DOMAIN size
    BY <1>2, <1>5
  <2>2. free[i + 1] <= free[i] \/ free[i + 1] >= free[i] + 8 + size[free[i]]
    BY <1>3, <2>1
  <2> QED
    BY <1>5, <1>6, <2>2
<1>8. CASE j = i + 1
  BY <1>1, <1>4, <1>5, <1>8
<1>9. CASE j > i + 1
  <2>1. free[i + 1] < free[j]
    BY <1>1, <1>5, <1>9
  <2> QED
    BY <1>1, <1>4, <1>5, <1>7, <2>1
<1> QED
  BY <1>5, <1>8, <1>9

(* The blocks cover the heap without gap or overlap, and a block is either  *)
(* free or held: no sequence of calls loses or duplicates a byte, or takes  *)
(* one that is the stack's (helpers.py:81-165).                             *)
THEOREM TilingTheorem == Spec => []Tiling
<1>1. Init => end <= sp
  BY HeapAssumption DEF Init
<1>2. IInv /\ end <= sp /\ [Next]_vars => (end <= sp)'
  BY BelowTheStack
<1> QED
  BY <1>1, <1>2, Invariance, TilingInv, PTL DEF Spec

(* The free list is in address order and no two free blocks touch, although *)
(* free only looks at two neighbours (helpers.py:131-155).                  *)
THEOREM CoalescedTheorem == Spec => []Coalesced
BY Invariance, CoalescedInv, PTL

(* A block is at least as large as what was asked for, for every width of   *)
(* unsigned int: neither malloc's rounding nor calloc's product wraps       *)
(* (helpers.py:113-115, 157-165).                                           *)
THEOREM LargeEnoughTheorem == Spec => []LargeEnough
<1>1. IInv => LargeEnough
  BY DEF IInv
<1> QED
  BY <1>1, Invariance, PTL

(* What a program stored stays there while it holds the allocation, through *)
(* other calls and through realloc's move (helpers.py:167-184).             *)
THEOREM ContentsKeptTheorem == Spec => []ContentsKept
<1>1. IInv => ContentsKept
  BY DEF IInv
<1> QED
  BY <1>1, Invariance, PTL

-----------------------------------------------------------------------------
(* The allocator's view of the heap.                                        *)
Owned == [p \in DOMAIN live |-> [want |-> live[p].want, tag |-> live[p].tag]]
Tags == [p \in DOMAIN live |-> {live[p].tag}]
Stored == [p \in DOMAIN live |-> {memory[w] : w \in Words(p, live[p].kept)}]

(* Every allocation holds what its tag says.                                *)
StoredAsTagged == Stored = Tags

(* The words an allocation kept hold its tag, and it has at least one.      *)
LEMMA StoredIs == IInv => StoredAsTagged
<1> SUFFICES ASSUME IInv, NEW p \in DOMAIN live
             PROVE  {memory[w] : w \in Words(p, live[p].kept)} = {live[p].tag}
  BY DEF Stored, Tags, StoredAsTagged
<1>1. \A w \in Words(p, live[p].kept) : memory[w] = live[p].tag
  BY DEF IInv, ContentsKept
<1>2. p \in Words(p, live[p].kept)
  <2>1. /\ p \in Nat /\ p % 4 = 0 /\ Base <= p /\ live[p].kept \in Nat /\ 1 <= live[p].kept
        /\ live[p].want \in Nat /\ live[p].kept <= live[p].want
        /\ size[BlockOf(p)] \in Nat /\ live[p].want <= size[BlockOf(p)]
        /\ p + size[BlockOf(p)] <= Modulus /\ Modulus \in Nat /\ Base \in Nat
    BY Holding, HeapAssumption
  <2>2. p \in Base .. Modulus - 1 /\ p < p + live[p].kept
    BY <2>1
  <2> QED
    BY <2>1, <2>2 DEF Words, Word
<1> QED
  BY <1>1, <1>2

(* Two allocations do not overlap.                                          *)
LEMMA LiveApart ==
  ASSUME IInv, NEW p \in DOMAIN live, NEW q \in DOMAIN live, p # q
  PROVE  p + live[p].want <= q \/ q + live[q].want <= p
<1> DEFINE b == BlockOf(p)
           c == BlockOf(q)
<1>1. /\ b \in HeldOf(size, free) /\ b \in Nat /\ p = b + 8
      /\ size[b] \in Nat /\ live[p].want <= size[b] /\ live[p].want \in Nat
  BY Holding
<1>2. /\ c \in HeldOf(size, free) /\ c \in Nat /\ q = c + 8
      /\ size[c] \in Nat /\ live[q].want <= size[c] /\ live[q].want \in Nat
  BY Holding
<1> HIDE DEF b, c
<1>3. b # c
  BY <1>1, <1>2
<1>4. b + 8 + size[b] <= c \/ c + 8 + size[c] <= b
  BY <1>1, <1>2, <1>3, HeldApart DEF IInv
<1> QED
  BY <1>1, <1>2, <1>4

(* An allocation lies inside the address space.                             *)
LEMMA LiveInside ==
  ASSUME IInv, NEW p \in DOMAIN live
  PROVE  p \in Word /\ p + live[p].want <= Modulus /\ live[p].want \in Sizes \ {0}
<1>1. /\ p \in Nat /\ p % 4 = 0 /\ Base <= p /\ live[p].kept \in Nat /\ 1 <= live[p].kept
      /\ live[p].want \in Nat /\ live[p].kept <= live[p].want
      /\ size[BlockOf(p)] \in Nat /\ live[p].want <= size[BlockOf(p)]
      /\ p + size[BlockOf(p)] <= Modulus /\ Modulus \in Nat /\ Base \in Nat
  BY Holding, HeapAssumption
<1>2. live[p].want \in Sizes /\ live[p].want # 0
  <2>1. live[p].want \in Sizes
    BY DEF IInv, Holdings
  <2>2. live[p].want # 0
    BY <1>1
  <2> QED
    BY <2>1, <2>2
<1>3. p \in Base .. Modulus - 1
  BY <1>1, <1>2
<1> QED
  BY <1>1, <1>2, <1>3 DEF Word

(* The allocations lie in the heap and apart from each other.               *)
LivePlaced ==
  /\ \A p \in DOMAIN live :
       p \in Word /\ p + live[p].want <= Modulus /\ live[p].want \in Sizes \ {0}
  /\ \A p, q \in DOMAIN live :
       p # q => p + live[p].want <= q \/ q + live[q].want <= p

(* So the allocations of a state of the invariant are placed as the         *)
(* allocator demands,                                                       *)
LEMMA LiveIsPlaced == IInv => LivePlaced
BY LiveApart, LiveInside DEF LivePlaced

(* and those of the state after a step.                                     *)
LEMMA LiveStaysPlaced == IInv' => LivePlaced'
BY LiveIsPlaced, PTL

-----------------------------------------------------------------------------
(* A step of the allocator, seen through Owned and Tags.                    *)
Vacant(p, n, others) ==
  /\ p + n <= Modulus
  /\ \A q \in DOMAIN others : p + n <= q \/ q + others[q].want <= p

(* The allocations with one more, and with one less.                        *)
Put(f, p, y) == [q \in DOMAIN f \cup {p} |-> IF q = p THEN y ELSE f[q]]
Drop(f, p) == [q \in DOMAIN f \ {p} |-> f[q]]

(* A step that grants p, that returns p, or that makes q of p.              *)
GrantStep(p) ==
  /\ p \in DOMAIN Owned' \ DOMAIN Owned /\ p \in Word
  /\ Owned'[p].want \in Sizes \ {0} /\ Owned'[p].tag \in Contents \cup {Zero}
  /\ Owned' = Put(Owned, p, Owned'[p])
  /\ Vacant(p, Owned'[p].want, Owned)
  /\ Tags' = Put(Tags, p, {Owned'[p].tag})

ReturnStep(p) ==
  /\ p \in DOMAIN Owned
  /\ Owned' = Drop(Owned, p)
  /\ Tags' = Drop(Tags, p)

ResizeStep(p, q) ==
  /\ p \in DOMAIN Owned /\ q \in DOMAIN Owned' /\ q \in Word
  /\ Owned'[q].want \in Sizes \ {0}
  /\ Owned' = Put(Drop(Owned, p), q, [want |-> Owned'[q].want, tag |-> Owned[p].tag])
  /\ Vacant(q, Owned'[q].want, Drop(Owned, p))
  /\ Tags' = Put(Drop(Tags, p), q, {Owned[p].tag})

(* How the allocations after a step come from those before it: one more, or *)
(* one in the place of another,                                             *)
LEMMA PutIs ==
  ASSUME NEW f, NEW p, NEW y, NEW g, g = [o \in DOMAIN g |-> g[o]],
         DOMAIN g = DOMAIN f \cup {p}, g[p] = y,
         \A o \in DOMAIN f : o # p => g[o] = f[o]
  PROVE  g = Put(f, p, y)
BY DEF Put

(* or one less.                                                             *)
LEMMA DropIs ==
  ASSUME NEW f, NEW p, NEW g, g = [o \in DOMAIN g |-> g[o]],
         DOMAIN g = DOMAIN f \ {p}, \A o \in DOMAIN g : g[o] = f[o]
  PROVE  g = Drop(f, p)
BY DEF Drop

(* What the allocator sees of one allocation, before a step                 *)
LEMMA OwnedIs ==
  /\ DOMAIN Owned = DOMAIN live /\ Owned = [p \in DOMAIN Owned |-> Owned[p]]
  /\ \A p \in DOMAIN live :
       /\ Owned[p] = [want |-> live[p].want, tag |-> live[p].tag]
       /\ Owned[p].want = live[p].want /\ Owned[p].tag = live[p].tag
BY DEF Owned

(* and after it.                                                            *)
LEMMA OwnedIsPrimed ==
  /\ DOMAIN Owned' = DOMAIN live' /\ Owned' = [p \in DOMAIN Owned' |-> Owned'[p]]
  /\ \A p \in DOMAIN live' :
       /\ Owned'[p] = [want |-> live'[p].want, tag |-> live'[p].tag]
       /\ Owned'[p].want = live'[p].want /\ Owned'[p].tag = live'[p].tag
BY DEF Owned

(* What the allocator sees of its contents, before a step                   *)
LEMMA TagsAre ==
  /\ DOMAIN Tags = DOMAIN live /\ Tags = [p \in DOMAIN Tags |-> Tags[p]]
  /\ \A p \in DOMAIN live : Tags[p] = {live[p].tag}
BY DEF Tags

(* and after it.                                                            *)
LEMMA TagsArePrimed ==
  /\ DOMAIN Tags' = DOMAIN live' /\ Tags' = [p \in DOMAIN Tags' |-> Tags'[p]]
  /\ \A p \in DOMAIN live' : Tags'[p] = {live'[p].tag}
BY DEF Tags

(* malloc and calloc that return a block grant it in the sense of the       *)
(* allocator (helpers.py:109-130, 157-165).                                 *)
LEMMA GrantsRefines ==
  ASSUME IInv, IInv', NEW b, NEW want, NEW tag \in Contents \cup {Zero}, Grants(b, want, tag)
  PROVE  GrantStep(b + 8)
<1> DEFINE p == b + 8
<1>1. /\ b \notin HeldOf(size, free) /\ b \in HeldOf(size', free')
      /\ Good(size', free', end')
      /\ live' = With(live, p, [want |-> want, kept |-> want, tag |-> tag])
  BY DEF Grants
<1>2. b \in Nat
  BY <1>1, HeldBlock
<1>3. p \notin DOMAIN live
  <2>1. ASSUME NEW q \in DOMAIN live PROVE q # p
    <3>1. BlockOf(q) \in HeldOf(size, free) /\ BlockOf(q) \in Nat /\ q = BlockOf(q) + 8
      BY Holding
    <3> QED
      BY <1>1, <1>2, <3>1
  <2> QED
    BY <2>1
<1> HIDE DEF p
<1>4. /\ DOMAIN live' = DOMAIN live \cup {p} /\ p \in DOMAIN live' /\ live'[p].tag = tag
      /\ \A q \in DOMAIN live : q # p /\ live'[q] = live[q]
  BY <1>1, <1>3 DEF With
<1>5. /\ p \in Word /\ p + live'[p].want <= Modulus /\ live'[p].want \in Sizes \ {0}
      /\ \A q \in DOMAIN live : p + live'[p].want <= q \/ q + live'[q].want <= p
  BY <1>4, LiveStaysPlaced DEF LivePlaced
<1>6. /\ Owned'[p].want = live'[p].want /\ Owned'[p].tag = tag
      /\ \A q \in DOMAIN live : Owned'[q] = Owned[q] /\ Owned[q].want = live'[q].want
  <2>1. Owned'[p].want = live'[p].want /\ Owned'[p].tag = tag
    BY <1>4, OwnedIsPrimed
  <2>2. ASSUME NEW q \in DOMAIN live
        PROVE  Owned'[q] = Owned[q] /\ Owned[q].want = live'[q].want
    <3>1. q \in DOMAIN live' /\ live'[q] = live[q]
      BY <1>4
    <3>2. /\ Owned'[q] = [want |-> live'[q].want, tag |-> live'[q].tag]
          /\ Owned[q] = [want |-> live[q].want, tag |-> live[q].tag]
          /\ Owned[q].want = live[q].want
      BY <3>1, OwnedIs, OwnedIsPrimed
    <3> QED
      BY <3>1, <3>2
  <2> QED
    BY <2>1, <2>2
<1>7. Vacant(p, Owned'[p].want, Owned)
  BY <1>5, <1>6, OwnedIs DEF Vacant
<1>8. Owned' = Put(Owned, p, Owned'[p])
  <2>1. DOMAIN Owned' = DOMAIN Owned \cup {p} /\ Owned' = [q \in DOMAIN Owned' |-> Owned'[q]]
    BY <1>4, OwnedIs, OwnedIsPrimed
  <2>2. \A q \in DOMAIN Owned : Owned'[q] = Owned[q]
    BY <1>6, OwnedIs
  <2> QED
    BY <2>1, <2>2, PutIs
<1>9. Tags' = Put(Tags, p, {Owned'[p].tag})
  <2>1. Tags'[p] = {Owned'[p].tag}
    BY <1>4, <1>6, TagsArePrimed
  <2>2. ASSUME NEW q \in DOMAIN Tags PROVE Tags'[q] = Tags[q]
    <3>1. q \in DOMAIN live /\ q \in DOMAIN live' /\ live'[q] = live[q]
      BY <1>4, TagsAre
    <3> QED
      BY <3>1, TagsAre, TagsArePrimed
  <2>3. DOMAIN Tags' = DOMAIN Tags \cup {p} /\ Tags' = [q \in DOMAIN Tags' |-> Tags'[q]]
    BY <1>4, TagsAre, TagsArePrimed
  <2> DEFINE y == {Owned'[p].tag}
  <2> HIDE DEF y
  <2>4. Tags' = Put(Tags, p, y)
    BY <2>1, <2>2, <2>3, PutIs DEF y
  <2> QED
    BY <2>4 DEF y
<1>10. p \in DOMAIN Owned' \ DOMAIN Owned
  BY <1>3, <1>4, OwnedIs, OwnedIsPrimed
<1>11. GrantStep(p)
  BY <1>5, <1>6, <1>7, <1>8, <1>9, <1>10 DEF GrantStep
<1> QED
  BY <1>11 DEF p

(* free returns the allocation and does nothing to the others               *)
(* (helpers.py:131-155).                                                    *)
LEMMA ReleaseRefines ==
  ASSUME IInv, NEW p \in DOMAIN live, Release(p)
  PROVE  ReturnStep(p)
<1>1. live' = Without(live, p)
  BY DEF Release
<1>2. /\ DOMAIN live' = DOMAIN live \ {p}
      /\ \A q \in DOMAIN live' : q \in DOMAIN live /\ live'[q] = live[q]
  BY <1>1 DEF Without
<1>3. Owned' = Drop(Owned, p)
  <2>1. ASSUME NEW q \in DOMAIN Owned' PROVE Owned'[q] = Owned[q]
    <3>1. q \in DOMAIN live' /\ q \in DOMAIN live /\ live'[q] = live[q]
      BY <1>2, OwnedIsPrimed
    <3> QED
      BY <3>1, OwnedIs, OwnedIsPrimed
  <2>2. DOMAIN Owned' = DOMAIN Owned \ {p} /\ Owned' = [q \in DOMAIN Owned' |-> Owned'[q]]
    BY <1>2, OwnedIs, OwnedIsPrimed
  <2> QED
    BY <2>1, <2>2, DropIs
<1>4. Tags' = Drop(Tags, p)
  <2>1. ASSUME NEW q \in DOMAIN Tags' PROVE Tags'[q] = Tags[q]
    <3>1. q \in DOMAIN live' /\ q \in DOMAIN live /\ live'[q] = live[q]
      BY <1>2, TagsArePrimed
    <3> QED
      BY <3>1, TagsAre, TagsArePrimed
  <2>2. DOMAIN Tags' = DOMAIN Tags \ {p} /\ Tags' = [q \in DOMAIN Tags' |-> Tags'[q]]
    BY <1>2, TagsAre, TagsArePrimed
  <2> QED
    BY <2>1, <2>2, DropIs
<1> QED
  BY <1>3, <1>4, OwnedIs DEF ReturnStep

(* realloc, whether the block stays or moves.                               *)
LEMMA ResizeRefines ==
  ASSUME IInv, IInv', NEW p \in DOMAIN live, NEW q \in DOMAIN live',
         q = p \/ q \notin DOMAIN live,
         DOMAIN live' = (DOMAIN live \ {p}) \cup {q},
         live'[q].tag = live[p].tag,
         \A o \in DOMAIN live \ {p} : live'[o] = live[o]
  PROVE  ResizeStep(p, q)
<1> DEFINE left == DOMAIN live \ {p}
<1>1. \A o \in left : o # q /\ o \in DOMAIN live' /\ o \in DOMAIN live /\ live'[o] = live[o]
  OBVIOUS
<1>2. /\ q \in Word /\ q + live'[q].want <= Modulus /\ live'[q].want \in Sizes \ {0}
      /\ \A o \in left : q + live'[q].want <= o \/ o + live'[o].want <= q
  BY <1>1, LiveStaysPlaced DEF LivePlaced
<1>3. /\ DOMAIN Drop(Owned, p) = left
      /\ \A o \in left : Drop(Owned, p)[o] = Owned[o]
      /\ DOMAIN Drop(Tags, p) = left
      /\ \A o \in left : Drop(Tags, p)[o] = Tags[o]
  BY OwnedIs, TagsAre DEF Drop
<1>4. /\ Owned'[q] = [want |-> Owned'[q].want, tag |-> Owned[p].tag]
      /\ Owned'[q].want = live'[q].want
      /\ DOMAIN Owned' = left \cup {q}
      /\ \A o \in left : Owned'[o] = Owned[o] /\ Owned[o].want = live'[o].want
  <2>1. /\ Owned'[q] = [want |-> live'[q].want, tag |-> live'[q].tag]
        /\ Owned'[q].want = live'[q].want
        /\ Owned[p].tag = live[p].tag
    BY OwnedIs, OwnedIsPrimed
  <2>2. ASSUME NEW o \in left
        PROVE  Owned'[o] = Owned[o] /\ Owned[o].want = live'[o].want
    BY <1>1, OwnedIs, OwnedIsPrimed
  <2>3. DOMAIN Owned' = left \cup {q}
    BY OwnedIsPrimed
  <2> QED
    BY <2>1, <2>2, <2>3
<1>5. /\ DOMAIN Tags' = left \cup {q}
      /\ \A o \in left : Tags'[o] = Tags[o]
      /\ Tags'[q] = {Owned[p].tag}
  <2>1. ASSUME NEW o \in left PROVE Tags'[o] = Tags[o]
    BY <1>1, TagsAre, TagsArePrimed
  <2>2. Tags'[q] = {live'[q].tag} /\ live'[q].tag = Owned[p].tag
    BY TagsArePrimed, OwnedIs
  <2> QED
    BY <2>1, <2>2, TagsArePrimed
<1> DEFINE d == Drop(Owned, p)
           t == Drop(Tags, p)
           x == [want |-> Owned'[q].want, tag |-> Owned[p].tag]
           y == {Owned[p].tag}
<1> HIDE DEF left, d, t, x, y
<1>6. Vacant(q, Owned'[q].want, d)
  BY <1>2, <1>3, <1>4 DEF Vacant, d
<1>7. Owned' = Put(d, q, x)
  <2>1. DOMAIN Owned' = DOMAIN d \cup {q} /\ Owned'[q] = x
    BY <1>3, <1>4 DEF d, x
  <2>2. \A o \in DOMAIN d : Owned'[o] = d[o]
    BY <1>3, <1>4 DEF d
  <2> QED
    BY <2>1, <2>2, OwnedIsPrimed, PutIs
<1>8. Tags' = Put(t, q, y)
  <2>1. DOMAIN Tags' = DOMAIN t \cup {q} /\ Tags'[q] = y
    BY <1>3, <1>5 DEF t, y
  <2>2. \A o \in DOMAIN t : Tags'[o] = t[o]
    BY <1>3, <1>5 DEF t
  <2> QED
    BY <2>1, <2>2, TagsArePrimed, PutIs
<1>9. p \in DOMAIN Owned /\ q \in DOMAIN Owned'
  BY OwnedIs, OwnedIsPrimed
<1> QED
  BY <1>2, <1>4, <1>6, <1>7, <1>8, <1>9 DEF ResizeStep, d, t, x, y

(* A step of the allocator, or none.                                        *)
AllocatorStep ==
  \/ \E p : GrantStep(p)
  \/ \E p : ReturnStep(p)
  \/ \E p, q : ResizeStep(p, q)
  \/ UNCHANGED <<Owned, Tags>>

(* A step that leaves the allocations alone is a stuttering step.           *)
LEMMA SameLiveRefines == live' = live => AllocatorStep
BY DEF Owned, Tags, AllocatorStep

(* Every step of the heap is a step of the allocator or a stutter.          *)
LEMMA NextRefines ==
  ASSUME IInv, IInv', [Next]_vars
  PROVE  AllocatorStep
<1>0. CASE UNCHANGED vars
  BY <1>0, SameLiveRefines DEF vars
<1>1. ASSUME NEW n \in Request, NEW t \in Contents, Allocate(n, t) PROVE AllocatorStep
  <2>1. n \in 0 .. Modulus - 1
    BY HeapAssumption
  <2> QED
    BY <1>0, <1>1, <2>1, AllocateEffect, GrantsRefines DEF AllocatorStep
<1>2. ASSUME NEW p \in DOMAIN live, Release(p) PROVE AllocatorStep
  BY <1>2, ReleaseRefines DEF AllocatorStep
<1>3. ASSUME NEW c \in Counts, NEW n \in Request, ClearAllocate(c, n) PROVE AllocatorStep
  <2> DEFINE k == c * n
  <2>1. k \in 0 .. Modulus - 1 /\ Allocate(k, Zero)
    BY <1>3, ClearAllocateIs
  <2> HIDE DEF k
  <2> QED
    BY <1>0, <2>1, AllocateEffect, GrantsRefines DEF AllocatorStep
<1>4. ASSUME NEW p \in DOMAIN live, NEW n \in Request, Reallocate(p, n) PROVE AllocatorStep
  <2>1. n \in 1 .. Modulus - 1
    BY <1>4, HeapAssumption DEF Reallocate
  <2>2. CASE Stays(p, n)
    <3>1. live' = [live EXCEPT ![p] = Resized(p, n)]
      BY <2>2 DEF Stays
    <3>2. /\ DOMAIN live' = DOMAIN live /\ live'[p].tag = live[p].tag
          /\ \A o \in DOMAIN live \ {p} : live'[o] = live[o]
      BY <3>1 DEF Resized
    <3>3. DOMAIN live' = (DOMAIN live \ {p}) \cup {p} /\ p \in DOMAIN live'
      BY <3>2
    <3>4. ResizeStep(p, p)
      BY <3>2, <3>3, ResizeRefines
    <3> QED
      BY <3>4 DEF AllocatorStep
  <2>3. ASSUME NEW b, Moves(p, b, n) PROVE AllocatorStep
    <3> DEFINE q == b + 8
    <3>1. live' = With(Without(live, p), q, Resized(p, n)) /\ b \notin HeldOf(size, free)
      BY <2>3 DEF Moves
    <3>2. b \in Nat
      <4>1. Good(size', free', end') /\ b \in HeldOf(size', free')
        BY <2>3, Holding DEF Moves
      <4> QED
        BY <4>1, HeldBlock
    <3>3. q \notin DOMAIN live
      <4>1. ASSUME NEW o \in DOMAIN live PROVE o # q
        <5>1. BlockOf(o) \in HeldOf(size, free) /\ BlockOf(o) \in Nat /\ o = BlockOf(o) + 8
          BY Holding
        <5> QED
          BY <3>1, <3>2, <5>1
      <4> QED
        BY <4>1
    <3> HIDE DEF q
    <3>4. /\ DOMAIN live' = (DOMAIN live \ {p}) \cup {q} /\ q \in DOMAIN live'
          /\ live'[q].tag = live[p].tag
          /\ \A o \in DOMAIN live \ {p} : live'[o] = live[o]
      BY <3>1, <3>3 DEF With, Without, Resized
    <3>5. ResizeStep(p, q)
      BY <3>3, <3>4, ResizeRefines
    <3> QED
      BY <3>5 DEF AllocatorStep
  <2> QED
    BY <1>0, <1>4, <2>1, <2>2, <2>3, ReallocateEffect
<1>5. ASSUME NEW s \in Stacks, MoveStack(s) PROVE AllocatorStep
  BY <1>5, SameLiveRefines DEF MoveStack
<1> QED
  BY <1>0, <1>1, <1>2, <1>3, <1>4, <1>5 DEF Next

(* The heap starts as the allocator does, with nothing allocated.           *)
LEMMA InitRefines == Init => Abstract!AInit
<1> SUFFICES ASSUME Init PROVE Abstract!AInit
  OBVIOUS
<1>1. live = << >>
  BY DEF Init
<1>2. \A f : DOMAIN f = {} /\ f = [p \in DOMAIN f |-> f[p]] => f = << >>
  OBVIOUS
<1> QED
  BY <1>1 DEF Abstract!AInit

(* The contents are as tagged after a step too.                             *)
LEMMA StoredStays == IInv' => StoredAsTagged'
BY StoredIs, PTL

(* The allocator's operators are those of the steps above.                  *)
LEMMA SameOperators ==
  /\ \A f, p, y : Abstract!Put(f, p, y) = Put(f, p, y)
  /\ \A f, p : Abstract!Drop(f, p) = Drop(f, p)
  /\ \A p, n, others : Abstract!Vacant(p, n, others) <=> Vacant(p, n, others)
BY DEF Abstract!Put, Put, Abstract!Drop, Drop, Abstract!Vacant, Vacant

(* A step described in the terms above is one of the allocator's own        *)
(* actions.                                                                 *)
LEMMA StepRefines ==
  ASSUME AllocatorStep, StoredAsTagged, StoredAsTagged'
  PROVE  [Abstract!ANext]_<<Owned, Stored>>
<1> DEFINE Requests == Request \cup {c * n : c \in Counts, n \in Request}
<1>00. Sizes = Requests
  BY DEF Sizes
<1>0. Stored = Tags /\ Stored' = Tags'
  BY DEF StoredAsTagged
<1>1. ASSUME NEW p, GrantStep(p) PROVE Abstract!ANext
  <2>0. /\ p \in Word
        /\ Owned'[p].want \in Sizes \ {0} /\ Owned'[p].tag \in Contents \cup {Zero}
        /\ Owned' = Put(Owned, p, Owned'[p])
        /\ Vacant(p, Owned'[p].want, Owned)
        /\ Stored' = Put(Stored, p, {Owned'[p].tag})
    BY <1>0, <1>1, Zenon DEF GrantStep
  <2>1. Abstract!Grant(p)
    <3>1. Abstract!Grant(p) <=>
            /\ p \in Word
            /\ Owned'[p].want \in Requests \ {0} /\ Owned'[p].tag \in Contents \cup {Zero}
            /\ Owned' = Abstract!Put(Owned, p, Owned'[p])
            /\ Abstract!Vacant(p, Owned'[p].want, Owned)
            /\ Stored' = Abstract!Put(Stored, p, {Owned'[p].tag})
      BY DEF Abstract!Grant, Owned, Stored
    <3> HIDE DEF Requests
    <3> QED
      BY <1>00, <2>0, <3>1, SameOperators, Zenon
  <2> QED
    BY <1>1, <2>1 DEF GrantStep, Abstract!ANext, Owned
<1>2. ASSUME NEW p, ReturnStep(p) PROVE Abstract!ANext
  <2>1. Abstract!Return(p)
    BY <1>0, <1>2 DEF ReturnStep, Abstract!Return, Abstract!Drop, Drop, Owned, Stored
  <2> QED
    BY <1>2, <2>1 DEF ReturnStep, Abstract!ANext, Owned
<1>3. ASSUME NEW p, NEW q, ResizeStep(p, q) PROVE Abstract!ANext
  <2>0. /\ q \in Word
        /\ Owned'[q].want \in Sizes \ {0}
        /\ Owned' = Put(Drop(Owned, p), q, [want |-> Owned'[q].want, tag |-> Owned[p].tag])
        /\ Vacant(q, Owned'[q].want, Drop(Owned, p))
        /\ Stored' = Put(Drop(Stored, p), q, {Owned[p].tag})
    BY <1>0, <1>3, Zenon DEF ResizeStep
  <2>1. Abstract!Resize(p, q)
    <3>1. Abstract!Resize(p, q) <=>
            /\ q \in Word
            /\ Owned'[q].want \in Requests \ {0}
            /\ Owned' = Abstract!Put(Abstract!Drop(Owned, p), q,
                                     [want |-> Owned'[q].want, tag |-> Owned[p].tag])
            /\ Abstract!Vacant(q, Owned'[q].want, Abstract!Drop(Owned, p))
            /\ Stored' = Abstract!Put(Abstract!Drop(Stored, p), q, {Owned[p].tag})
      BY DEF Abstract!Resize, Owned, Stored
    <3> HIDE DEF Requests
    <3> QED
      BY <1>00, <2>0, <3>1, SameOperators, Zenon
  <2> QED
    BY <1>3, <2>1 DEF ResizeStep, Abstract!ANext, Owned
<1> QED
  BY <1>0, <1>1, <1>2, <1>3 DEF AllocatorStep

(* The heap implements the allocator: what malloc, free, calloc and realloc *)
(* do to a program's allocations and to their contents is what Allocator    *)
(* says, for every address-space size, every placement of the stack and     *)
(* every set of requests (helpers.py:81-184).                               *)
THEOREM Refinement == Spec => ImplementsAllocator
<1>1. Init => Abstract!AInit
  BY InitRefines
<1>2. IInv /\ IInv' /\ [Next]_vars
      => [Abstract!ANext]_<<[p \in DOMAIN live |-> [want |-> live[p].want, tag |-> live[p].tag]],
                            [p \in DOMAIN live |-> {memory[w] : w \in Words(p, live[p].kept)}]>>
  <2> SUFFICES ASSUME IInv, IInv', [Next]_vars
               PROVE  [Abstract!ANext]_<<Owned, Stored>>
    BY DEF Owned, Stored
  <2> QED
    BY StoredIs, StoredStays, NextRefines, StepRefines
<1> QED
  BY <1>1, <1>2, Invariance, PTL DEF Spec, ImplementsAllocator, Abstract!ASpec
=============================================================================
