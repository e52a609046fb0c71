--------------------------- MODULE DominanceProofs ---------------------------
(***************************************************************************)
(* What the iteration of Cooper, Harvey and Kennedy computes, proved for    *)
(* every number of blocks and every graph: when nothing changes any more,   *)
(* idom is the immediate dominator (ImmediateDominators).  Frontiers and    *)
(* natural loops are read off idom, and follow.                             *)
(*                                                                          *)
(* Sets take the place of paths in the proofs.  Reach(A) is the least set   *)
(* that holds the entry and is closed under successors outside A (Closed),  *)
(* and a block's chain is the least set that holds it and is closed under   *)
(* idom.                                                                    *)
(***************************************************************************)
EXTENDS Dominance, Lemmas, FiniteSetTheorems

Ordered == {order[k] : k \in 1 .. Len(order)}

TypeOK ==
  /\ succ \in [Blocks -> SUBSET Blocks]
  /\ stack \in Seq(Blocks)
  /\ visited \in SUBSET Blocks
  /\ order \in Seq(Blocks)
  /\ i \in Nat
  /\ changed \in BOOLEAN
  /\ phase \in {"visit", "idom", "done"}

(* No block was put twice.                                                  *)
Distinct(s) == \A j, k \in 1 .. Len(s) : s[j] = s[k] => j = k

(* The visits in progress are a path from the entry; every visit that ended *)
(* has seen its successors, and was begun by one that ended later or is not *)
(* over.                                                                    *)
Visiting ==
  LET open == {stack[k] : k \in 1 .. Len(stack)}
  IN  /\ stack # << >> /\ stack[1] = Entry
      /\ \A k \in 1 .. Len(stack) - 1 : stack[k + 1] \in succ[stack[k]]
      /\ Distinct(stack) /\ Distinct(order)
      /\ open \cap Ordered = {}
      /\ visited = open \cup Ordered
      /\ \A b \in Ordered : succ[b] \subseteq visited
      /\ \A k \in 1 .. Len(order) :
           \/ \E b \in open : order[k] \in succ[b]
           \/ \E j \in 1 .. k - 1 : order[k] \in succ[order[j]]

(* So order has every block that can be reached once, the entry first, and  *)
(* every other block after one that jumps to it.                            *)
DepthFirst ==
  /\ order # << >> /\ order[1] = Entry
  /\ Distinct(order)
  /\ \A b \in Ordered : succ[b] \subseteq Ordered
  /\ \A k \in 2 .. Len(order) : \E j \in 1 .. k - 1 : order[k] \in succ[order[j]]

(* idom is a tree in which a parent comes before its children,              *)
Upwards ==
  /\ Entry \in DOMAIN idom /\ DOMAIN idom \subseteq Ordered
  /\ idom \in [DOMAIN idom -> DOMAIN idom]
  /\ idom[Entry] = Entry
  /\ \A b \in DOMAIN idom \ {Entry} : Position(idom[b]) < Position(b)

(* which passes by no dominator of a block on the way up from it, however   *)
(* far the iteration is,                                                    *)
NonePassed ==
  \A b \in DOMAIN idom \ {Entry}, a \in Blocks :
    StrictlyDominates(a, b) => Dominates(a, idom[b])

(* and of the blocks this pass has processed none is missing, nor, when it  *)
(* changed nothing, out of date.                                            *)
Processed ==
  /\ i \in 2 .. Len(order) + 1
  /\ \A k \in 1 .. i - 1 : order[k] \in DOMAIN idom
  /\ ~ changed => \A k \in 2 .. i - 1 : idom[order[k]] = NewIdom(order[k])
  /\ phase = "done" => ~ changed /\ i = Len(order) + 1

IInv ==
  /\ TypeOK
  /\ phase = "visit" => Visiting /\ ~ changed
  /\ phase # "visit" => DepthFirst /\ Upwards /\ NonePassed /\ Processed

-----------------------------------------------------------------------------
(* Sets of blocks that grow from S step by step.                            *)
Grows(f, S, step) ==
  /\ f[0] = S
  /\ \A n \in 1 .. Size : f[n-1] \in SUBSET Blocks => f[n] = step[f[n-1]]

(* There is such a function.                                                *)
LEMMA GrowthExists ==
  ASSUME NEW S \in SUBSET Blocks, NEW step \in [SUBSET Blocks -> SUBSET Blocks]
  PROVE  \E f \in [0 .. Size -> SUBSET Blocks] :
           f = [n \in 0 .. Size |-> IF n = 0 THEN S ELSE step[f[n-1]]]
<1> DEFINE steps == [n \in 1 .. Size |-> step]
<1>1. Size \in Nat
  BY DominanceAssumption
<1>2. steps \in [1 .. Size -> [SUBSET Blocks -> SUBSET Blocks]]
  OBVIOUS
<1>3. PICK f \in [0 .. Size -> SUBSET Blocks] : Solves(f, Size, S, steps)
  <2> HIDE DEF steps
  <2> QED
    BY <1>1, <1>2, RecursionExists
<1>4. f = [n \in 0 .. Size |-> IF n = 0 THEN S ELSE steps[n][f[n-1]]]
  BY <1>3 DEF Solves
<1>5. \A n \in 0 .. Size : n # 0 => steps[n] = step
  BY <1>1
<1> HIDE DEF steps
<1>6. f = [n \in 0 .. Size |-> IF n = 0 THEN S ELSE step[f[n-1]]]
  BY <1>4, <1>5
<1> QED
  BY <1>6

(* As there are Size blocks, nothing is added any more after Size steps:    *)
LEMMA GrowthStops ==
  ASSUME NEW S \in SUBSET Blocks, NEW step \in [SUBSET Blocks -> SUBSET Blocks],
         \A X \in SUBSET Blocks : X \subseteq step[X],
         NEW f, Grows(f, S, step)
  PROVE  f[Size] \in SUBSET Blocks /\ S \subseteq f[Size] /\ step[f[Size]] = f[Size]
<1> DEFINE Good(n) == /\ f[n] \in SUBSET Blocks /\ S \subseteq f[n]
                      /\ step[f[n]] = f[n] \/ Cardinality(f[n]) >= n
           Bad == {n \in 0 .. Size : ~ Good(n)}
<1>1. Size \in Nat /\ IsFiniteSet(Blocks) /\ Cardinality(Blocks) = Size
  BY DominanceAssumption, FS_Interval DEF Blocks
<1>2. f[0] = S /\ \A n \in 1 .. Size : f[n-1] \in SUBSET Blocks => f[n] = step[f[n-1]]
  BY DEF Grows
<1>3. ASSUME NEW X \in SUBSET Blocks PROVE IsFiniteSet(X) /\ Cardinality(X) \in Nat
  BY <1>1, FS_Subset, FS_CardinalityType
<1>4. ASSUME NEW n \in Bad, \A j \in Bad : n <= j PROVE FALSE
  <2>1. n \in 0 .. Size /\ ~ Good(n)
    OBVIOUS
  <2>2. CASE n = 0
    <3>1. f[0] \in SUBSET Blocks /\ S \subseteq f[0]
      BY <1>2
    <3>2. Cardinality(f[0]) \in Nat
      BY <3>1, <1>3
    <3>3. Cardinality(f[0]) >= 0
      BY <3>2
    <3>4. Good(0)
      BY <3>1, <3>3
    <3> QED
      BY <2>1, <2>2, <3>4
  <2>3. CASE n # 0
    <3>1. n - 1 \in 0 .. Size /\ n \in 1 .. Size /\ ~ (n <= n - 1)
      BY <1>1, <2>1, <2>3
    <3>2. Good(n - 1)
      BY <1>4, <3>1
    <3>3. /\ f[n] = step[f[n - 1]] /\ f[n] \in SUBSET Blocks
          /\ f[n - 1] \subseteq f[n] /\ S \subseteq f[n]
      BY <1>2, <3>1, <3>2
    <3>4. CASE step[f[n - 1]] = f[n - 1]
      BY <3>3, <3>4, <2>1
    <3>5. CASE step[f[n - 1]] # f[n - 1]
      <4>1. /\ Cardinality(f[n - 1]) <= Cardinality(f[n])
            /\ Cardinality(f[n]) # Cardinality(f[n - 1])
        BY <3>3, <3>5, <1>3, FS_Subset
      <4>2. Cardinality(f[n]) \in Nat /\ Cardinality(f[n - 1]) \in Nat
        BY <3>3, <3>2, <1>3
      <4>3. Cardinality(f[n - 1]) >= n - 1
        BY <3>2, <3>5
      <4>4. Cardinality(f[n]) >= n
        BY <4>1, <4>2, <4>3, <2>1
      <4> QED
        BY <2>1, <3>3, <4>4
    <3> QED
      BY <3>4, <3>5
  <2> QED
    BY <2>2, <2>3
<1>5. Bad = {}
  <2>1. Bad \subseteq Nat
    OBVIOUS
  <2> HIDE DEF Bad
  <2> QED
    BY <1>4, <2>1, LeastExists
<1>6. Good(Size)
  BY <1>1, <1>5
<1>7. CASE Cardinality(f[Size]) >= Size
  <2>1. Cardinality(f[Size]) \in Nat /\ Cardinality(f[Size]) <= Size
    BY <1>1, <1>6, FS_Subset, FS_CardinalityType
  <2>2. f[Size] = Blocks
    BY <1>1, <1>6, <1>7, <2>1, FS_Subset
  <2> QED
    BY <1>6, <2>2
<1> QED
  BY <1>6, <1>7

(* what a set grows into is the least set that holds it and no step leaves. *)
LEMMA GrowthWithin ==
  ASSUME NEW S, NEW step, NEW f, Grows(f, S, step),
         NEW X \in SUBSET Blocks, S \subseteq X, \A Y \in SUBSET X : step[Y] \subseteq X
  PROVE  f[Size] \subseteq X
<1> DEFINE Bad == {n \in 0 .. Size : ~ (f[n] \subseteq X)}
<1>1. Size \in Nat
  BY DominanceAssumption
<1>2. f[0] = S /\ \A n \in 1 .. Size : f[n-1] \in SUBSET Blocks => f[n] = step[f[n-1]]
  BY DEF Grows
<1>3. ASSUME NEW n \in Bad, \A j \in Bad : n <= j PROVE FALSE
  <2>1. n \in 0 .. Size /\ n # 0 /\ ~ (f[n] \subseteq X)
    BY <1>2
  <2>2. n \in 1 .. Size /\ n - 1 \in 0 .. Size /\ ~ (n <= n - 1)
    BY <1>1, <2>1
  <2>3. f[n - 1] \in SUBSET X /\ f[n - 1] \in SUBSET Blocks
    BY <1>3, <2>2
  <2>4. f[n] = step[f[n - 1]]
    BY <1>2, <2>2, <2>3
  <2> QED
    BY <2>1, <2>3, <2>4
<1>4. Bad = {}
  <2>1. Bad \subseteq Nat
    OBVIOUS
  <2> HIDE DEF Bad
  <2> QED
    BY <1>3, <2>1, LeastExists
<1> QED
  BY <1>1, <1>4

-----------------------------------------------------------------------------
(* Reach(A) holds the entry and the successors of its blocks, those in A    *)
(* aside, and is the least set that does.                                   *)
Closed(X, A) ==
  /\ Entry \notin A => Entry \in X
  /\ \A b \in X : \A s \in succ[b] : s \notin A => s \in X

(* What can be reached outside A is the least set that is closed outside A. *)
LEMMA ReachIs ==
  ASSUME succ \in [Blocks -> SUBSET Blocks], NEW A
  PROVE  /\ Reach(A) \subseteq Blocks \ A
         /\ Closed(Reach(A), A)
         /\ \A X \in SUBSET Blocks : Closed(X, A) => Reach(A) \subseteq X
<1> DEFINE S == {Entry} \ A
           step == [X \in SUBSET Blocks |-> X \cup ((UNION {succ[b] : b \in X}) \ A)]
           grow == CHOOSE f : f = [n \in 0 .. Size |-> IF n = 0 THEN S
                                     ELSE f[n-1] \cup ((UNION {succ[b] : b \in f[n-1]}) \ A)]
<1>1. Size \in Nat /\ Size >= 1 /\ Entry \in Blocks
  BY DominanceAssumption DEF Blocks, Entry
<1>2. S \in SUBSET Blocks
  BY <1>1
<1>3. step \in [SUBSET Blocks -> SUBSET Blocks]
  OBVIOUS
<1>4. ASSUME NEW X \in SUBSET Blocks
      PROVE  /\ step[X] = X \cup ((UNION {succ[b] : b \in X}) \ A)
             /\ X \subseteq step[X]
             /\ \A b \in X : \A s \in succ[b] : s \notin A => s \in step[X]
             /\ \A s \in step[X] : s \in X \/ \E b \in X : s \in succ[b] \ A
  OBVIOUS
<1>5. Reach(A) = grow[Size]
  BY DEF Reach
<1>6. PICK f \in [0 .. Size -> SUBSET Blocks] :
        f = [n \in 0 .. Size |-> IF n = 0 THEN S ELSE step[f[n-1]]]
  <2> HIDE DEF step, S
  <2> QED
    BY <1>2, <1>3, GrowthExists
<1> HIDE DEF step
<1>7. f = [n \in 0 .. Size |-> IF n = 0 THEN S
             ELSE f[n-1] \cup ((UNION {succ[b] : b \in f[n-1]}) \ A)]
  <2> HIDE DEF S
  <2>1. \A n \in 0 .. Size : n # 0 => n - 1 \in 0 .. Size
    BY <1>1
  <2>2. f \in [0 .. Size -> SUBSET Blocks]
    OBVIOUS
  <2>3. \A n \in 0 .. Size : n # 0 => f[n-1] \in SUBSET Blocks
    BY <2>1, <2>2
  <2> QED
    BY <1>6, <2>3, <1>4
<1>8. Grows(grow, S, step)
  <2>1. grow = [n \in 0 .. Size |-> IF n = 0 THEN S
                  ELSE grow[n-1] \cup ((UNION {succ[b] : b \in grow[n-1]}) \ A)]
    <3> HIDE DEF S
    <3> QED
      BY <1>7, Zenon
  <2> HIDE DEF grow, S
  <2>2. grow[0] = S
    BY <1>1, <2>1
  <2>3. ASSUME NEW n \in 1 .. Size, grow[n-1] \in SUBSET Blocks
        PROVE  grow[n] = step[grow[n-1]]
    <3>1. n \in 0 .. Size /\ n # 0
      BY <1>1
    <3>2. grow[n] = grow[n-1] \cup ((UNION {succ[b] : b \in grow[n-1]}) \ A)
      BY <2>1, <3>1
    <3> QED
      BY <2>3, <3>2, <1>4
  <2> QED
    BY <2>2, <2>3 DEF Grows
<1> HIDE DEF grow, S, step
<1>9. /\ grow[Size] \in SUBSET Blocks /\ S \subseteq grow[Size] /\ step[grow[Size]] = grow[Size]
  <2>1. \A X \in SUBSET Blocks : X \subseteq step[X]
    BY <1>4
  <2> QED
    BY <1>2, <1>3, <1>8, <2>1, GrowthStops
<1>10. Closed(Reach(A), A)
  <2>1. Entry \notin A => Entry \in Reach(A)
    BY <1>5, <1>9 DEF S
  <2> QED
    BY <1>4, <1>5, <1>9, <2>1 DEF Closed
<1>11. ASSUME NEW X \in SUBSET Blocks, Closed(X, A) PROVE Reach(A) \subseteq X
  <2>1. S \subseteq X /\ \A Y \in SUBSET X : step[Y] \subseteq X
    <3>1. S \subseteq X
      BY <1>11 DEF Closed, S
    <3>2. ASSUME NEW Y \in SUBSET X PROVE step[Y] \subseteq X
      BY <1>11, <1>4 DEF Closed
    <3> QED
      BY <3>1, <3>2
  <2> QED
    BY <1>5, <1>8, <2>1, GrowthWithin
<1>12. Reach(A) \subseteq Blocks \ A
  <2>1. Closed(Blocks \ A, A)
    BY <1>1 DEF Closed
  <2> QED
    BY <2>1, <1>11
<1> QED
  BY <1>10, <1>11, <1>12

-----------------------------------------------------------------------------
(* Where a block stands in order.                                           *)
LEMMA PositionIs ==
  ASSUME TypeOK, Distinct(order)
  PROVE  /\ \A k \in 1 .. Len(order) : Position(order[k]) = k
         /\ \A b \in Ordered : Position(b) \in 1 .. Len(order) /\ order[Position(b)] = b
         /\ Len(order) \in Nat /\ Ordered \subseteq Blocks
<1>1. Len(order) \in Nat /\ DOMAIN order = 1 .. Len(order)
  BY DEF TypeOK
<1>2. ASSUME NEW k \in 1 .. Len(order) PROVE Position(order[k]) = k
  BY <1>1 DEF Position, Distinct
<1>3. ASSUME NEW b \in Ordered PROVE Position(b) \in 1 .. Len(order) /\ order[Position(b)] = b
  <2>1. PICK k \in 1 .. Len(order) : b = order[k]
    BY DEF Ordered
  <2> QED
    BY <2>1, <1>2
<1>4. Ordered \subseteq Blocks
  BY <1>1 DEF TypeOK, Ordered
<1> QED
  BY <1>1, <1>2, <1>3, <1>4

(* The entry is at position 1.                                              *)
LEMMA EntryFirst ==
  ASSUME TypeOK, DepthFirst
  PROVE  1 \in 1 .. Len(order) /\ order[1] = Entry /\ Position(Entry) = 1 /\ Entry \in Ordered
<1>1. 1 \in 1 .. Len(order) /\ order[1] = Entry
  BY DEF TypeOK, DepthFirst
<1> QED
  BY <1>1, PositionIs DEF DepthFirst, Ordered

(* order has the blocks that can be reached.                                *)
LEMMA OrderedReached ==
  ASSUME TypeOK, DepthFirst
  PROVE  Ordered = Reachable
<1>1. succ \in [Blocks -> SUBSET Blocks] /\ Len(order) \in Nat /\ order \in Seq(Blocks)
  BY DEF TypeOK
<1>2. 1 \in 1 .. Len(order) /\ order[1] = Entry
  BY <1>1 DEF DepthFirst
<1>3. Reachable \subseteq Ordered
  <2>1. Ordered \subseteq Blocks
    BY <1>1 DEF Ordered
  <2>2. Entry \in Ordered
    BY <1>2 DEF Ordered
  <2>3. Closed(Ordered, {})
    BY <2>2 DEF Closed, DepthFirst
  <2> QED
    BY <1>1, <2>1, <2>3, ReachIs DEF Reachable
<1> DEFINE Bad == {k \in 1 .. Len(order) : order[k] \notin Reachable}
<1>4. ASSUME NEW k \in Bad, \A j \in Bad : k <= j PROVE FALSE
  <2>1. k \in 1 .. Len(order) /\ order[k] \notin Reachable
    OBVIOUS
  <2>2. Closed(Reachable, {})
    BY <1>1, ReachIs DEF Reachable
  <2>3. k # 1
    BY <2>1, <2>2, <1>2 DEF Closed
  <2>4. PICK j \in 1 .. k - 1 : order[k] \in succ[order[j]]
    BY <2>1, <2>3, <1>1 DEF DepthFirst
  <2>5. j \in 1 .. Len(order) /\ ~ (k <= j)
    BY <2>1, <2>4, <1>1
  <2>6. order[j] \in Reachable
    BY <1>4, <2>5
  <2> QED
    BY <2>1, <2>2, <2>4, <2>6 DEF Closed
<1>5. Bad = {}
  <2>1. Bad \subseteq Nat
    OBVIOUS
  <2> HIDE DEF Bad
  <2> QED
    BY <1>4, <2>1, LeastExists
<1>6. Ordered \subseteq Reachable
  BY <1>5 DEF Ordered
<1> QED
  BY <1>3, <1>6

(* A dominator comes first.                                                 *)
LEMMA DominatorsFirst ==
  ASSUME TypeOK, DepthFirst, NEW a, NEW b \in Ordered, Dominates(a, b)
  PROVE  a \in Ordered /\ Position(a) <= Position(b)
<1>1. succ \in [Blocks -> SUBSET Blocks] /\ Len(order) \in Nat /\ order \in Seq(Blocks)
  BY DEF TypeOK
<1>2. 1 \in 1 .. Len(order) /\ order[1] = Entry
  BY <1>1 DEF DepthFirst
<1>3. Distinct(order)
  BY DEF DepthFirst
<1> DEFINE Bad == {k \in 1 .. Len(order) :
                     (\A j \in 1 .. k : order[j] # a) /\ order[k] \notin Reach({a})}
<1>4. ASSUME NEW k \in Bad, \A j \in Bad : k <= j PROVE FALSE
  <2>1. k \in 1 .. Len(order) /\ (\A j \in 1 .. k : order[j] # a) /\ order[k] \notin Reach({a})
    OBVIOUS
  <2>2. Closed(Reach({a}), {a})
    BY <1>1, ReachIs
  <2>3. order[k] # a
    BY <2>1
  <2>4. k # 1
    BY <2>1, <2>2, <2>3, <1>2 DEF Closed
  <2>5. PICK j \in 1 .. k - 1 : order[k] \in succ[order[j]]
    BY <2>1, <2>4, <1>1 DEF DepthFirst
  <2>6. j \in 1 .. Len(order) /\ ~ (k <= j) /\ \A l \in 1 .. j : l \in 1 .. k
    BY <2>1, <2>5, <1>1
  <2>7. order[j] \in Reach({a})
    BY <1>4, <2>1, <2>6
  <2> QED
    BY <2>1, <2>2, <2>3, <2>5, <2>7 DEF Closed
<1>5. Bad = {}
  <2>1. Bad \subseteq Nat
    OBVIOUS
  <2> HIDE DEF Bad
  <2> QED
    BY <1>4, <2>1, LeastExists
<1>6. Position(b) \in 1 .. Len(order) /\ order[Position(b)] = b
  BY <1>3, PositionIs
<1>7. \E j \in 1 .. Position(b) : order[j] = a
  <2>1. CASE a = b
    BY <2>1, <1>6
  <2>2. CASE b \notin Reach({a})
    BY <2>2, <1>5, <1>6
  <2> QED
    BY <2>1, <2>2 DEF Dominates
<1>8. PICK j \in 1 .. Position(b) : order[j] = a
  BY <1>7
<1>9. j \in 1 .. Len(order) /\ j <= Position(b)
  BY <1>6, <1>8, <1>1
<1> QED
  BY <1>3, <1>8, <1>9, PositionIs DEF Ordered

(* Dominance is transitive,                                                 *)
LEMMA DominatesTransitive ==
  ASSUME TypeOK, NEW a, NEW b, NEW c, Dominates(a, b), Dominates(b, c)
  PROVE  Dominates(a, c)
<1>1. succ \in [Blocks -> SUBSET Blocks]
  BY DEF TypeOK
<1>2. CASE a = b \/ b = c
  BY <1>2 DEF Dominates
<1>3. CASE a # b /\ b # c
  <2> DEFINE X == Reach({a}) \cap Reach({b})
  <2>1. b \notin Reach({a}) /\ c \in Reachable /\ c \notin Reach({b})
    BY <1>3 DEF Dominates
  <2>2. Closed(Reach({a}), {a}) /\ Closed(Reach({b}), {b})
    BY <1>1, ReachIs
  <2>3. X \in SUBSET Blocks
    BY <1>1, ReachIs
  <2>4. Closed(X, {a})
    BY <2>1, <2>2 DEF Closed
  <2> HIDE DEF X
  <2>5. Reach({a}) \subseteq X
    BY <1>1, <2>3, <2>4, ReachIs
  <2>6. Reach({a}) \subseteq Reach({b})
    BY <2>5 DEF X
  <2> QED
    BY <2>1, <2>6 DEF Dominates
<1> QED
  BY <1>2, <1>3

(* and what dominates a block and is not that block dominates its           *)
(* predecessors.                                                            *)
LEMMA DominatesPredecessor ==
  ASSUME TypeOK, NEW a, NEW b, NEW p \in Reachable, b \in succ[p], StrictlyDominates(a, b)
  PROVE  Dominates(a, p)
<1>1. Closed(Reach({a}), {a})
  BY ReachIs DEF TypeOK
<1> QED
  BY <1>1 DEF Closed, Dominates, StrictlyDominates

-----------------------------------------------------------------------------
(* Fingers that meet after n moves are one move from fingers that meet      *)
(* after n - 1.                                                             *)
LEMMA MeetingIs ==
  ASSUME TypeOK, Upwards
  PROVE  Meeting = [n \in 0 .. 2 * Len(order) |->
           [x \in DOMAIN idom |-> [y \in DOMAIN idom |->
              IF n = 0 \/ x = y THEN x
              ELSE IF Position(x) > Position(y) THEN Meeting[n-1][idom[x]][y]
              ELSE Meeting[n-1][x][idom[y]]]]]
<1> DEFINE D == DOMAIN idom
           N == 2 * Len(order)
           S == [D -> [D -> D]]
           c == [x \in D |-> [y \in D |-> x]]
           Moved(m, x, y) == IF x = y THEN x
                             ELSE IF Position(x) > Position(y) THEN m[idom[x]][y]
                             ELSE m[x][idom[y]]
           move == [m \in S |-> [x \in D |-> [y \in D |-> Moved(m, x, y)]]]
           step == [n \in 1 .. N |-> move]
           At(f, n, x, y) == IF n = 0 \/ x = y THEN x
                             ELSE IF Position(x) > Position(y) THEN f[n-1][idom[x]][y]
                             ELSE f[n-1][x][idom[y]]
<1>1. N \in Nat /\ idom \in [D -> D]
  BY DEF TypeOK, Upwards
<1>2. c \in S
  OBVIOUS
<1>3. move \in [S -> S]
  <2>1. ASSUME NEW m \in S, NEW x \in D, NEW y \in D PROVE Moved(m, x, y) \in D
    BY <1>1
  <2> HIDE DEF Moved
  <2> QED
    BY <2>1
<1>4. ASSUME NEW m \in S, NEW x \in D, NEW y \in D PROVE move[m][x][y] = Moved(m, x, y)
  <2> HIDE DEF Moved
  <2> QED
    OBVIOUS
<1>5. step \in [1 .. N -> [S -> S]] /\ \A n \in 1 .. N : step[n] = move
  <2> HIDE DEF move, N, S
  <2> QED
    BY <1>3
<1> HIDE DEF step, move
<1>6. PICK f \in [0 .. N -> S] : Solves(f, N, c, step)
  <2> HIDE DEF N, S, c
  <2> QED
    BY <1>1, <1>2, <1>5, RecursionExists
<1>7. f \in [0 .. N -> S] /\ f = [n \in 0 .. N |-> IF n = 0 THEN c ELSE step[n][f[n-1]]]
  <2> HIDE DEF N, S, c
  <2> QED
    BY <1>6 DEF Solves
<1>8. ASSUME NEW n \in 0 .. N PROVE f[n] = [x \in D |-> [y \in D |-> At(f, n, x, y)]]
  <2>1. f[n] \in S
    BY <1>7
  <2>2. ASSUME NEW x \in D, NEW y \in D PROVE f[n][x][y] = At(f, n, x, y)
    <3>1. CASE n = 0
      <4>1. f[n] = c
        BY <3>1, <1>7
      <4> QED
        BY <3>1, <4>1
    <3>2. CASE n # 0
      <4>1. n - 1 \in 0 .. N /\ n \in 1 .. N
        BY <3>2, <1>1
      <4>2. f[n-1] \in S
        BY <4>1, <1>7
      <4>3. f[n] = move[f[n-1]]
        BY <3>2, <4>1, <1>5, <1>7
      <4>4. f[n][x][y] = Moved(f[n-1], x, y)
        BY <4>2, <4>3, <1>4
      <4> QED
        BY <3>2, <4>4
    <3> QED
      BY <3>1, <3>2
  <2> HIDE DEF At, N
  <2> QED
    BY <2>1, <2>2
<1>9. f = [n \in 0 .. N |-> [x \in D |-> [y \in D |-> At(f, n, x, y)]]]
  <2> HIDE DEF At, N, S, D
  <2> QED
    BY <1>7, <1>8
<1> HIDE DEF c, S
<1> QED
  BY <1>9, Zenon DEF Meeting

(* A relation between fingers that every move keeps                         *)
Keeps(P) ==
  /\ P \subseteq (DOMAIN idom) \X (DOMAIN idom)
  /\ \A x, y \in DOMAIN idom : <<x, y>> \in P /\ x # y =>
       /\ Position(x) > Position(y) => <<idom[x], y>> \in P
       /\ Position(x) < Position(y) => <<x, idom[y]>> \in P

(* holds of the block where they meet: they meet in time, as every move     *)
(* brings a finger closer to the entry.                                     *)
LEMMA IntersectKeeps ==
  ASSUME TypeOK, DepthFirst, Upwards,
         NEW P, Keeps(P), NEW a \in DOMAIN idom, NEW b \in DOMAIN idom, <<a, b>> \in P
  PROVE  Intersect(a, b) \in DOMAIN idom /\ <<Intersect(a, b), Intersect(a, b)>> \in P
<1> DEFINE D == DOMAIN idom
           N == 2 * Len(order)
           Met(n, x, y) == Meeting[n][x][y] \in D /\ <<Meeting[n][x][y], Meeting[n][x][y]>> \in P
           Good(n) == \A x, y \in D : <<x, y>> \in P /\ Position(x) + Position(y) <= n => Met(n, x, y)
           Bad == {n \in 0 .. N : ~ Good(n)}
<1>1. N \in Nat /\ Len(order) \in Nat /\ idom \in [D -> D]
  BY DEF TypeOK, Upwards
<1>2. ASSUME NEW x \in D PROVE Position(x) \in 1 .. Len(order) /\ order[Position(x)] = x
  BY PositionIs DEF DepthFirst, Upwards
<1>3. ASSUME NEW n \in 0 .. N, NEW x \in D, NEW y \in D
      PROVE  Meeting[n][x][y] = IF n = 0 \/ x = y THEN x
                                ELSE IF Position(x) > Position(y) THEN Meeting[n-1][idom[x]][y]
                                ELSE Meeting[n-1][x][idom[y]]
  <2> DEFINE At(m, u, v) == IF m = 0 \/ u = v THEN u
                            ELSE IF Position(u) > Position(v) THEN Meeting[m-1][idom[u]][v]
                            ELSE Meeting[m-1][u][idom[v]]
  <2>1. Meeting = [m \in 0 .. N |-> [u \in D |-> [v \in D |-> At(m, u, v)]]]
    BY MeetingIs
  <2> HIDE DEF At, N, D
  <2>2. Meeting[n][x][y] = At(n, x, y)
    BY <2>1
  <2> QED
    BY <2>2 DEF At
<1>4. ASSUME NEW n \in Bad, \A j \in Bad : n <= j PROVE FALSE
  <2>1. n \in 0 .. N /\ ~ Good(n)
    OBVIOUS
  <2>2. PICK x \in D, y \in D : <<x, y>> \in P /\ Position(x) + Position(y) <= n /\ ~ Met(n, x, y)
    BY <2>1
  <2>3. /\ Position(x) \in 1 .. Len(order) /\ order[Position(x)] = x
        /\ Position(y) \in 1 .. Len(order) /\ order[Position(y)] = y
    BY <1>2
  <2>4. n # 0 /\ n - 1 \in 0 .. N /\ ~ (n <= n - 1)
    BY <2>1, <2>2, <2>3, <1>1
  <2>5. Good(n - 1)
    BY <1>4, <2>4
  <2>6. x # y
    BY <2>1, <2>2, <1>3
  <2>7. Position(x) # Position(y)
    BY <2>3, <2>6
  <2>8. x # Entry => Position(idom[x]) \in 1 .. Len(order) /\ Position(idom[x]) < Position(x)
    BY <1>1, <1>2 DEF Upwards
  <2>9. y # Entry => Position(idom[y]) \in 1 .. Len(order) /\ Position(idom[y]) < Position(y)
    BY <1>1, <1>2 DEF Upwards
  <2>10. Position(Entry) = 1
    BY EntryFirst
  <2> HIDE DEF Good
  <2>11. CASE Position(x) > Position(y)
    <3>1. x # Entry
      BY <2>3, <2>10, <2>11
    <3>2. <<idom[x], y>> \in P /\ idom[x] \in D
      BY <2>2, <2>6, <2>11, <1>1 DEF Keeps
    <3>3. Position(idom[x]) + Position(y) <= n - 1
      BY <2>1, <2>2, <2>3, <2>8, <3>1, <1>1
    <3>4. Met(n - 1, idom[x], y)
      BY <2>5, <3>2, <3>3 DEF Good
    <3>5. Meeting[n][x][y] = Meeting[n-1][idom[x]][y]
      BY <2>1, <2>4, <2>6, <2>11, <1>3
    <3> QED
      BY <2>2, <3>4, <3>5
  <2>12. CASE Position(x) < Position(y)
    <3>1. y # Entry
      BY <2>3, <2>10, <2>12
    <3>2. <<x, idom[y]>> \in P /\ idom[y] \in D
      BY <2>2, <2>6, <2>12, <1>1 DEF Keeps
    <3>3. Position(x) + Position(idom[y]) <= n - 1
      BY <2>1, <2>2, <2>3, <2>9, <3>1, <1>1
    <3>4. Met(n - 1, x, idom[y])
      BY <2>5, <3>2, <3>3 DEF Good
    <3>5. ~ (Position(x) > Position(y))
      BY <2>3, <2>12
    <3>6. Meeting[n][x][y] = Meeting[n-1][x][idom[y]]
      BY <2>1, <2>4, <2>6, <3>5, <1>3
    <3> QED
      BY <2>2, <3>4, <3>6
  <2> QED
    BY <2>3, <2>7, <2>11, <2>12
<1>5. Bad = {}
  <2>1. Bad \subseteq Nat
    OBVIOUS
  <2> HIDE DEF Bad
  <2> QED
    BY <1>4, <2>1, LeastExists
<1>6. Good(N)
  BY <1>1, <1>5
<1>7. Position(a) + Position(b) <= N
  BY <1>1, <1>2
<1>8. Met(N, a, b)
  BY <1>6, <1>7
<1> QED
  BY <1>8 DEF Intersect

(* Two blocks one of which is in a set that idom does not leave meet in it. *)
LEMMA IntersectReaches ==
  ASSUME TypeOK, DepthFirst, Upwards,
         NEW X \in SUBSET DOMAIN idom, \A x \in X : idom[x] \in X,
         NEW a \in DOMAIN idom, NEW b \in DOMAIN idom, a \in X \/ b \in X
  PROVE  Intersect(a, b) \in X
<1> DEFINE D == DOMAIN idom
           P == {q \in D \X D : q[1] \in X \/ q[2] \in X}
<1>1. idom \in [D -> D]
  BY DEF Upwards
<1>2. P \subseteq D \X D /\ <<a, b>> \in P
  OBVIOUS
<1>3. ASSUME NEW x \in D, NEW y \in D, <<x, y>> \in P
      PROVE  <<idom[x], y>> \in P /\ <<x, idom[y]>> \in P
  BY <1>1, <1>3
<1>4. \A m \in D : <<m, m>> \in P => m \in X
  OBVIOUS
<1> HIDE DEF P
<1>5. Intersect(a, b) \in D /\ <<Intersect(a, b), Intersect(a, b)>> \in P
  <2>1. Keeps(P)
    BY <1>2, <1>3 DEF Keeps
  <2> QED
    BY <1>2, <2>1, IntersectKeeps
<1> QED
  BY <1>4, <1>5

(* The fold over b's processed predecessors, one by one.                    *)
LEMMA MeetsIs ==
  ASSUME TypeOK, DepthFirst, Upwards, NEW b
  PROVE  /\ Meets(b)[0] = None
         /\ \A p \in 1 .. Size :
              /\ Meets(b)[p-1] \in DOMAIN idom \cup {None}
              /\ Meets(b)[p] = IF ~ (p \in DOMAIN idom /\ b \in succ[p]) THEN Meets(b)[p-1]
                               ELSE IF Meets(b)[p-1] = None THEN p
                               ELSE Intersect(p, Meets(b)[p-1])
<1> DEFINE D == DOMAIN idom
           S == D \cup {None}
           With(p, x) == IF ~ (p \in D /\ b \in succ[p]) THEN x
                         ELSE IF x = None THEN p
                         ELSE Intersect(p, x)
           step == [p \in 1 .. Size |-> [x \in S |-> With(p, x)]]
<1>1. Size \in Nat
  BY DominanceAssumption
<1>2. ASSUME NEW p \in D, NEW x \in D PROVE Intersect(p, x) \in D
  <2>1. \A y \in D : idom[y] \in D
    BY DEF Upwards
  <2> QED
    BY <1>2, <2>1, IntersectReaches
<1>3. ASSUME NEW p, NEW x \in S PROVE With(p, x) \in S
  BY <1>2, <1>3
<1>4. step \in [1 .. Size -> [S -> S]] /\ \A p \in 1 .. Size, x \in S : step[p][x] = With(p, x)
  <2> HIDE DEF With
  <2> QED
    BY <1>3
<1>5. None \in S
  OBVIOUS
<1>6. PICK f \in [0 .. Size -> S] : Solves(f, Size, None, step)
  <2> HIDE DEF S, step
  <2> QED
    BY <1>1, <1>4, <1>5, RecursionExists
<1>7. f \in [0 .. Size -> S] /\ f = [p \in 0 .. Size |-> IF p = 0 THEN None ELSE step[p][f[p-1]]]
  <2> HIDE DEF S, step
  <2> QED
    BY <1>6 DEF Solves
<1> HIDE DEF step
<1>8. ASSUME NEW p \in 0 .. Size
      PROVE  f[p] = IF p = 0 THEN None ELSE With(p, f[p-1])
  <2>1. CASE p = 0
    BY <2>1, <1>7
  <2>2. CASE p # 0
    <3>1. p - 1 \in 0 .. Size /\ p \in 1 .. Size
      BY <2>2, <1>1
    <3>2. f[p-1] \in S
      BY <3>1, <1>7
    <3>3. f[p] = step[p][f[p-1]]
      BY <2>2, <1>7
    <3> HIDE DEF With, S
    <3> QED
      BY <2>2, <3>1, <3>2, <3>3, <1>4
  <2> QED
    BY <2>1, <2>2
<1>9. f = [p \in 0 .. Size |-> IF p = 0 THEN None ELSE With(p, f[p-1])]
  <2> HIDE DEF With, S
  <2> QED
    BY <1>7, <1>8
<1> DEFINE g == Meets(b)
<1>10. g = [p \in 0 .. Size |-> IF p = 0 THEN None ELSE With(p, g[p-1])]
  <2> HIDE DEF S
  <2> QED
    BY <1>9, Zenon DEF Meets
<1> HIDE DEF g
<1>11. g[0] = None /\ \A p \in 1 .. Size : g[p] = With(p, g[p-1])
  <2> HIDE DEF With
  <2>1. \A p \in 1 .. Size : p \in 0 .. Size /\ p # 0
    BY <1>1
  <2>2. 0 \in 0 .. Size
    BY <1>1
  <2> QED
    BY <1>10, <2>1, <2>2
<1>12. \A p \in 0 .. Size : g[p] \in S
  <2> DEFINE Bad == {p \in 0 .. Size : g[p] \notin S}
  <2>1. ASSUME NEW p \in Bad, \A j \in Bad : p <= j PROVE FALSE
    <3>1. p # 0 /\ p \in 0 .. Size
      BY <1>5, <1>11
    <3>2. p \in 1 .. Size /\ p - 1 \in 0 .. Size /\ ~ (p <= p - 1)
      BY <3>1, <1>1
    <3>3. g[p-1] \in S
      BY <2>1, <3>2
    <3> HIDE DEF With, S
    <3> QED
      BY <3>2, <3>3, <1>3, <1>11
  <2>2. Bad \subseteq Nat
    OBVIOUS
  <2>3. Bad = {}
    <3> HIDE DEF Bad
    <3> QED
      BY <2>1, <2>2, LeastExists
  <2> QED
    BY <2>3
<1>13. \A p \in 1 .. Size : p - 1 \in 0 .. Size
  BY <1>1
<1> QED
  BY <1>11, <1>12, <1>13 DEF g

(* A set that has b's processed predecessors, and with two blocks the one   *)
(* where they meet, has what they all meet in.                              *)
LEMMA NewIdomKeeps ==
  ASSUME TypeOK, DepthFirst, Upwards, NEW b,
         NEW X \in SUBSET DOMAIN idom, \A x, y \in X : Intersect(x, y) \in X,
         \A p \in DOMAIN idom : b \in succ[p] => p \in X,
         NEW q \in DOMAIN idom, b \in succ[q]
  PROVE  NewIdom(b) \in X
<1> DEFINE g == Meets(b)
           Good(p) == g[p] \in X \cup {None} /\ (q <= p => g[p] # None)
           Bad == {p \in 0 .. Size : ~ Good(p)}
<1>1. Size \in Nat /\ DOMAIN idom \subseteq 1 .. Size
  BY DominanceAssumption, PositionIs DEF DepthFirst, Upwards, Blocks
<1>2. q \in 1 .. Size /\ None \notin X /\ X \subseteq 1 .. Size
  BY <1>1 DEF None
<1>3. g[0] = None
  BY MeetsIs
<1>4. ASSUME NEW p \in 1 .. Size
      PROVE  g[p] = IF ~ (p \in DOMAIN idom /\ b \in succ[p]) THEN g[p-1]
                    ELSE IF g[p-1] = None THEN p
                    ELSE Intersect(p, g[p-1])
  BY MeetsIs
<1> HIDE DEF g
<1>5. ASSUME NEW p \in Bad, \A j \in Bad : p <= j PROVE FALSE
  <2>1. p \in 0 .. Size /\ ~ Good(p)
    OBVIOUS
  <2>2. p # 0
    BY <2>1, <1>2, <1>3
  <2>3. p \in 1 .. Size /\ p - 1 \in 0 .. Size /\ ~ (p <= p - 1)
    BY <2>1, <2>2, <1>1
  <2>4. Good(p - 1)
    BY <1>5, <2>3
  <2>5. CASE ~ (p \in DOMAIN idom /\ b \in succ[p])
    <3>1. g[p] = g[p-1] /\ p # q
      BY <2>3, <2>5, <1>4
    <3>2. q <= p => q <= p - 1
      BY <3>1, <2>3, <1>2
    <3> QED
      BY <2>1, <2>4, <3>1, <3>2
  <2>6. CASE p \in DOMAIN idom /\ b \in succ[p]
    <3>1. p \in X
      BY <2>6
    <3>2. g[p] = IF g[p-1] = None THEN p ELSE Intersect(p, g[p-1])
      BY <2>3, <2>6, <1>4
    <3>3. g[p] \in X
      BY <3>1, <3>2, <2>4
    <3> QED
      BY <2>1, <3>3, <1>2
  <2> QED
    BY <2>5, <2>6
<1>6. Bad = {}
  <2>1. Bad \subseteq Nat
    OBVIOUS
  <2> HIDE DEF Bad
  <2> QED
    BY <1>5, <2>1, LeastExists
<1>7. Good(Size)
  BY <1>1, <1>6
<1>8. g[Size] \in X
  BY <1>1, <1>2, <1>7
<1> QED
  BY <1>8 DEF NewIdom, g

(* A set that has one of them, and that idom does not leave, does too.      *)
LEMMA NewIdomReaches ==
  ASSUME TypeOK, DepthFirst, Upwards, NEW b,
         NEW X \in SUBSET DOMAIN idom, \A x \in X : idom[x] \in X,
         NEW q \in X, b \in succ[q]
  PROVE  NewIdom(b) \in X
<1> DEFINE g == Meets(b)
           Bad == {p \in q .. Size : g[p] \notin X}
<1>1. Size \in Nat /\ DOMAIN idom \subseteq 1 .. Size
  BY DominanceAssumption, PositionIs DEF DepthFirst, Upwards, Blocks
<1>2. q \in 1 .. Size /\ None \notin X /\ X \subseteq 1 .. Size
  BY <1>1 DEF None
<1>3. ASSUME NEW p \in 1 .. Size
      PROVE  /\ g[p-1] \in DOMAIN idom \cup {None}
             /\ g[p] = IF ~ (p \in DOMAIN idom /\ b \in succ[p]) THEN g[p-1]
                       ELSE IF g[p-1] = None THEN p
                       ELSE Intersect(p, g[p-1])
  BY MeetsIs
<1> HIDE DEF g
<1>4. ASSUME NEW x \in DOMAIN idom, NEW y \in DOMAIN idom, x \in X \/ y \in X PROVE Intersect(x, y) \in X
  BY <1>4, IntersectReaches
<1>5. ASSUME NEW p \in Bad, \A j \in Bad : p <= j PROVE FALSE
  <2>1. p \in q .. Size /\ p \in 1 .. Size /\ g[p] \notin X
    BY <1>1, <1>2
  <2>2. CASE p = q
    <3>1. g[p] = IF g[p-1] = None THEN p ELSE Intersect(p, g[p-1])
      BY <2>1, <2>2, <1>3
    <3>2. g[p-1] \in DOMAIN idom \cup {None} /\ p \in X /\ p \in DOMAIN idom
      BY <2>1, <2>2, <1>3
    <3>3. CASE g[p-1] = None
      BY <3>1, <3>2, <3>3, <2>1
    <3>4. CASE g[p-1] # None
      <4>1. Intersect(p, g[p-1]) \in X
        BY <3>2, <3>4, <1>4
      <4> QED
        BY <3>1, <3>4, <4>1, <2>1
    <3> QED
      BY <3>3, <3>4
  <2>3. CASE p # q
    <3>1. p - 1 \in q .. Size /\ ~ (p <= p - 1)
      BY <2>1, <2>3, <1>1, <1>2
    <3>2. g[p-1] \in X /\ g[p-1] # None
      BY <1>5, <3>1, <1>2
    <3>3. g[p] = IF ~ (p \in DOMAIN idom /\ b \in succ[p]) THEN g[p-1] ELSE Intersect(p, g[p-1])
      BY <2>1, <3>2, <1>3
    <3>4. p \in DOMAIN idom => Intersect(p, g[p-1]) \in X
      BY <3>2, <1>4
    <3> QED
      BY <2>1, <3>2, <3>3, <3>4
  <2> QED
    BY <2>2, <2>3
<1>6. Bad = {}
  <2>1. Bad \subseteq Nat
    BY <1>1, <1>2
  <2> HIDE DEF Bad
  <2> QED
    BY <1>5, <2>1, LeastExists
<1>7. g[Size] \in X
  BY <1>1, <1>2, <1>6
<1> QED
  BY <1>7 DEF NewIdom, g

-----------------------------------------------------------------------------
(* Fingers on two blocks that a dominates do not climb past it, as long as  *)
(* no chain passes by a dominator.                                          *)
LEMMA IntersectDominated ==
  ASSUME TypeOK, DepthFirst, Upwards, NonePassed, NEW a \in Blocks,
         NEW x \in DOMAIN idom, NEW y \in DOMAIN idom, Dominates(a, x), Dominates(a, y)
  PROVE  Intersect(x, y) \in DOMAIN idom /\ Dominates(a, Intersect(x, y))
<1> DEFINE D == DOMAIN idom
           P == {q \in D \X D : Dominates(a, q[1]) /\ Dominates(a, q[2])}
<1>1. idom \in [D -> D] /\ D \subseteq Ordered
  BY DEF Upwards
<1>2. P \subseteq D \X D /\ <<x, y>> \in P
  OBVIOUS
<1>3. ASSUME NEW u \in D, NEW v \in D, Dominates(a, u), Dominates(a, v), Position(u) > Position(v)
      PROVE  Dominates(a, idom[u])
  <2>1. a \in Ordered /\ Position(a) <= Position(v)
    BY <1>1, <1>3, DominatorsFirst
  <2>2. Position(a) \in Nat /\ Position(u) \in Nat /\ Position(v) \in Nat /\ Position(Entry) = 1
        /\ Position(v) >= 1
    BY <1>1, <2>1, PositionIs, EntryFirst DEF DepthFirst
  <2>3. a # u /\ u # Entry
    BY <1>3, <2>1, <2>2
  <2> QED
    BY <1>3, <2>3 DEF NonePassed, StrictlyDominates
<1>4. \A u, v \in DOMAIN idom : <<u, v>> \in P /\ u # v =>
        /\ Position(u) > Position(v) => <<idom[u], v>> \in P
        /\ Position(u) < Position(v) => <<u, idom[v]>> \in P
  <2> SUFFICES ASSUME NEW u \in D, NEW v \in D, Dominates(a, u), Dominates(a, v)
               PROVE  /\ Position(u) > Position(v) => Dominates(a, idom[u]) /\ idom[u] \in D
                      /\ Position(u) < Position(v) => Dominates(a, idom[v]) /\ idom[v] \in D
    OBVIOUS
  <2>1. Position(u) < Position(v) => Position(v) > Position(u)
    BY <1>1, PositionIs DEF DepthFirst
  <2> QED
    BY <1>1, <1>3, <2>1
<1>5. \A m \in D : <<m, m>> \in P => Dominates(a, m)
  OBVIOUS
<1> HIDE DEF P
<1>6. Intersect(x, y) \in D /\ <<Intersect(x, y), Intersect(x, y)>> \in P
  <2>1. Keeps(P)
    BY <1>2, <1>4 DEF Keeps
  <2> QED
    BY <1>2, <2>1, IntersectKeeps
<1> QED
  BY <1>5, <1>6

-----------------------------------------------------------------------------
(* The depth-first search.                                                  *)
LEMMA InitInv == Init => IInv
<1> SUFFICES ASSUME Init PROVE IInv
  OBVIOUS
<1> USE DEF Init
<1>1. Entry \in Blocks /\ succ \in [Blocks -> SUBSET Blocks]
  BY DominanceAssumption DEF Blocks, Entry
<1>2. TypeOK
  <2>1. stack \in Seq(Blocks) /\ order \in Seq(Blocks) /\ visited \in SUBSET Blocks
    BY <1>1
  <2> QED
    BY <1>1, <2>1 DEF TypeOK
<1>3. Visiting
  <2>1. Len(stack) = 1 /\ stack[1] = Entry /\ stack # << >> /\ Len(order) = 0
    OBVIOUS
  <2>2. {stack[k] : k \in 1 .. Len(stack)} = {Entry} /\ Ordered = {}
    BY <2>1 DEF Ordered
  <2>3. Distinct(stack) /\ Distinct(order)
    BY <2>1 DEF Distinct
  <2> QED
    BY <2>1, <2>2, <2>3 DEF Visiting
<1> QED
  BY <1>2, <1>3 DEF IInv

(* Visiting a successor lengthens the path of open visits.                  *)
LEMMA DescendInv == IInv /\ Descend => IInv'
<1> SUFFICES ASSUME IInv, Descend PROVE IInv'
  OBVIOUS
<1>1. TypeOK /\ Visiting /\ ~ changed /\ phase = "visit"
  BY DEF IInv, Descend
<1> DEFINE L == Len(stack)
           open == {stack[k] : k \in 1 .. L}
           m == Min(succ[Last(stack)] \ visited)
<1>2. /\ L \in Nat /\ L >= 1 /\ Last(stack) = stack[L] /\ stack[L] \in Blocks
      /\ stack \in Seq(Blocks) /\ succ \in [Blocks -> SUBSET Blocks]
  BY <1>1 DEF TypeOK, Visiting, Last
<1>3. m \in succ[stack[L]] /\ m \notin visited /\ m \in Blocks
  <2>1. /\ succ[stack[L]] \ visited \subseteq 1 .. Size /\ Size \in Nat
        /\ succ[stack[L]] \ visited # {}
    BY <1>2, DominanceAssumption DEF Descend, Blocks
  <2> HIDE DEF L
  <2>2. Min(succ[stack[L]] \ visited) \in succ[stack[L]] \ visited
    BY <2>1, FirstPosition
  <2> QED
    BY <1>2, <2>1, <2>2 DEF Blocks
<1>4. /\ stack' = Append(stack, m) /\ visited' = visited \cup {m}
      /\ succ' = succ /\ order' = order /\ i' = i /\ changed' = changed /\ phase' = phase
  BY DEF Descend
<1> HIDE DEF m
<1>5. /\ stack' \in Seq(Blocks) /\ Len(stack') = L + 1 /\ stack'[L + 1] = m
      /\ \A k \in 1 .. L : stack'[k] = stack[k]
  BY <1>2, <1>3, <1>4
<1>6. TypeOK'
  BY <1>1, <1>3, <1>4, <1>5 DEF TypeOK
<1>7. {stack'[k] : k \in 1 .. Len(stack')} = open \cup {m}
  BY <1>2, <1>5
<1>8. Ordered' = Ordered
  BY <1>4 DEF Ordered
<1>9. Visiting'
  <2>1. /\ stack # << >> /\ stack[1] = Entry
        /\ \A k \in 1 .. L - 1 : stack[k + 1] \in succ[stack[k]]
        /\ Distinct(stack) /\ Distinct(order)
        /\ open \cap Ordered = {}
        /\ visited = open \cup Ordered
        /\ \A b \in Ordered : succ[b] \subseteq visited
        /\ \A k \in 1 .. Len(order) :
             \/ \E b \in open : order[k] \in succ[b]
             \/ \E j \in 1 .. k - 1 : order[k] \in succ[order[j]]
    BY <1>1 DEF Visiting
  <2>2. stack' # << >> /\ stack'[1] = Entry
    BY <2>1, <1>2, <1>5
  <2>3. \A k \in 1 .. Len(stack') - 1 : stack'[k + 1] \in succ'[stack'[k]]
    <3>1. ASSUME NEW k \in 1 .. L PROVE stack'[k + 1] \in succ[stack'[k]]
      <4>1. CASE k = L
        BY <4>1, <1>2, <1>3, <1>5
      <4>2. CASE k # L
        <5>1. k \in 1 .. L - 1 /\ k + 1 \in 1 .. L
          BY <4>2, <1>2
        <5> QED
          BY <5>1, <2>1, <1>5
      <4> QED
        BY <4>1, <4>2
    <3> QED
      BY <3>1, <1>2, <1>4, <1>5
  <2>4. Distinct(stack')
    <3>1. m \notin open
      BY <2>1, <1>3
    <3>2. ASSUME NEW j \in 1 .. L + 1, NEW k \in 1 .. L + 1, stack'[j] = stack'[k] PROVE j = k
      <4>1. CASE j \in 1 .. L /\ k \in 1 .. L
        BY <4>1, <3>2, <1>5, <2>1 DEF Distinct
      <4>2. CASE j = L + 1 \/ k = L + 1
        <5>1. \A l \in 1 .. L : stack'[l] # m
          BY <3>1, <1>5
        <5> QED
          BY <4>2, <5>1, <3>2, <1>2, <1>5
      <4> QED
        BY <4>1, <4>2, <1>2
    <3> QED
      BY <3>2, <1>5 DEF Distinct
  <2>5. Distinct(order')
    BY <2>1, <1>4
  <2>6. (open \cup {m}) \cap Ordered = {} /\ visited' = (open \cup {m}) \cup Ordered
    BY <2>1, <1>3, <1>4
  <2>7. \A b \in Ordered : succ'[b] \subseteq visited'
    BY <2>1, <1>4
  <2>8. \A k \in 1 .. Len(order') :
          \/ \E b \in open \cup {m} : order'[k] \in succ'[b]
          \/ \E j \in 1 .. k - 1 : order'[k] \in succ'[order'[j]]
    BY <2>1, <1>4
  <2> HIDE DEF open, L
  <2> QED
    BY <2>2, <2>3, <2>4, <2>5, <2>6, <2>7, <2>8, <1>7, <1>8 DEF Visiting
<1> QED
  BY <1>1, <1>4, <1>6, <1>9 DEF IInv

(* A visit that ends goes to the front of the order: its successors were    *)
(* all seen, and the visit that began it is still open.                     *)
LEMMA RetreatInv == IInv /\ Retreat => IInv'
<1> SUFFICES ASSUME IInv, Retreat PROVE IInv'
  OBVIOUS
<1>1. TypeOK /\ Visiting /\ ~ changed /\ phase = "visit"
  BY DEF IInv, Retreat
<1> DEFINE L == Len(stack)
           n == Len(order)
           x == Last(stack)
           open == {stack[k] : k \in 1 .. L}
<1>2. /\ L \in Nat /\ L >= 1 /\ L \in 1 .. L /\ x = stack[L] /\ x \in Blocks /\ n \in Nat
      /\ stack \in Seq(Blocks) /\ succ \in [Blocks -> SUBSET Blocks] /\ order \in Seq(Blocks)
  BY <1>1 DEF TypeOK, Visiting, Last
<1>3. /\ succ[x] \subseteq visited /\ order' = <<x>> \o order /\ stack' = SubSeq(stack, 1, L - 1)
      /\ succ' = succ /\ visited' = visited /\ changed' = changed
  BY DEF Retreat, Cons, Front
<1>4. /\ L = 1 => phase' = "idom" /\ idom' = [b \in {Entry} |-> Entry] /\ i' = 2
      /\ L # 1 => phase' = phase /\ idom' = idom /\ i' = i
  BY DEF Retreat
<1> HIDE DEF x
<1>5. /\ order' \in Seq(Blocks) /\ Len(order') = n + 1 /\ order'[1] = x
      /\ \A k \in 2 .. n + 1 : order'[k] = order[k - 1]
      /\ \A k \in 1 .. n : order'[k + 1] = order[k]
  <2>1. <<x>> \in Seq(Blocks) /\ Len(<<x>>) = 1 /\ <<x>>[1] = x
    BY <1>2
  <2>2. /\ order' \in Seq(Blocks) /\ Len(order') = 1 + n
        /\ \A k \in 1 .. 1 + n : order'[k] = IF k <= 1 THEN <<x>>[k] ELSE order[k - 1]
    BY <2>1, <1>2, <1>3, Concatenation
  <2> QED
    BY <2>1, <2>2, <1>2
<1>6. /\ stack' \in Seq(Blocks) /\ Len(stack') = L - 1
      /\ \A k \in 1 .. L - 1 : stack'[k] = stack[k]
  BY <1>2, <1>3
<1>7. TypeOK'
  BY <1>1, <1>3, <1>4, <1>5, <1>6 DEF TypeOK
<1>8. Ordered' = Ordered \cup {x}
  <2>1. Ordered' = {order'[k] : k \in 1 .. Len(order')} /\ Ordered = {order[k] : k \in 1 .. n}
    BY DEF Ordered
  <2>2. ASSUME NEW b \in Ordered' PROVE b \in Ordered \cup {x}
    <3>1. PICK k \in 1 .. n + 1 : b = order'[k]
      BY <2>1, <2>2, <1>5
    <3>2. k # 1 => k - 1 \in 1 .. n /\ k \in 2 .. n + 1
      BY <3>1, <1>2
    <3> QED
      BY <3>1, <3>2, <2>1, <1>5
  <2>3. ASSUME NEW b \in Ordered \cup {x} PROVE b \in Ordered'
    <3>1. CASE b = x
      BY <3>1, <2>1, <1>2, <1>5
    <3>2. CASE b \in Ordered
      <4>1. PICK k \in 1 .. n : b = order[k]
        BY <3>2, <2>1
      <4>2. k + 1 \in 1 .. n + 1 /\ b = order'[k + 1]
        BY <4>1, <1>2, <1>5
      <4> QED
        BY <4>2, <2>1, <1>5
    <3> QED
      BY <2>3, <3>1, <3>2
  <2> QED
    BY <2>2, <2>3
<1>9. /\ stack # << >> /\ stack[1] = Entry
      /\ \A k \in 1 .. L - 1 : stack[k + 1] \in succ[stack[k]]
      /\ Distinct(stack) /\ Distinct(order)
      /\ open \cap Ordered = {}
      /\ visited = open \cup Ordered
      /\ \A b \in Ordered : succ[b] \subseteq visited
      /\ \A k \in 1 .. n :
           \/ \E b \in open : order[k] \in succ[b]
           \/ \E j \in 1 .. k - 1 : order[k] \in succ[order[j]]
  BY <1>1 DEF Visiting
<1>10. x \in open /\ x \notin Ordered
  BY <1>2, <1>9
<1>11. Distinct(order')
  <2>1. ASSUME NEW j \in 1 .. n + 1, NEW k \in 1 .. n + 1, order'[j] = order'[k] PROVE j = k
    <3>1. \A l \in 2 .. n + 1 : l - 1 \in 1 .. n /\ order'[l] = order[l - 1] /\ order[l - 1] # x
      BY <1>2, <1>5, <1>10 DEF Ordered
    <3>2. CASE j = 1 \/ k = 1
      BY <3>1, <3>2, <2>1, <1>2, <1>5
    <3>3. CASE j # 1 /\ k # 1
      <4>1. order[j - 1] = order[k - 1] /\ j - 1 \in 1 .. n /\ k - 1 \in 1 .. n
        BY <3>1, <3>3, <2>1, <1>2
      <4>2. j - 1 = k - 1
        BY <4>1, <1>9 DEF Distinct
      <4> QED
        BY <4>2, <2>1, <1>2
    <3> QED
      BY <3>2, <3>3
  <2> QED
    BY <2>1, <1>5 DEF Distinct
<1>12. \A b \in Ordered' : succ'[b] \subseteq visited'
  BY <1>3, <1>8, <1>9
(* A block of which a visit in progress took care has it in the rest of the *)
(* stack, or before it in order.                                            *)
<1>13. ASSUME NEW k \in 2 .. n + 1
       PROVE  \/ \E b \in open \ {x} : order'[k] \in succ[b]
              \/ \E j \in 1 .. k - 1 : order'[k] \in succ[order'[j]]
  <2>1. k - 1 \in 1 .. n /\ order'[k] = order[k - 1] /\ 1 \in 1 .. k - 1
    BY <1>2, <1>5
  <2>2. CASE \E b \in open : order[k - 1] \in succ[b]
    BY <2>1, <2>2, <1>5
  <2>3. CASE \E j \in 1 .. (k - 1) - 1 : order[k - 1] \in succ[order[j]]
    <3>1. PICK j \in 1 .. (k - 1) - 1 : order[k - 1] \in succ[order[j]]
      BY <2>3
    <3>2. j + 1 \in 1 .. k - 1 /\ j \in 1 .. n
      BY <3>1, <2>1, <1>2
    <3>3. order'[j + 1] = order[j]
      BY <3>2, <1>5
    <3> QED
      BY <2>1, <3>1, <3>2, <3>3
  <2> QED
    BY <2>1, <2>2, <2>3, <1>9
<1>14. CASE L = 1
  <2>1. x = Entry /\ open = {Entry}
    BY <1>2, <1>9, <1>14
  <2>2. DepthFirst'
    <3>1. order' # << >> /\ order'[1] = Entry
      BY <2>1, <1>2, <1>5
    <3>2. visited' = Ordered'
      BY <2>1, <1>3, <1>8, <1>9
    <3>3. \A b \in Ordered' : succ'[b] \subseteq Ordered'
      BY <3>2, <1>12
    <3>4. \A k \in 2 .. Len(order') : \E j \in 1 .. k - 1 : order'[k] \in succ'[order'[j]]
      BY <2>1, <1>3, <1>5, <1>13
    <3> HIDE DEF open, L, n
    <3> QED
      BY <3>1, <3>3, <3>4, <1>11 DEF DepthFirst
  <2>3. DOMAIN idom' = {Entry} /\ idom'[Entry] = Entry
    BY <1>4, <1>14
  <2>4. Upwards'
    <3>1. Entry \in DOMAIN idom' /\ DOMAIN idom' \subseteq Ordered' /\ DOMAIN idom' \ {Entry} = {}
      BY <2>1, <2>3, <1>8
    <3>2. idom' \in [DOMAIN idom' -> DOMAIN idom']
      BY <2>3, <1>4, <1>14
    <3> QED
      BY <2>3, <3>1, <3>2 DEF Upwards
  <2>5. NonePassed'
    BY <2>3 DEF NonePassed
  <2>6. Processed'
    <3>1. i' = 2 /\ phase' # "done" /\ Len(order') >= 1 /\ Len(order') \in Nat
      BY <1>2, <1>4, <1>5, <1>14
    <3>2. i' \in 2 .. Len(order') + 1 /\ 2 .. i' - 1 = {}
      BY <3>1
    <3>3. \A k \in 1 .. i' - 1 : order'[k] \in DOMAIN idom'
      BY <2>1, <2>3, <3>1, <1>5
    <3> QED
      BY <3>1, <3>2, <3>3 DEF Processed
  <2> QED
    BY <2>2, <2>4, <2>5, <2>6, <1>4, <1>7, <1>14 DEF IInv
<1>15. CASE L # 1
  <2>1. {stack'[k] : k \in 1 .. Len(stack')} = open \ {x}
    <3>1. \A k \in 1 .. L : k # L => k \in 1 .. L - 1
      BY <1>2
    <3>2. \A k \in 1 .. L - 1 : k \in 1 .. L /\ k # L
      BY <1>2
    <3>3. \A k \in 1 .. L : stack[k] = x <=> k = L
      BY <1>2, <1>9 DEF Distinct
    <3> QED
      BY <3>1, <3>2, <3>3, <1>6
  <2>2. stack' # << >> /\ stack'[1] = Entry
    BY <1>2, <1>6, <1>9, <1>15
  <2>3. \A k \in 1 .. Len(stack') - 1 : stack'[k + 1] \in succ'[stack'[k]]
    <3>1. \A k \in 1 .. (L - 1) - 1 : k \in 1 .. L - 1 /\ k + 1 \in 1 .. L - 1
      BY <1>2
    <3> QED
      BY <3>1, <1>3, <1>6, <1>9
  <2>4. Distinct(stack')
    <3>1. \A k \in 1 .. L - 1 : k \in 1 .. L
      BY <1>2
    <3> QED
      BY <3>1, <1>6, <1>9 DEF Distinct
  <2>5. (open \ {x}) \cap Ordered' = {} /\ visited' = (open \ {x}) \cup Ordered'
    BY <1>3, <1>8, <1>9, <1>10
  <2>6. \A k \in 1 .. Len(order') :
          \/ \E b \in open \ {x} : order'[k] \in succ'[b]
          \/ \E j \in 1 .. k - 1 : order'[k] \in succ'[order'[j]]
    <3>1. \E b \in open \ {x} : x \in succ[b]
      <4>1. L - 1 \in 1 .. L - 1 /\ (L - 1) + 1 = L /\ L - 1 \in 1 .. L /\ L - 1 # L
        <5>1. L \in Nat /\ L >= 1 /\ L # 1
          BY <1>2, <1>15
        <5> HIDE DEF L
        <5> QED
          BY <5>1
      <4>2. x \in succ[stack[L - 1]] /\ stack[L - 1] # x
        BY <4>1, <1>2, <1>9 DEF Distinct
      <4> QED
        BY <4>1, <4>2
    <3>2. \A k \in 1 .. n + 1 : k = 1 \/ k \in 2 .. n + 1
      BY <1>2
    <3> HIDE DEF open, L
    <3>3. ASSUME NEW k \in 1 .. n + 1
          PROVE  \/ \E b \in open \ {x} : order'[k] \in succ[b]
                 \/ \E j \in 1 .. k - 1 : order'[k] \in succ[order'[j]]
      <4>1. CASE k = 1
        BY <4>1, <3>1, <1>5
      <4>2. CASE k \in 2 .. n + 1
        BY <4>2, <1>13
      <4> QED
        BY <3>2, <4>1, <4>2
    <3> QED
      BY <3>3, <1>3, <1>5
  <2> HIDE DEF open, L, n
  <2>7. Visiting'
    BY <2>1, <2>2, <2>3, <2>4, <2>5, <2>6, <1>11, <1>12 DEF Visiting
  <2> QED
    BY <2>7, <1>1, <1>3, <1>4, <1>7, <1>15 DEF IInv
<1> QED
  BY <1>14, <1>15

-----------------------------------------------------------------------------
(* What depends on the graph, on the order and on idom alone.               *)
LEMMA SameReach ==
  ASSUME succ' = succ
  PROVE  (\A A : Reach(A)' = Reach(A)) /\ Reachable' = Reachable
<1>1. ASSUME NEW A PROVE Reach(A)' = Reach(A)
  BY DEF Reach
<1>2. Reachable' = Reachable
  BY DEF Reach, Reachable
<1> QED
  BY <1>1, <1>2

(* Positions, and the blocks that have one, depend on the order,            *)
LEMMA SameOrder ==
  ASSUME order' = order
  PROVE  (\A b : Position(b)' = Position(b)) /\ Ordered' = Ordered
<1>1. ASSUME NEW b PROVE Position(b)' = Position(b)
  BY DEF Position
<1>2. Ordered' = Ordered
  BY DEF Ordered
<1> QED
  BY <1>1, <1>2

(* what a block gets on the graph, the order and idom,                      *)
LEMMA SameNewIdom ==
  ASSUME succ' = succ, order' = order, idom' = idom, NEW b
  PROVE  NewIdom(b)' = NewIdom(b)
BY DEF NewIdom, Meets, Intersect, Meeting, Position

(* and DepthFirst on the graph and the order.                               *)
LEMMA SameDepthFirst ==
  ASSUME succ' = succ, order' = order, DepthFirst
  PROVE  DepthFirst'
<1>1. Ordered' = Ordered
  BY SameOrder
<1> QED
  BY <1>1 DEF DepthFirst, Distinct

(* What a block gets that has a processed predecessor.                      *)
LEMMA NewIdomIs ==
  ASSUME TypeOK, DepthFirst, Upwards, NonePassed,
         NEW b \in Ordered, NEW q \in DOMAIN idom, b \in succ[q], Position(q) < Position(b)
  PROVE  /\ NewIdom(b) \in DOMAIN idom /\ Position(NewIdom(b)) < Position(b)
         /\ \A a \in Blocks : StrictlyDominates(a, b) => Dominates(a, NewIdom(b))
<1>1. DOMAIN idom \subseteq Ordered /\ Ordered = Reachable /\ Distinct(order)
  BY OrderedReached DEF Upwards, DepthFirst
<1> DEFINE X == {x \in DOMAIN idom : Position(x) < Position(b)}
<1>2. NewIdom(b) \in X
  <2>1. ASSUME NEW x \in X PROVE idom[x] \in X
    <3>1. x \in DOMAIN idom /\ idom[x] \in DOMAIN idom /\ Position(x) < Position(b)
      BY DEF Upwards
    <3>2. Position(idom[x]) \in Nat /\ Position(x) \in Nat /\ Position(b) \in Nat
      BY <1>1, <3>1, PositionIs
    <3>3. Position(idom[x]) <= Position(x)
      <4>1. CASE x = Entry
        BY <3>2, <4>1 DEF Upwards
      <4>2. CASE x # Entry
        BY <3>1, <3>2, <4>2 DEF Upwards
      <4> QED
        BY <4>1, <4>2
    <3> QED
      BY <3>1, <3>2, <3>3
  <2>2. X \in SUBSET DOMAIN idom /\ q \in X
    OBVIOUS
  <2> HIDE DEF X
  <2> QED
    BY <2>1, <2>2, NewIdomReaches
<1>3. ASSUME NEW a \in Blocks, StrictlyDominates(a, b) PROVE Dominates(a, NewIdom(b))
  <2> DEFINE Y == {x \in DOMAIN idom : Dominates(a, x)}
  <2>1. \A x, y \in Y : Intersect(x, y) \in Y
    BY IntersectDominated
  <2>2. ASSUME NEW p \in DOMAIN idom, b \in succ[p] PROVE p \in Y
    BY <1>1, <1>3, <2>2, DominatesPredecessor
  <2>3. Y \in SUBSET DOMAIN idom
    OBVIOUS
  <2> HIDE DEF Y
  <2>4. NewIdom(b) \in Y
    BY <2>1, <2>2, <2>3, NewIdomKeeps
  <2> QED
    BY <2>4 DEF Y
<1> QED
  BY <1>2, <1>3

(* A block is processed: its new parent comes before it, and no dominator    *)
(* is between the two.                                                      *)
LEMMA ProcessInv == IInv /\ Process => IInv'
<1> SUFFICES ASSUME IInv, Process PROVE IInv'
  OBVIOUS
<1>1. /\ TypeOK /\ DepthFirst /\ Upwards /\ NonePassed /\ Processed
      /\ phase = "idom" /\ i <= Len(order)
  BY DEF IInv, Process
<1> DEFINE b == order[i]
           new == NewIdom(b)
           D == DOMAIN idom
<1>2. /\ succ' = succ /\ stack' = stack /\ visited' = visited /\ order' = order /\ phase' = phase
      /\ i' = i + 1
  BY DEF Process
<1>3. i \in 2 .. Len(order) /\ i \in 1 .. Len(order) /\ Len(order) \in Nat
  BY <1>1 DEF Processed, TypeOK
<1>4. b \in Ordered /\ Position(b) = i /\ b # Entry /\ b \in Blocks
  BY <1>1, <1>3, PositionIs, EntryFirst DEF DepthFirst, Ordered
<1>5. PICK j \in 1 .. i - 1 : b \in succ[order[j]]
  BY <1>1, <1>3 DEF DepthFirst
<1>6. order[j] \in D /\ Position(order[j]) < Position(b)
  <2>1. j \in 1 .. Len(order) /\ j < i
    BY <1>3, <1>5
  <2> QED
    BY <2>1, <1>1, <1>4, <1>5, PositionIs DEF Processed, DepthFirst
<1>7. /\ new \in D /\ Position(new) < Position(b)
      /\ \A a \in Blocks : StrictlyDominates(a, b) => Dominates(a, new)
  BY <1>1, <1>4, <1>5, <1>6, NewIdomIs
<1>8. TypeOK'
  <2>1. changed' \in BOOLEAN
    BY <1>1, Zenon DEF TypeOK, Process
  <2>2. i' \in Nat
    BY <1>2, <1>3
  <2> QED
    BY <2>1, <2>2, <1>1, <1>2 DEF TypeOK
<1>9. DepthFirst' /\ Ordered' = Ordered /\ \A c : Position(c)' = Position(c)
  BY <1>1, <1>2, SameDepthFirst, SameOrder
<1>10. (\A A : Reach(A)' = Reach(A)) /\ Reachable' = Reachable
  BY <1>2, SameReach
<1>11. i' \in 2 .. Len(order') + 1 /\ phase' # "done"
  BY <1>1, <1>2, <1>3
<1>12. \A k \in 1 .. i' - 1 : k \in 1 .. i - 1 \/ k = i
  BY <1>2, <1>3
<1>13. \E p \in PredecessorSet(b) : p \in D
  BY <1>1, <1>5, <1>6, PositionIs DEF PredecessorSet, DepthFirst, Upwards
<1>14. CASE b \in D => idom[b] # new
  <2>1. idom' = [c \in D \cup {b} |-> IF c = b THEN new ELSE idom[c]] /\ changed' = TRUE
    BY <1>13, <1>14 DEF Process
  <2> HIDE DEF new, b
  <2>2. DOMAIN idom' = D \cup {b} /\ idom'[b] = new /\ \A c \in D \ {b} : idom'[c] = idom[c]
    BY <2>1
  <2>3. Upwards'
    <3>1. Entry \in D /\ D \subseteq Ordered /\ idom[Entry] = Entry
          /\ (\A c \in D : idom[c] \in D)
          /\ \A c \in D \ {Entry} : Position(idom[c]) < Position(c)
      BY <1>1 DEF Upwards
    <3>2. idom' \in [DOMAIN idom' -> DOMAIN idom']
      BY <2>1, <2>2, <3>1, <1>7
    <3>3. ASSUME NEW c \in (D \cup {b}) \ {Entry} PROVE Position(idom'[c]) < Position(c)
      BY <2>2, <3>1, <1>7
    <3>4. Entry \in D \cup {b} /\ D \cup {b} \subseteq Ordered /\ idom'[Entry] = Entry
      BY <2>2, <3>1, <1>4
    <3>5. \A c \in DOMAIN idom' \ {Entry} : (Position(idom[c]) < Position(c))'
      BY <2>2, <3>3, <1>2 DEF Position
    <3> HIDE DEF D
    <3> QED
      BY <2>2, <3>2, <3>4, <3>5, <1>9 DEF Upwards
  <2>4. NonePassed'
    <3>1. ASSUME NEW c \in (D \cup {b}) \ {Entry}, NEW a \in Blocks, StrictlyDominates(a, c)
          PROVE  Dominates(a, idom'[c])
      <4>1. CASE c = b
        BY <3>1, <4>1, <2>2, <1>7
      <4>2. CASE c # b
        BY <3>1, <4>2, <2>2, <1>1 DEF NonePassed
      <4> QED
        BY <4>1, <4>2
    <3> HIDE DEF D
    <3>2. ASSUME NEW c \in DOMAIN idom' \ {Entry}, NEW a \in Blocks
          PROVE  StrictlyDominates(a, c)' => Dominates(a, idom[c])'
      BY <2>2, <3>1, <1>10 DEF StrictlyDominates, Dominates
    <3> QED
      BY <3>2 DEF NonePassed
  <2>5. Processed'
    <3>1. \A k \in 1 .. i' - 1 : order'[k] \in DOMAIN idom'
      BY <1>1, <1>2, <1>12, <2>2 DEF Processed, b
    <3> QED
      BY <3>1, <2>1, <1>11 DEF Processed
  <2> QED
    BY <2>3, <2>4, <2>5, <1>1, <1>2, <1>8, <1>9 DEF IInv
<1>15. CASE b \in D /\ idom[b] = new
  <2>1. idom' = idom /\ changed' = changed
    BY <1>15 DEF Process
  <2>2. Upwards'
    <3>1. ASSUME NEW c \in D \ {Entry} PROVE (Position(idom[c]) < Position(c))'
      BY <1>1, <1>2, <2>1 DEF Upwards, Position
    <3> QED
      BY <3>1, <2>1, <1>1, <1>9 DEF Upwards
  <2>3. NonePassed'
    BY <2>1, <1>1, <1>10 DEF NonePassed, StrictlyDominates, Dominates
  <2>4. Processed'
    <3>1. \A k \in 1 .. i' - 1 : order'[k] \in DOMAIN idom'
      BY <1>1, <1>2, <1>12, <1>15, <2>1 DEF Processed
    <3>2. ASSUME ~ changed', NEW k \in 2 .. i' - 1 PROVE idom'[order'[k]] = NewIdom(order[k])'
      <4>1. k \in 2 .. i - 1 \/ k = i
        BY <3>2, <1>2, <1>3
      <4>2. idom[order[k]] = NewIdom(order[k])
        BY <3>2, <4>1, <1>1, <1>15, <2>1 DEF Processed
      <4>3. NewIdom(order[k])' = NewIdom(order[k])
        BY <1>2, <2>1 DEF NewIdom, Meets, Intersect, Meeting, Position
      <4> QED
        BY <4>2, <4>3, <1>2, <2>1
    <3> QED
      BY <3>1, <3>2, <1>11 DEF Processed
  <2> QED
    BY <2>2, <2>3, <2>4, <1>1, <1>2, <1>8, <1>9 DEF IInv
<1> QED
  BY <1>14, <1>15

(* A step after which idom is the same, in an order already complete.       *)
LEMMA SameTree ==
  ASSUME succ' = succ, order' = order, idom' = idom, DepthFirst, Upwards, NonePassed
  PROVE  /\ DepthFirst' /\ Upwards' /\ NonePassed'
         /\ \A k : NewIdom(order[k])' = NewIdom(order[k])
<1>1. DepthFirst' /\ Ordered' = Ordered
  BY SameDepthFirst, SameOrder
<1>2. Upwards'
  <2>1. ASSUME NEW c \in DOMAIN idom \ {Entry} PROVE (Position(idom[c]) < Position(c))'
    BY DEF Upwards, Position
  <2> QED
    BY <2>1, <1>1 DEF Upwards
<1>3. NonePassed'
  BY SameReach DEF NonePassed, StrictlyDominates, Dominates
<1>4. ASSUME NEW k PROVE NewIdom(order[k])' = NewIdom(order[k])
  BY DEF NewIdom, Meets, Intersect, Meeting, Position
<1> QED
  BY <1>1, <1>2, <1>3, <1>4

(* The next pass starts over with changed clear; the last one ends it.       *)
LEMMA EndPassInv == IInv /\ EndPass => IInv'
<1> SUFFICES ASSUME IInv, EndPass PROVE IInv'
  OBVIOUS
<1>1. /\ TypeOK /\ DepthFirst /\ Upwards /\ NonePassed /\ Processed
      /\ phase = "idom" /\ i > Len(order)
  BY DEF IInv, EndPass
<1>2. /\ succ' = succ /\ stack' = stack /\ visited' = visited /\ order' = order /\ idom' = idom
  BY DEF EndPass
<1>3. /\ DepthFirst' /\ Upwards' /\ NonePassed'
      /\ \A k : NewIdom(order[k])' = NewIdom(order[k])
  BY <1>1, <1>2, SameTree
<1>4. TypeOK'
  <2>1. changed' \in BOOLEAN /\ i' \in Nat /\ phase' \in {"visit", "idom", "done"}
    <3>1. CASE changed
      <4>1. i' = 2 /\ changed' = FALSE /\ phase' = phase
        BY <3>1 DEF EndPass
      <4> QED
        BY <4>1, <1>1 DEF TypeOK
    <3>2. CASE ~ changed
      <4>1. i' = i /\ changed' = changed /\ phase' = "done"
        BY <3>2 DEF EndPass
      <4>2. changed' \in BOOLEAN /\ i' \in Nat
        BY <4>1, <1>1, Zenon DEF TypeOK
      <4> QED
        BY <4>1, <4>2
    <3> QED
      BY <3>1, <3>2
  <2> QED
    BY <2>1, <1>1, <1>2 DEF TypeOK
<1>5. 1 \in 1 .. Len(order) /\ order[1] = Entry /\ Len(order) \in Nat /\ Entry \in DOMAIN idom
  BY <1>1, EntryFirst DEF TypeOK, Upwards
<1>6. i = Len(order) + 1
  BY <1>1, <1>5 DEF Processed
<1>7. CASE changed
  <2>1. i' = 2 /\ changed' = FALSE /\ phase' = phase
    BY <1>7 DEF EndPass
  <2>2. i' \in 2 .. Len(order') + 1 /\ 2 .. i' - 1 = {} /\ 1 .. i' - 1 = {1}
    BY <2>1, <1>2, <1>5
  <2>3. Processed'
    BY <2>1, <2>2, <1>1, <1>2, <1>5 DEF Processed
  <2> QED
    BY <2>1, <2>3, <1>1, <1>3, <1>4 DEF IInv
<1>8. CASE ~ changed
  <2>1. i' = i /\ changed' = changed /\ phase' = "done"
    BY <1>8 DEF EndPass
  <2>2. Processed'
    BY <2>1, <1>1, <1>2, <1>3, <1>6, <1>8 DEF Processed
  <2> QED
    BY <2>1, <2>2, <1>3, <1>4 DEF IInv
<1> QED
  BY <1>7, <1>8

(* A step that changes nothing.                                             *)
LEMMA StutterInv == IInv /\ UNCHANGED vars => IInv'
<1> SUFFICES ASSUME IInv, UNCHANGED vars PROVE IInv'
  OBVIOUS
<1>1. /\ succ' = succ /\ stack' = stack /\ visited' = visited /\ order' = order /\ idom' = idom
      /\ i' = i /\ changed' = changed /\ phase' = phase
  BY DEF vars
<1>2. TypeOK'
  BY <1>1 DEF TypeOK, IInv
<1>3. CASE phase = "visit"
  <2>1. Ordered' = Ordered
    BY <1>1, SameOrder
  <2>2. Visiting'
    BY <1>1, <1>3, <2>1 DEF Visiting, Distinct, IInv
  <2> QED
    BY <1>1, <1>2, <1>3, <2>2 DEF IInv
<1>4. CASE phase # "visit"
  <2>1. /\ DepthFirst' /\ Upwards' /\ NonePassed'
        /\ \A k : NewIdom(order[k])' = NewIdom(order[k])
    BY <1>1, <1>4, SameTree DEF IInv
  <2>2. Processed'
    BY <1>1, <1>4, <2>1 DEF Processed, IInv
  <2> QED
    BY <1>1, <1>2, <1>4, <2>1, <2>2 DEF IInv
<1> QED
  BY <1>3, <1>4

(* Every step keeps the invariant,                                          *)
LEMMA Inductive == IInv /\ [Next]_vars => IInv'
BY DescendInv, RetreatInv, ProcessInv, EndPassInv, StutterInv DEF Next

(* so it holds throughout build_dominator_tree (dominance.py:66-107): idom   *)
(* is at all times a tree whose chains pass by no dominator.                *)
THEOREM Invariance == Spec => []IInv
<1>1. Init => IInv
  BY InitInv
<1>2. IInv /\ [Next]_vars => IInv'
  BY Inductive
<1> QED
  BY <1>1, <1>2, PTL DEF Spec

-----------------------------------------------------------------------------
(* When a pass changed nothing, every block that can be reached has the     *)
(* meet of its predecessors.                                                *)
Fixed ==
  /\ TypeOK /\ DepthFirst /\ Upwards /\ NonePassed
  /\ DOMAIN idom = Ordered
  /\ \A b \in Ordered \ {Entry} : idom[b] = NewIdom(b)

(* When build_dominator_tree returns, its last pass changed nothing.        *)
LEMMA DoneFixed == IInv /\ phase = "done" => Fixed
<1> SUFFICES ASSUME IInv, phase = "done" PROVE Fixed
  OBVIOUS
<1>1. /\ TypeOK /\ DepthFirst /\ Upwards /\ NonePassed /\ Processed
  BY DEF IInv
<1>2. ~ changed /\ i = Len(order) + 1 /\ Len(order) \in Nat
  BY <1>1 DEF Processed, TypeOK
<1>3. \A k \in 1 .. Len(order) : order[k] \in DOMAIN idom
  BY <1>1, <1>2 DEF Processed
<1>4. \A k \in 2 .. Len(order) : idom[order[k]] = NewIdom(order[k])
  BY <1>1, <1>2 DEF Processed
<1>5. DOMAIN idom = Ordered
  BY <1>1, <1>3 DEF Upwards, Ordered
<1>6. ASSUME NEW b \in Ordered \ {Entry} PROVE idom[b] = NewIdom(b)
  <2>1. PICK k \in 1 .. Len(order) : b = order[k]
    BY DEF Ordered
  <2>2. k # 1
    BY <1>1, <1>6, <2>1, EntryFirst
  <2>3. k \in 2 .. Len(order)
    BY <1>2, <2>1, <2>2
  <2> QED
    BY <1>4, <2>1, <2>3
<1> QED
  BY <1>1, <1>5, <1>6 DEF Fixed

(* Then what is reached around a has a chain around a: a predecessor's      *)
(* chain holds the meet.                                                    *)
LEMMA ChainAround ==
  ASSUME Fixed, NEW a, NEW b \in Reach({a})
  PROVE  \E X \in SUBSET DOMAIN idom : b \in X /\ a \notin X /\ \A x \in X : idom[x] \in X
<1> DEFINE D == DOMAIN idom
           Around(X) == a \notin X /\ \A x \in X : idom[x] \in X
           Y == UNION {X \in SUBSET D : Around(X)}
<1>1. TypeOK /\ DepthFirst /\ Upwards /\ D = Ordered
  BY DEF Fixed
<1>2. Y \in SUBSET Blocks
  BY <1>1, PositionIs DEF DepthFirst
<1>3. Entry # a => Entry \in Y
  <2>1. {Entry} \in SUBSET D /\ idom[Entry] = Entry
    BY <1>1 DEF Upwards
  <2> QED
    BY <2>1
<1>4. ASSUME NEW y \in Y, NEW s \in succ[y], s # a PROVE s \in Y
  <2>1. PICK X \in SUBSET D : Around(X) /\ y \in X
    OBVIOUS
  <2>2. s \in D
    BY <1>1, <2>1 DEF DepthFirst
  <2>3. CASE s = Entry
    BY <1>3, <1>4, <2>3
  <2>4. CASE s # Entry
    <3>1. NewIdom(s) \in X
      BY <1>1, <2>1, NewIdomReaches
    <3>2. idom[s] = NewIdom(s)
      BY <1>1, <2>2, <2>4 DEF Fixed
    <3>3. X \cup {s} \in SUBSET D /\ Around(X \cup {s})
      BY <1>4, <2>1, <2>2, <3>1, <3>2
    <3> HIDE DEF Around
    <3> QED
      BY <3>3
  <2> QED
    BY <2>3, <2>4
<1>5. Closed(Y, {a})
  <2> HIDE DEF Y
  <2> QED
    BY <1>3, <1>4 DEF Closed
<1>6. Reach({a}) \subseteq Y
  <2> HIDE DEF Y
  <2> QED
    BY <1>1, <1>2, <1>5, ReachIs DEF TypeOK
<1> QED
  BY <1>6

(* So a block's idom dominates it.                                          *)
LEMMA IdomDominates ==
  ASSUME Fixed, NEW b \in Ordered \ {Entry}
  PROVE  /\ idom[b] \in Ordered /\ StrictlyDominates(idom[b], b)
         /\ \A a \in Blocks : StrictlyDominates(a, b) => Dominates(a, idom[b])
<1>1. /\ TypeOK /\ DepthFirst /\ Upwards /\ NonePassed /\ DOMAIN idom = Ordered
      /\ Ordered = Reachable /\ Distinct(order)
  BY OrderedReached DEF Fixed, DepthFirst
<1>2. idom[b] \in Ordered /\ Position(idom[b]) < Position(b)
  BY <1>1 DEF Upwards
<1>3. idom[b] # b
  <2>1. Position(b) \in Nat
    BY <1>1, PositionIs
  <2> QED
    BY <1>2, <2>1
<1>4. b \notin Reach({idom[b]})
  BY ChainAround
<1>5. StrictlyDominates(idom[b], b)
  BY <1>1, <1>3, <1>4 DEF StrictlyDominates, Dominates
<1> QED
  BY <1>1, <1>2, <1>5 DEF NonePassed

(* dominance.py:66-87: when the loop ends idom has the blocks that can be   *)
(* reached, each with its immediate dominator.                              *)
THEOREM IdomIsImmediate == Spec => []ImmediateDominators
<1>1. IInv => ImmediateDominators
  <2> SUFFICES ASSUME IInv, phase = "done"
               PROVE  /\ DOMAIN idom = Reachable
                      /\ \A b \in Reachable \ {Entry} :
                           /\ StrictlyDominates(idom[b], b)
                           /\ \A a \in Reachable : StrictlyDominates(a, b) => Dominates(a, idom[b])
    BY DEF ImmediateDominators
  <2>1. Fixed
    BY DoneFixed
  <2>2. Ordered = Reachable /\ DOMAIN idom = Ordered /\ Reachable \subseteq Blocks
    BY <2>1, OrderedReached, PositionIs DEF Fixed, DepthFirst
  <2> QED
    BY <2>1, <2>2, IdomDominates
<1> QED
  BY <1>1, Invariance, PTL

-----------------------------------------------------------------------------
(* The way up from a block: Climb is the walk of `dominates` and of the     *)
(* frontier's runner.                                                       *)
LEMMA ClimbIs ==
  ASSUME Upwards, NEW b
  PROVE  /\ Climb(b)[0] = b
         /\ \A n \in 1 .. Size :
              Climb(b)[n] = IF Climb(b)[n-1] \in DOMAIN idom THEN idom[Climb(b)[n-1]] ELSE Climb(b)[n-1]
<1> DEFINE S == DOMAIN idom \cup {b}
           Up(x) == IF x \in DOMAIN idom THEN idom[x] ELSE x
           step == [n \in 1 .. Size |-> [x \in S |-> Up(x)]]
           g == Climb(b)
<1>1. Size \in Nat
  BY DominanceAssumption
<1>2. \A x \in S : Up(x) \in S
  BY DEF Upwards
<1>3. step \in [1 .. Size -> [S -> S]] /\ \A n \in 1 .. Size, x \in S : step[n][x] = Up(x)
  <2> HIDE DEF Up
  <2> QED
    BY <1>2
<1>4. b \in S
  OBVIOUS
<1> HIDE DEF step
<1>5. PICK f \in [0 .. Size -> S] : Solves(f, Size, b, step)
  <2> HIDE DEF S
  <2> QED
    BY <1>1, <1>3, <1>4, RecursionExists
<1>6. f \in [0 .. Size -> S] /\ f = [n \in 0 .. Size |-> IF n = 0 THEN b ELSE step[n][f[n-1]]]
  <2> HIDE DEF S
  <2> QED
    BY <1>5 DEF Solves
<1>7. f = [n \in 0 .. Size |-> IF n = 0 THEN b ELSE Up(f[n-1])]
  <2> HIDE DEF S, Up
  <2>1. ASSUME NEW n \in 0 .. Size, n # 0 PROVE step[n][f[n-1]] = Up(f[n-1])
    <3>1. n - 1 \in 0 .. Size /\ n \in 1 .. Size
      BY <2>1, <1>1
    <3> QED
      BY <3>1, <1>3, <1>6
  <2> QED
    BY <2>1, <1>6
<1>8. g = [n \in 0 .. Size |-> IF n = 0 THEN b ELSE Up(g[n-1])]
  <2> HIDE DEF S
  <2> QED
    BY <1>7, Zenon DEF Climb
<1> HIDE DEF g
<1>9. g[0] = b /\ \A n \in 1 .. Size : g[n] = Up(g[n-1])
  <2> HIDE DEF Up
  <2>1. 0 \in 0 .. Size /\ \A n \in 1 .. Size : n \in 0 .. Size /\ n # 0
    BY <1>1
  <2> QED
    BY <1>8, <2>1
<1> QED
  BY <1>9 DEF g

(* There are no more positions than blocks.                                 *)
LEMMA OrderLength ==
  ASSUME TypeOK, Distinct(order)
  PROVE  Len(order) <= Size
<1>1. Len(order) \in Nat /\ Size \in Nat /\ order \in [1 .. Len(order) -> Blocks]
  BY DominanceAssumption DEF TypeOK
<1>2. /\ IsFiniteSet(1 .. Len(order)) /\ Cardinality(1 .. Len(order)) = Len(order)
      /\ IsFiniteSet(Blocks) /\ Cardinality(Blocks) = Size
  <2>1. ASSUME NEW n \in Nat PROVE IsFiniteSet(1 .. n) /\ Cardinality(1 .. n) = n
    <3>1. /\ IsFiniteSet(1 .. n)
          /\ Cardinality(1 .. n) = IF 1 > n THEN 0 ELSE n - 1 + 1
      BY FS_Interval
    <3> QED
      BY <3>1
  <2> QED
    BY <1>1, <2>1 DEF Blocks
<1>3. CASE Size < Len(order)
  <2>1. \E j, k \in 1 .. Len(order) : j # k /\ order[j] = order[k]
    BY <1>1, <1>2, <1>3, FS_PigeonHole
  <2> QED
    BY <2>1 DEF Distinct
<1> QED
  BY <1>1, <1>3

(* A block's chain is the least set that has the block and that idom does   *)
(* not leave: it goes on to the entry.                                      *)
LEMMA ChainLeast ==
  ASSUME Upwards, NEW b, NEW X, b \in X, \A x \in X \cap DOMAIN idom : idom[x] \in X
  PROVE  Chain(b) \subseteq X
<1> DEFINE Bad == {n \in 0 .. Size : Climb(b)[n] \notin X}
<1>1. Size \in Nat
  BY DominanceAssumption
<1>2. ASSUME NEW n \in Bad, \A j \in Bad : n <= j PROVE FALSE
  <2>1. n \in 0 .. Size /\ n # 0 /\ Climb(b)[n] \notin X
    BY ClimbIs
  <2>2. n \in 1 .. Size /\ n - 1 \in 0 .. Size /\ ~ (n <= n - 1)
    BY <2>1, <1>1
  <2>3. Climb(b)[n-1] \in X
    BY <1>2, <2>2
  <2> QED
    BY <2>1, <2>2, <2>3, ClimbIs
<1>3. Bad = {}
  <2>1. Bad \subseteq Nat
    OBVIOUS
  <2> HIDE DEF Bad
  <2> QED
    BY <1>2, <2>1, LeastExists
<1> QED
  BY <1>3 DEF Chain

(* A chain has its block and the entry, and goes on with idom.              *)
LEMMA ChainIs ==
  ASSUME TypeOK, DepthFirst, Upwards, NEW b \in DOMAIN idom
  PROVE  /\ b \in Chain(b) /\ Entry \in Chain(b) /\ Chain(b) \subseteq DOMAIN idom
         /\ \A x \in Chain(b) : idom[x] \in Chain(b)
<1> DEFINE g == Climb(b)
           Bad == {n \in 0 .. Size : ~ (g[n] = Entry \/ Position(g[n]) + n <= Len(order))}
<1>1. Size \in Nat /\ Size >= 1 /\ Len(order) \in Nat /\ Len(order) <= Size /\ 0 \in 0 .. Size
  BY DominanceAssumption, OrderLength DEF TypeOK, DepthFirst
<1>2. Chain(b) \subseteq DOMAIN idom
  BY ChainLeast DEF Upwards
<1>3. g[0] = b /\ \A n \in 1 .. Size : g[n] = IF g[n-1] \in DOMAIN idom THEN idom[g[n-1]] ELSE g[n-1]
  BY ClimbIs
<1>4. Chain(b) = {g[n] : n \in 0 .. Size}
  BY DEF Chain
<1> HIDE DEF g
<1>5. \A n \in 0 .. Size : g[n] \in DOMAIN idom
  BY <1>2, <1>4
<1>6. \A x \in DOMAIN idom : Position(x) \in 1 .. Len(order)
  BY PositionIs DEF DepthFirst, Upwards
<1>7. ASSUME NEW n \in 1 .. Size PROVE g[n] = idom[g[n-1]]
  <2>1. n - 1 \in 0 .. Size
    BY <1>1
  <2> QED
    BY <2>1, <1>3, <1>5
<1>8. ASSUME NEW n \in Bad, \A j \in Bad : n <= j PROVE FALSE
  <2>1. n \in 0 .. Size /\ g[n] # Entry /\ ~ (Position(g[n]) + n <= Len(order))
    OBVIOUS
  <2>2. n # 0
    BY <2>1, <1>3, <1>6, <1>1
  <2>3. n \in 1 .. Size /\ n - 1 \in 0 .. Size /\ ~ (n <= n - 1)
    BY <2>1, <2>2, <1>1
  <2>4. g[n-1] = Entry \/ Position(g[n-1]) + (n - 1) <= Len(order)
    BY <1>8, <2>3
  <2>5. g[n] = idom[g[n-1]] /\ g[n-1] \in DOMAIN idom /\ g[n] \in DOMAIN idom
    BY <2>1, <2>3, <1>5, <1>7
  <2>6. g[n-1] # Entry
    BY <2>1, <2>5 DEF Upwards
  <2>7. Position(g[n]) < Position(g[n-1])
    BY <2>5, <2>6 DEF Upwards
  <2> QED
    BY <2>1, <2>3, <2>4, <2>5, <2>6, <2>7, <1>1, <1>6
<1>9. Bad = {}
  <2>1. Bad \subseteq Nat
    OBVIOUS
  <2> HIDE DEF Bad
  <2> QED
    BY <1>8, <2>1, LeastExists
<1>10. g[Size] = Entry
  <2>1. Size \in 0 .. Size
    BY <1>1
  <2>2. Position(g[Size]) \in 1 .. Len(order)
    BY <2>1, <1>5, <1>6
  <2>3. g[Size] = Entry \/ Position(g[Size]) + Size <= Len(order)
    BY <2>1, <1>9
  <2> QED
    BY <2>2, <2>3, <1>1
<1>11. ASSUME NEW x \in Chain(b) PROVE idom[x] \in Chain(b)
  <2>1. PICK n \in 0 .. Size : x = g[n]
    BY <1>4
  <2>2. CASE n = Size
    BY <2>1, <2>2, <1>4, <1>10 DEF Upwards
  <2>3. CASE n # Size
    <3>1. n + 1 \in 1 .. Size /\ n + 1 \in 0 .. Size /\ (n + 1) - 1 = n
      BY <2>3, <1>1
    <3>2. g[n + 1] = idom[x]
      BY <2>1, <3>1, <1>7
    <3> QED
      BY <3>1, <3>2, <1>4
  <2> QED
    BY <2>2, <2>3
<1>12. b \in Chain(b) /\ Entry \in Chain(b)
  <2>1. Size \in 0 .. Size
    BY <1>1
  <2> QED
    BY <2>1, <1>1, <1>3, <1>4, <1>10
<1> QED
  BY <1>2, <1>11, <1>12

(* A block that cannot be reached is its own chain.                         *)
LEMMA ChainAlone ==
  ASSUME Upwards, NEW b, b \notin DOMAIN idom
  PROVE  Chain(b) \subseteq {b}
BY ChainLeast

(* A reachable block's chain is what dominates it (DominatorTree.dominates, *)
(* dominance.py:31-36).                                                     *)
LEMMA ChainDominates ==
  ASSUME Fixed, NEW b \in Ordered, NEW a \in Blocks
  PROVE  a \in Chain(b) <=> Dominates(a, b)
<1>1. /\ TypeOK /\ DepthFirst /\ Upwards /\ NonePassed /\ DOMAIN idom = Ordered
      /\ Ordered = Reachable
  BY OrderedReached DEF Fixed
<1>2. ASSUME a \in Chain(b) PROVE Dominates(a, b)
  <2>1. b \notin Reach({a})
    <3> SUFFICES ASSUME b \in Reach({a}) PROVE FALSE
      OBVIOUS
    <3>1. PICK X \in SUBSET DOMAIN idom : b \in X /\ a \notin X /\ \A x \in X : idom[x] \in X
      BY ChainAround
    <3>2. Chain(b) \subseteq X
      BY <1>1, <3>1, ChainLeast
    <3> QED
      BY <1>2, <3>1, <3>2
  <2> QED
    BY <1>1, <2>1 DEF Dominates
<1>3. ASSUME Dominates(a, b), a \notin Chain(b) PROVE FALSE
  <2> DEFINE X == {x \in Chain(b) : Dominates(a, x)}
  <2>1. /\ b \in Chain(b) /\ Entry \in Chain(b) /\ Chain(b) \subseteq DOMAIN idom
        /\ \A x \in Chain(b) : idom[x] \in Chain(b)
    BY <1>1, ChainIs
  <2>2. ~ Dominates(a, Entry)
    <3>1. a # Entry /\ Closed(Reach({a}), {a})
      BY <1>1, <1>3, <2>1, ReachIs DEF TypeOK
    <3> QED
      BY <3>1 DEF Dominates, Closed
  <2>3. ASSUME NEW x \in X PROVE idom[x] \in X
    <3>1. x # a /\ x # Entry /\ x \in DOMAIN idom /\ Dominates(a, x)
      BY <1>3, <2>1, <2>2
    <3>2. Dominates(a, idom[x])
      BY <1>1, <3>1 DEF NonePassed, StrictlyDominates
    <3> QED
      BY <2>1, <3>2
  <2>4. b \in X
    BY <1>3, <2>1
  <2>5. Chain(b) \subseteq X
    <3> HIDE DEF X
    <3> QED
      BY <1>1, <2>3, <2>4, ChainLeast
  <2> QED
    BY <2>1, <2>2, <2>5
<1> QED
  BY <1>2, <1>3

-----------------------------------------------------------------------------
(* A block with one processed predecessor has it as its immediate dominator.*)
LEMMA OnlyPredecessor ==
  ASSUME Fixed, NEW b \in Ordered \ {Entry}, NEW p \in Ordered, PredecessorSet(b) = {p}
  PROVE  idom[b] = p
<1>1. /\ TypeOK /\ DepthFirst /\ Upwards /\ DOMAIN idom = Ordered
      /\ Ordered \subseteq Blocks /\ idom[b] = NewIdom(b)
  BY PositionIs DEF Fixed, DepthFirst
<1>2. b \in succ[p] /\ \A q \in DOMAIN idom : b \in succ[q] => q = p
  BY <1>1 DEF PredecessorSet
<1> DEFINE P == {<<p, p>>}
<1>3. Keeps(P)
  BY <1>1 DEF Keeps
<1>4. \A m : <<m, m>> \in P => m = p
  OBVIOUS
<1> HIDE DEF P
<1>5. <<p, p>> \in P
  BY DEF P
<1>6. Intersect(p, p) = p
  BY <1>1, <1>3, <1>4, <1>5, IntersectKeeps
<1> DEFINE X == {p}
<1>7. X \in SUBSET DOMAIN idom /\ (\A x, y \in X : Intersect(x, y) \in X)
      /\ \A q \in DOMAIN idom : b \in succ[q] => q \in X
  BY <1>1, <1>2, <1>6
<1> HIDE DEF X
<1>8. NewIdom(b) \in X
  BY <1>1, <1>2, <1>7, NewIdomKeeps
<1> QED
  BY <1>1, <1>8 DEF X

(* A block on the chain of a predecessor of b and not above b's immediate   *)
(* dominator dominates the predecessor, not b.                              *)
LEMMA NotAbove ==
  ASSUME Fixed, NEW b \in Ordered \ {Entry}, NEW r \in Ordered
  PROVE  r \in Chain(idom[b]) <=> StrictlyDominates(r, b)
<1>1. /\ TypeOK /\ DepthFirst /\ Upwards /\ Ordered \subseteq Blocks /\ Distinct(order)
      /\ DOMAIN idom = Ordered
  BY PositionIs DEF Fixed, DepthFirst
<1>2. /\ idom[b] \in Ordered /\ StrictlyDominates(idom[b], b)
      /\ StrictlyDominates(r, b) => Dominates(r, idom[b])
  BY <1>1, IdomDominates
<1>3. r \in Chain(idom[b]) <=> Dominates(r, idom[b])
  BY <1>1, <1>2, ChainDominates
<1>4. ASSUME Dominates(r, idom[b]) PROVE StrictlyDominates(r, b)
  <2>1. Dominates(r, b)
    BY <1>1, <1>2, <1>4, DominatesTransitive DEF StrictlyDominates
  <2>2. Position(r) <= Position(idom[b]) /\ Position(idom[b]) < Position(b)
    BY <1>1, <1>2, <1>4, DominatorsFirst DEF Upwards
  <2>3. Position(r) \in Nat /\ Position(idom[b]) \in Nat /\ Position(b) \in Nat
    BY <1>1, <1>2, PositionIs
  <2>4. r # b
    BY <2>2, <2>3
  <2> QED
    BY <2>1, <2>4 DEF StrictlyDominates
<1> QED
  BY <1>2, <1>3, <1>4

(* The frontier by runners is the frontier by definition (dominance.py:90-  *)
(* 100), in a function whose entry nothing jumps back to.                   *)
LEMMA FrontierIs ==
  ASSUME Fixed, PredecessorSet(Entry) \cap Reachable = {}, NEW r \in Reachable, NEW b \in Reachable
  PROVE  b \in Frontier(r) <=> InFrontier(r, b)
<1>1. /\ TypeOK /\ DepthFirst /\ DOMAIN idom = Ordered /\ Ordered = Reachable
      /\ Ordered \subseteq Blocks
  BY OrderedReached, PositionIs DEF Fixed, DepthFirst
<1>2. CASE b = Entry
  BY <1>1, <1>2 DEF Frontier, InFrontier
<1>3. CASE b # Entry
  <2>1. \A p \in PredecessorSet(b) \cap Reachable : r \in Chain(p) <=> Dominates(r, p)
    BY <1>1, ChainDominates
  <2>2. r \in Chain(idom[b]) <=> StrictlyDominates(r, b)
    BY <1>1, <1>3, NotAbove
  <2>3. ASSUME b \in Frontier(r) PROVE InFrontier(r, b)
    <3>1. PICK p \in PredecessorSet(b) \cap Reachable : r \in Chain(p) /\ r \notin Chain(idom[b])
      BY <1>1, <2>3 DEF Frontier
    <3> QED
      BY <2>1, <2>2, <3>1 DEF InFrontier
  <2>4. ASSUME InFrontier(r, b) PROVE b \in Frontier(r)
    <3>1. PICK p \in PredecessorSet(b) \cap Reachable : Dominates(r, p)
      BY <2>4 DEF InFrontier
    <3>2. ~ StrictlyDominates(r, b)
      BY <2>4 DEF InFrontier
    <3>3. IsFiniteSet(PredecessorSet(b)) /\ Cardinality(PredecessorSet(b)) \in Nat
      <4>1. IsFiniteSet(Blocks)
        BY DominanceAssumption, FS_Interval DEF Blocks
      <4>2. PredecessorSet(b) \in SUBSET Blocks
        BY DEF PredecessorSet
      <4> QED
        BY <4>1, <4>2, FS_Subset, FS_CardinalityType
    <3>4. Cardinality(PredecessorSet(b)) # 0
      BY <3>1, <3>3, FS_EmptySet
    <3>5. Cardinality(PredecessorSet(b)) # 1
      <4> SUFFICES ASSUME Cardinality(PredecessorSet(b)) = 1 PROVE FALSE
        OBVIOUS
      <4>1. PredecessorSet(b) = {p}
        BY <3>1, <3>3, FS_Singleton
      <4>2. idom[b] = p
        BY <1>1, <1>3, <3>1, <4>1, OnlyPredecessor
      <4> QED
        BY <2>1, <2>2, <3>1, <3>2, <4>2
    <3>6. Cardinality(PredecessorSet(b)) >= 2
      BY <3>3, <3>4, <3>5
    <3>7. p \in PredecessorSet(b) \cap DOMAIN idom /\ r \in Chain(p) \ Chain(idom[b])
      BY <1>1, <2>1, <2>2, <3>1, <3>2
    <3> QED
      BY <1>1, <3>6, <3>7 DEF Frontier
  <2> QED
    BY <2>3, <2>4
<1> QED
  BY <1>2, <1>3

(* dominance.py:89-100: the frontiers are where two definitions meet.       *)
THEOREM FrontiersAreExact == Spec => []FrontiersExact
<1>1. IInv => FrontiersExact
  BY DoneFixed, FrontierIs DEF FrontiersExact
<1> QED
  BY <1>1, Invariance, PTL

-----------------------------------------------------------------------------
(* The backward walk from S that stops at the header holds S and the        *)
(* predecessors of its blocks, the header's aside, and nothing it need not. *)
LEMMA BackwardsIs ==
  ASSUME NEW S \in SUBSET Blocks, NEW header
  PROVE  /\ Backwards(S, header) \in SUBSET Blocks
         /\ S \subseteq Backwards(S, header)
         /\ \A b \in Backwards(S, header) \ {header} : PredecessorSet(b) \subseteq Backwards(S, header)
         /\ \A X \in SUBSET Blocks :
              S \subseteq X /\ (\A b \in X \ {header} : PredecessorSet(b) \subseteq X) =>
                Backwards(S, header) \subseteq X
<1> DEFINE step == [X \in SUBSET Blocks |-> X \cup UNION {PredecessorSet(b) : b \in X \ {header}}]
           grow == CHOOSE f : f = [n \in 0 .. Size |-> IF n = 0 THEN S
                                     ELSE f[n-1] \cup UNION {PredecessorSet(b) : b \in f[n-1] \ {header}}]
<1>1. Size \in Nat /\ Size >= 1
  BY DominanceAssumption
<1>2. \A b : PredecessorSet(b) \subseteq Blocks
  BY DEF PredecessorSet
<1>3. step \in [SUBSET Blocks -> SUBSET Blocks]
  BY <1>2
<1>4. ASSUME NEW X \in SUBSET Blocks
      PROVE  /\ step[X] = X \cup UNION {PredecessorSet(b) : b \in X \ {header}}
             /\ X \subseteq step[X]
             /\ \A b \in X \ {header} : PredecessorSet(b) \subseteq step[X]
             /\ \A s \in step[X] : s \in X \/ \E b \in X \ {header} : s \in PredecessorSet(b)
  OBVIOUS
<1>5. Backwards(S, header) = grow[Size]
  BY DEF Backwards
<1> HIDE DEF step
<1>6. PICK f \in [0 .. Size -> SUBSET Blocks] :
        f = [n \in 0 .. Size |-> IF n = 0 THEN S ELSE step[f[n-1]]]
  BY <1>3, GrowthExists
<1>7. f = [n \in 0 .. Size |-> IF n = 0 THEN S
             ELSE f[n-1] \cup UNION {PredecessorSet(b) : b \in f[n-1] \ {header}}]
  <2>1. \A n \in 0 .. Size : n # 0 => n - 1 \in 0 .. Size
    BY <1>1
  <2>2. f \in [0 .. Size -> SUBSET Blocks]
    OBVIOUS
  <2>3. \A n \in 0 .. Size : n # 0 => f[n-1] \in SUBSET Blocks
    BY <2>1, <2>2
  <2>4. ASSUME NEW n \in 0 .. Size, n # 0
        PROVE  step[f[n-1]] = f[n-1] \cup UNION {PredecessorSet(b) : b \in f[n-1] \ {header}}
    BY <2>3, <2>4, <1>4
  <2> DEFINE Wider(n) == f[n-1] \cup UNION {PredecessorSet(b) : b \in f[n-1] \ {header}}
  <2>5. \A n \in 0 .. Size : n # 0 => step[f[n-1]] = Wider(n)
    BY <2>4
  <2> HIDE DEF Wider
  <2>6. f = [n \in 0 .. Size |-> IF n = 0 THEN S ELSE Wider(n)]
    BY <1>6, <2>5
  <2> QED
    BY <2>6, Zenon DEF Wider
<1>8. Grows(grow, S, step)
  <2>1. grow = [n \in 0 .. Size |-> IF n = 0 THEN S
                  ELSE grow[n-1] \cup UNION {PredecessorSet(b) : b \in grow[n-1] \ {header}}]
    BY <1>7, Zenon
  <2> HIDE DEF grow
  <2>2. grow[0] = S
    BY <1>1, <2>1
  <2>3. ASSUME NEW n \in 1 .. Size, grow[n-1] \in SUBSET Blocks
        PROVE  grow[n] = step[grow[n-1]]
    <3>1. n \in 0 .. Size /\ n # 0
      BY <1>1
    <3>2. grow[n] = grow[n-1] \cup UNION {PredecessorSet(b) : b \in grow[n-1] \ {header}}
      BY <2>1, <3>1
    <3> QED
      BY <2>3, <3>2, <1>4
  <2> QED
    BY <2>2, <2>3 DEF Grows
<1> HIDE DEF grow
<1>9. /\ grow[Size] \in SUBSET Blocks /\ S \subseteq grow[Size] /\ step[grow[Size]] = grow[Size]
  <2>1. \A X \in SUBSET Blocks : X \subseteq step[X]
    BY <1>4
  <2> QED
    BY <1>3, <1>8, <2>1, GrowthStops
<1>10. ASSUME NEW X \in SUBSET Blocks, S \subseteq X, \A b \in X \ {header} : PredecessorSet(b) \subseteq X
       PROVE  Backwards(S, header) \subseteq X
  <2>1. ASSUME NEW Y \in SUBSET X PROVE step[Y] \subseteq X
    BY <1>4, <1>10
  <2> QED
    BY <1>5, <1>8, <1>10, <2>1, GrowthWithin
<1>11. \A b \in Backwards(S, header) \ {header} : PredecessorSet(b) \subseteq Backwards(S, header)
  BY <1>4, <1>5, <1>9
<1> QED
  BY <1>5, <1>9, <1>10, <1>11

(* The blocks a loop's body is collected from are those that jump back to   *)
(* its header and that the header dominates: a jump from a block that       *)
(* cannot be reached is no back edge.                                       *)
LEMMA SourcesAre ==
  ASSUME Fixed, NEW h \in Reachable
  PROVE  {e[1] : e \in {f \in BackEdges : f[2] = h}} =
           {p \in PredecessorSet(h) \cap Reachable : Dominates(h, p)}
<1>1. /\ TypeOK /\ Upwards /\ DOMAIN idom = Ordered /\ Ordered = Reachable /\ Ordered \subseteq Blocks
  BY OrderedReached, PositionIs DEF Fixed, DepthFirst
<1>2. ASSUME NEW p \in Blocks
      PROVE  h \in Chain(p) <=> p \in Reachable /\ Dominates(h, p)
  <2>1. CASE p \in Reachable
    BY <1>1, <2>1, ChainDominates
  <2>2. CASE p \notin Reachable
    BY <1>1, <2>2, ChainAlone
  <2> QED
    BY <2>1, <2>2
<1> DEFINE Back(p) == h \in succ[p] /\ h \in Chain(p)
<1>3. {e[1] : e \in {f \in BackEdges : f[2] = h}} = {p \in Blocks : Back(p)}
  <2>1. ASSUME NEW p \in Blocks, Back(p) PROVE p \in {e[1] : e \in {f \in BackEdges : f[2] = h}}
    <3>1. <<p, h>> \in {f \in BackEdges : f[2] = h}
      BY <1>1, <2>1 DEF BackEdges, TreeDominates
    <3> QED
      BY <3>1
  <2>2. ASSUME NEW e \in BackEdges, e[2] = h PROVE e[1] \in Blocks /\ Back(e[1])
    BY <2>2 DEF BackEdges, TreeDominates
  <2> HIDE DEF Back
  <2> QED
    BY <2>1, <2>2
<1>4. PredecessorSet(h) = {p \in Blocks : h \in succ[p]}
  BY DEF PredecessorSet
<1> QED
  BY <1>2, <1>3, <1>4

(* The body of h's loop has the blocks that jump back to h, h dominates all *)
(* of it, and every way from outside it goes through h.                     *)
LEMMA NaturalLoop ==
  ASSUME Fixed, NEW h \in Reachable
  PROVE  LET sources == {p \in PredecessorSet(h) \cap Reachable : Dominates(h, p)}
             L == LoopBlocks(h) \cap Reachable
         IN  /\ sources \subseteq L
             /\ \A b \in L : Dominates(h, b)
             /\ \A u \in Reachable \ L : succ[u] \cap L \subseteq {h}
             /\ \A b \in L \ {h} : succ[b] \cap L # {}
<1> DEFINE sources == {p \in PredecessorSet(h) \cap Reachable : Dominates(h, p)}
           body == Backwards(sources, h)
           L == LoopBlocks(h) \cap Reachable
<1>1. /\ TypeOK /\ Closed(Reachable, {}) /\ Reachable \subseteq Blocks
      /\ succ \in [Blocks -> SUBSET Blocks]
  BY ReachIs DEF Fixed, TypeOK, Reachable
<1>2. sources \in SUBSET Blocks /\ \A p \in sources : h \in succ[p]
  BY DEF PredecessorSet
<1>3. L = ({h} \cup body) \cap Reachable
  BY SourcesAre DEF LoopBlocks
<1>4. /\ body \in SUBSET Blocks /\ sources \subseteq body
      /\ \A b \in body \ {h} : PredecessorSet(b) \subseteq body
  <2> HIDE DEF sources
  <2> QED
    BY <1>2, BackwardsIs
<1>5. ASSUME NEW X \in SUBSET Blocks, sources \subseteq X, \A b \in X \ {h} : PredecessorSet(b) \subseteq X
      PROVE  body \subseteq X
  <2> HIDE DEF sources
  <2> QED
    BY <1>2, <1>5, BackwardsIs
<1>6. \A b \in Blocks, u \in Blocks : u \in PredecessorSet(b) <=> b \in succ[u]
  BY DEF PredecessorSet
<1> HIDE DEF body, L
<1>7. sources \subseteq L
  BY <1>3, <1>4
<1>8. ASSUME NEW b \in L PROVE Dominates(h, b)
  <2> DEFINE X == {c \in Blocks : c \in Reachable => Dominates(h, c)}
  <2>1. sources \subseteq X
    BY <1>2
  <2>2. ASSUME NEW c \in X \ {h}, NEW p \in PredecessorSet(c) PROVE p \in X
    <3>1. p \in Blocks /\ c \in succ[p]
      BY DEF PredecessorSet
    <3>2. ASSUME p \in Reachable PROVE Dominates(h, p)
      <4>1. c \in Reachable
        BY <1>1, <3>1, <3>2 DEF Closed
      <4>2. StrictlyDominates(h, c)
        BY <4>1 DEF StrictlyDominates
      <4> QED
        BY <1>1, <3>1, <3>2, <4>2, DominatesPredecessor
    <3> QED
      BY <3>1, <3>2
  <2>3. body \subseteq X
    <3> HIDE DEF sources
    <3>1. X \in SUBSET Blocks
      OBVIOUS
    <3> HIDE DEF X
    <3> QED
      BY <1>5, <2>1, <2>2, <3>1
  <2>4. CASE b = h
    BY <2>4 DEF Dominates
  <2>5. CASE b # h
    BY <1>3, <2>3, <2>5
  <2> QED
    BY <2>4, <2>5
<1>9. ASSUME NEW u \in Reachable \ L, NEW s \in succ[u] \cap L PROVE s = h
  <2> SUFFICES ASSUME s # h PROVE FALSE
    OBVIOUS
  <2>1. s \in body \ {h} /\ u \in Blocks /\ s \in Blocks
    BY <1>1, <1>3, <1>4
  <2>2. u \in body
    BY <2>1, <1>4, <1>6
  <2> QED
    BY <2>2, <1>3
<1>10. ASSUME NEW b \in L \ {h} PROVE succ[b] \cap L # {}
  <2> DEFINE X == {c \in body : succ[c] \cap ({h} \cup body) # {}}
  <2>1. X \in SUBSET Blocks /\ sources \subseteq X
    BY <1>2, <1>4
  <2>2. ASSUME NEW c \in X \ {h}, NEW p \in PredecessorSet(c) PROVE p \in X
    BY <1>4 DEF PredecessorSet
  <2>3. body \subseteq X
    <3> HIDE DEF sources, X
    <3> QED
      BY <1>5, <2>1, <2>2
  <2>4. PICK s \in succ[b] : s \in {h} \cup body
    BY <1>3, <2>3
  <2>5. s \in Reachable
    BY <1>1, <1>3, <2>4 DEF Closed
  <2> QED
    BY <1>3, <2>4, <2>5
<1> QED
  BY <1>7, <1>8, <1>9, <1>10 DEF L

(* dominance.py:110-137: a loop is what its header dominates and what comes *)
(* back to it.                                                              *)
THEOREM LoopsAreNaturalLoops == Spec => []LoopsAreNatural
<1>1. IInv => LoopsAreNatural
  BY DoneFixed, NaturalLoop DEF LoopsAreNatural
<1> QED
  BY <1>1, Invariance, PTL

=============================================================================
