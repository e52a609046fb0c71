--------------------------- MODULE DestructProofs ---------------------------
(***************************************************************************)
(* SSA destruction: the sequentialized copies of an edge compute the        *)
(* simultaneous assignment for every number of values, every assignment and *)
(* every store, and the rewritten function goes through the blocks the SSA  *)
(* function goes through, for every function with numbered blocks.          *)
(***************************************************************************)
EXTENDS Destruct, ParallelCopy, Lemmas, FiniteSetTheorems, TLAPS

(* A partial map is a function from some subset of the values.              *)
LEMMA PartialMapsDef ==
  ASSUME NEW S, NEW f \in PartialMaps(S)
  PROVE  DOMAIN f \subseteq S /\ f \in [DOMAIN f -> S]
BY DEF PartialMaps

LEMMA InitInv == CopyInit => IInv
<1> SUFFICES ASSUME CopyInit PROVE IInv
  OBVIOUS
<1> USE CountAssumption DEF CopyInit
<1>1. DOMAIN pairs \subseteq SsaValue /\ pairs \in [DOMAIN pairs -> SsaValue]
  BY PartialMapsDef
<1>2. TypeOK
  BY <1>1 DEF TypeOK, SsaValue
<1>3. PairsServed /\ OthersKept /\ BatchIsFree
  BY <1>1 DEF PairsServed, OthersKept, BatchIsFree
<1> QED
  BY <1>2, <1>3 DEF IInv

LEMMA FindReadyInv == IInv /\ FindReady => IInv'
<1> SUFFICES ASSUME IInv, FindReady PROVE IInv'
  OBVIOUS
<1>1. TypeOK'
  BY DEF IInv, TypeOK, FindReady, ReadySet
<1>2. PairsServed' /\ OthersKept'
  BY DEF IInv, FindReady, PairsServed, OthersKept
<1>3. BatchIsFree'
  BY DEF IInv, FindReady, BatchIsFree, ReadySet, Sources
<1> QED
  BY <1>1, <1>2, <1>3 DEF IInv

LEMMA EmitReadyInv ==
  ASSUME IInv, NEW dst \in SsaValue, EmitReady(dst)
  PROVE  IInv'
<1> USE CountAssumption
<1>0. /\ dst \in DOMAIN pending
      /\ DOMAIN pending' = DOMAIN pending \ {dst}
      /\ \A d \in DOMAIN pending' : pending'[d] = pending[d]
      /\ pending[dst] \in 0 .. values-1
      /\ dst \in 0 .. values-1
      /\ ready' = ready \ {dst}
      /\ UNCHANGED <<pairs, values, old>>
  BY DEF IInv, TypeOK, EmitReady, Without, SsaValue
<1>1. store' = [store EXCEPT ![dst] = store[pending[dst]]]
  <2>1. CASE pending[dst] = dst
    BY <1>0, <2>1 DEF IInv, TypeOK, EmitReady
  <2>2. CASE pending[dst] # dst
    BY <2>2 DEF EmitReady, Run
  <2> QED BY <2>1, <2>2
<1>2. TypeOK'
  <2>1. pending' \in [DOMAIN pending' -> 0 .. values'-1]
    BY <1>0 DEF IInv, TypeOK, EmitReady, Without
  <2>2. store' \in [0 .. values'-1 -> Contents]
    BY <1>0, <1>1 DEF IInv, TypeOK
  <2> QED
    BY <1>0, <2>1, <2>2 DEF IInv, TypeOK
<1>3. PairsServed'
  <2> SUFFICES ASSUME NEW d \in DOMAIN pairs
               PROVE  IF d \in DOMAIN pending'
                        THEN store'[pending'[d]] = old[pairs[d]]
                        ELSE store'[d] = old[pairs[d]]
    BY <1>0 DEF PairsServed
  <2>0. d \in SsaValue
    BY PartialMapsDef DEF IInv, TypeOK
  <2>1. CASE d \in DOMAIN pending'
    <3>1. pending[d] # dst \/ pending[dst] = dst
      BY <1>0, <2>1 DEF IInv, BatchIsFree, Sources, EmitReady
    <3>2. store'[pending[d]] = store[pending[d]]
      BY <1>0, <1>1, <2>1, <3>1 DEF IInv, TypeOK
    <3> QED
      BY <1>0, <2>1, <3>2 DEF IInv, PairsServed
  <2>2. CASE d = dst
    BY <1>0, <1>1, <2>2 DEF IInv, PairsServed, TypeOK
  <2>3. CASE d \notin DOMAIN pending' /\ d # dst
    <3>1. store'[d] = store[d]
      BY <1>1, <2>0, <2>3, <1>0 DEF IInv, TypeOK, SsaValue
    <3> QED
      BY <1>0, <2>3, <3>1 DEF IInv, PairsServed
  <2> QED BY <2>1, <2>2, <2>3
<1>4. OthersKept'
  BY <1>0, <1>1 DEF IInv, TypeOK, OthersKept, SsaValue
<1>5. BatchIsFree'
  <2> SUFFICES ASSUME NEW d \in ready'
               PROVE  pending'[d] = d \/ d \notin Sources'
    BY DEF BatchIsFree
  <2>1. d \in ready /\ d \in DOMAIN pending'
    BY <1>0 DEF IInv, TypeOK
  <2>2. Sources' \subseteq Sources
    BY <1>0 DEF Sources
  <2> QED
    BY <1>0, <2>1, <2>2 DEF IInv, BatchIsFree
<1> QED
  BY <1>2, <1>3, <1>4, <1>5 DEF IInv

LEMMA BreakCycleInv ==
  ASSUME IInv, NEW dst \in SsaValue, BreakCycle(dst)
  PROVE  IInv'
<1> USE CountAssumption
<1>0. /\ dst \in DOMAIN pending
      /\ values \in Nat /\ Count <= values /\ values' = values + 1
      /\ pending[dst] \in 0 .. values-1
      /\ pending' = [pending EXCEPT ![dst] = values]
      /\ store' = [v \in 0 .. values |-> IF v = values THEN store[pending[dst]]
                                                     ELSE store[v]]
      /\ ready = {} /\ UNCHANGED <<pairs, ready, old>>
  BY DEF IInv, TypeOK, BreakCycle
<1>1. TypeOK'
  BY <1>0 DEF IInv, TypeOK
<1>2. PairsServed'
  <2> SUFFICES ASSUME NEW d \in DOMAIN pairs
               PROVE  IF d \in DOMAIN pending'
                        THEN store'[pending'[d]] = old[pairs[d]]
                        ELSE store'[d] = old[pairs[d]]
    BY <1>0 DEF PairsServed
  <2>0. d \in 0 .. values-1 /\ d # values
    BY <1>0, PartialMapsDef DEF IInv, TypeOK, SsaValue
  <2>1. CASE d = dst
    BY <1>0, <2>1 DEF IInv, TypeOK, PairsServed
  <2>2. CASE d \in DOMAIN pending /\ d # dst
    <3>1. pending'[d] = pending[d] /\ pending[d] \in 0 .. values-1
      BY <1>0, <2>2 DEF IInv, TypeOK
    <3>2. store'[pending[d]] = store[pending[d]]
      BY <1>0, <3>1
    <3> QED
      BY <1>0, <2>2, <3>1, <3>2 DEF IInv, TypeOK, PairsServed
  <2>3. CASE d \notin DOMAIN pending
    <3>1. store'[d] = store[d]
      BY <1>0, <2>0
    <3> QED
      BY <1>0, <2>3, <3>1 DEF IInv, TypeOK, PairsServed
  <2> QED BY <2>1, <2>2, <2>3
<1>3. OthersKept'
  BY <1>0 DEF IInv, TypeOK, OthersKept, SsaValue
<1>4. BatchIsFree'
  BY <1>0 DEF BatchIsFree
<1> QED
  BY <1>1, <1>2, <1>3, <1>4 DEF IInv

LEMMA NextInv == IInv /\ [CopyNext]_copyVars => IInv'
<1> SUFFICES ASSUME IInv, [CopyNext]_copyVars PROVE IInv'
  OBVIOUS
<1>1. CASE FindReady
  BY <1>1, FindReadyInv
<1>2. ASSUME NEW dst \in SsaValue, EmitReady(dst) PROVE IInv'
  BY <1>2, EmitReadyInv
<1>3. ASSUME NEW dst \in SsaValue, BreakCycle(dst) PROVE IInv'
  BY <1>3, BreakCycleInv
<1>4. CASE UNCHANGED copyVars
  BY <1>4 DEF copyVars, IInv, TypeOK, PairsServed, OthersKept, BatchIsFree, Sources
<1> QED
  BY <1>1, <1>2, <1>3, <1>4 DEF CopyNext

(* The inductive invariant: types, pending pairs still servable, emitted    *)
(* pairs final, all other values untouched.                                 *)
THEOREM Invariance == CopySpec => []IInv
<1> QED
  BY InitInv, NextInv, PTL DEF CopySpec

(* destruct.py:22-28 for every edge: when the worklist is empty the store   *)
(* is the one the simultaneous assignment of the phis produces.             *)
THEOREM Correctness == CopySpec => []ParallelResult
<1>1. IInv => ParallelResult
  <2> SUFFICES ASSUME IInv, Done, NEW v \in SsaValue
               PROVE  store[v] = IF v \in DOMAIN pairs THEN old[pairs[v]]
                                                     ELSE old[v]
    BY DEF ParallelResult
  <2> QED
    BY DEF IInv, PairsServed, OthersKept, Done
<1> QED
  BY <1>1, Invariance, PTL

-----------------------------------------------------------------------------
(* Refinement: every step but the one that empties the worklist stutters.   *)
LEMMA StepImplements ==
  ASSUME IInv, IInv', [CopyNext]_copyVars
  PROVE  [Abstract!Assign]_<<IF Done THEN [v \in SsaValue |-> store[v]] ELSE old,
                             Done /\ DOMAIN pairs # {}, pairs>>
<1>0. pairs' = pairs /\ old' = old
  BY DEF CopyNext, copyVars, FindReady, EmitReady, BreakCycle
<1>1. CASE ~Done'
  <2>1. ~Done
    BY <1>1 DEF Done, CopyNext, copyVars, FindReady, EmitReady, BreakCycle, Without
  <2> QED
    BY <1>0, <1>1, <2>1
<1>2. CASE Done
  <2>1. pending' = pending /\ store' = store
    <3>1. ASSUME NEW dst \in SsaValue, EmitReady(dst) PROVE FALSE
      BY <1>2, <3>1 DEF Done, EmitReady, IInv, TypeOK
    <3>2. ASSUME NEW dst \in SsaValue, BreakCycle(dst) PROVE FALSE
      BY <1>2, <3>2 DEF Done, BreakCycle
    <3> QED
      BY <3>1, <3>2 DEF CopyNext, copyVars, FindReady
  <2> QED
    BY <1>0, <2>1 DEF Done
<1>3. CASE ~Done /\ Done'
  <2>1. DOMAIN pairs # {}
    BY <1>3 DEF IInv, TypeOK, Done
  <2>2. \A v \in SsaValue : store'[v] = IF v \in DOMAIN pairs THEN old[pairs[v]]
                                                         ELSE old[v]
    BY <1>0, <1>3 DEF IInv, PairsServed, OthersKept, Done
  <2>3. Abstract!Assign
    BY <1>0, <1>3, <2>1, <2>2 DEF Abstract!Assign, Abstract!SsaValue, SsaValue
  <2> QED
    BY <2>3
<1> QED
  BY <1>1, <1>2, <1>3

(* The emitted copies implement ParallelAssign.                             *)
THEOREM Refinement == CopySpec => RefinesParallelAssign
<1>1. CopyInit => Abstract!PInit
  <2> SUFFICES ASSUME CopyInit PROVE Abstract!PInit
    OBVIOUS
  <2>1. IInv
    BY InitInv
  <2>2. Done <=> DOMAIN pairs = {}
    BY DEF CopyInit, Done
  <2>3. [v \in SsaValue |-> store[v]] = old
    BY DEF CopyInit
  <2> QED
    BY <2>2, <2>3 DEF CopyInit, Abstract!PInit, Abstract!SsaValue, SsaValue, PartialMaps
<1> QED
  BY <1>1, Invariance, StepImplements, PTL
     DEF CopySpec, RefinesParallelAssign, Abstract!PSpec

-----------------------------------------------------------------------------
(***************************************************************************)
(* The blocks of the rewritten function.  Each comes with the trampoline of *)
(* the edge it falls through, and the trampolines of the explicit edges are *)
(* behind all blocks, so that no block has another successor than it had.   *)
(***************************************************************************)

(* Labels of edges are nobody else's.                                       *)
LEMMA EdgeLabels ==
  ASSUME NEW N \in Nat \ {0}, NEW p \in 1 .. N, NEW s \in 1 .. N
  PROVE  /\ N * p + s \notin 1 .. N
         /\ \A q, t \in 1 .. N : N * p + s = N * q + t => p = q /\ s = t
<1>1. N * p + s \notin 1 .. N
  <2>1. N * p >= N
    OBVIOUS
  <2> QED
    BY <2>1
<1>2. ASSUME NEW q \in 1 .. N, NEW t \in 1 .. N, N * p + s = N * q + t
      PROVE  p = q /\ s = t
  <2>1. s - 1 \in 0 .. N - 1 /\ t - 1 \in 0 .. N - 1 /\ p \in Int /\ q \in Int
    OBVIOUS
  <2>2. N * p + (s - 1) = N * q + (t - 1)
    BY <1>2
  <2>3. p = q /\ s - 1 = t - 1
    BY <2>1, <2>2, RemainderUnique
  <2> QED
    BY <2>3
<1> QED
  BY <1>1, <1>2

LEMMA Indices ==
  ASSUME NEW f, WellFormed(f), NEW l \in Labels(f)
  PROVE  /\ IndexOf(f, l) \in DOMAIN f /\ f[IndexOf(f, l)].label = l
         /\ \A i \in DOMAIN f : f[i].label = l => i = IndexOf(f, l)
<1>1. PICK i \in DOMAIN f : f[i].label = l
  BY DEF Labels
<1>2. IndexOf(f, l) \in DOMAIN f /\ f[IndexOf(f, l)].label = l
  BY <1>1 DEF IndexOf
<1> QED
  BY <1>2 DEF WellFormed

(* A block of f is in a function under its own label, ...                   *)
LEMMA IndexFound ==
  ASSUME NEW g, NEW q \in DOMAIN g
  PROVE  IndexOf(g, g[q].label) \in DOMAIN g /\ g[IndexOf(g, g[q].label)].label = g[q].label
BY DEF IndexOf

LEMMA FinitelyMany ==
  ASSUME NEW f, WellFormed(f), NEW i \in DOMAIN f
  PROVE  /\ IsFiniteSet(Trampolined(f, f[i].label))
         /\ Trampolined(f, f[i].label) \subseteq Successors(f, i)
<1>1. f[i].label \in Labels(f)
  BY DEF Labels
<1>2. IndexOf(f, f[i].label) = i
  BY <1>1, Indices
<1>3. Trampolined(f, f[i].label) \subseteq Successors(f, i)
  BY <1>2 DEF Trampolined
<1>4. PICK a, b : Successors(f, i) \subseteq {a} \cup {b}
  <2>1. Successors(f, i) \subseteq {f[i].target} \cup {f[i+1].label}
    BY DEF Successors, ExplicitTargets
  <2> QED
    BY <2>1
<1>5. IsFiniteSet({a} \cup {b})
  <2>1. IsFiniteSet({a}) /\ IsFiniteSet({b})
    BY FS_Singleton
  <2> QED
    BY <2>1, FS_Union
<1>6. IsFiniteSet(Trampolined(f, f[i].label))
  <2>1. Trampolined(f, f[i].label) \in SUBSET ({a} \cup {b})
    BY <1>3, <1>4
  <2> QED
    BY <2>1, <1>5, FS_Subset
<1> QED
  BY <1>3, <1>6

(* The trampolines of a block, on its fallthrough edge                      *)
LEMMA FallthroughIs ==
  ASSUME NEW f, WellFormed(f), NEW i \in DOMAIN f
  PROVE  LET ft == FallthroughTrampolines(f, i)
         IN  /\ Len(ft) \in Nat /\ DOMAIN ft = 1 .. Len(ft)
             /\ \A k \in 1 .. Len(ft) :
                  /\ i < Len(f) /\ f[i+1].label \in Labels(f)
                  /\ ft[k] = Trampoline(f, f[i].label, f[i+1].label)
<1> DEFINE T == Trampolined(f, f[i].label) \ ExplicitTargets(f[i])
           ft == FallthroughTrampolines(f, i)
<1>1. IsFiniteSet(T) /\ T \subseteq Successors(f, i) \ ExplicitTargets(f[i])
  <2>1. T \in SUBSET Trampolined(f, f[i].label)
    OBVIOUS
  <2> QED
    BY <2>1, FinitelyMany, FS_Subset
<1>2. Cardinality(T) \in Nat /\ (T = {} => Cardinality(T) = 0)
  BY <1>1, FS_CardinalityType, FS_EmptySet
<1>3. ft = [k \in 1 .. Cardinality(T) |-> Trampoline(f, f[i].label, f[i+1].label)]
  BY DEF FallthroughTrampolines
<1>4. T # {} => i < Len(f) /\ f[i+1].label \in Labels(f)
  <2> SUFFICES ASSUME T # {} PROVE i < Len(f) /\ f[i+1].label \in Labels(f)
    OBVIOUS
  <2>1. PICK s \in Successors(f, i) : s \notin ExplicitTargets(f[i])
    BY <1>1
  <2>2. FallsThrough(f, i)
    BY <2>1 DEF Successors
  <2>3. i < Len(f)
    BY <2>2 DEF FallsThrough
  <2>4. i + 1 \in DOMAIN f
    BY <2>3 DEF WellFormed
  <2> QED
    BY <2>3, <2>4 DEF Labels
<1> HIDE DEF T, ft
<1>5. Len(ft) = Cardinality(T) /\ DOMAIN ft = 1 .. Cardinality(T)
  BY <1>2, <1>3
<1>6. ASSUME NEW k \in 1 .. Len(ft)
      PROVE  /\ i < Len(f) /\ f[i+1].label \in Labels(f)
             /\ ft[k] = Trampoline(f, f[i].label, f[i+1].label)
  <2>1. T # {}
    BY <1>2, <1>5
  <2> QED
    BY <2>1, <1>3, <1>4, <1>5
<1> QED
  BY <1>2, <1>5, <1>6 DEF ft

(* and on its explicit one.                                                 *)
LEMMA TailIs ==
  ASSUME NEW f, WellFormed(f), NEW i \in DOMAIN f
  PROVE  LET tail == TailTrampolines(f, i)
         IN  /\ Len(tail) \in Nat /\ DOMAIN tail = 1 .. Len(tail)
             /\ \A k \in 1 .. Len(tail) :
                  f[i].target \in Labels(f) /\ tail[k] = Trampoline(f, f[i].label, f[i].target)
             /\ f[i].target \in Trampolined(f, f[i].label) \cap ExplicitTargets(f[i]) => Len(tail) # 0
<1> DEFINE T == Trampolined(f, f[i].label) \cap ExplicitTargets(f[i])
           tail == TailTrampolines(f, i)
<1>1. IsFiniteSet(T)
  <2>1. T \in SUBSET Trampolined(f, f[i].label)
    OBVIOUS
  <2> QED
    BY <2>1, FinitelyMany, FS_Subset
<1>2. Cardinality(T) \in Nat /\ (T = {} <=> Cardinality(T) = 0)
  BY <1>1, FS_CardinalityType, FS_EmptySet
<1>3. tail = [k \in 1 .. Cardinality(T) |-> Trampoline(f, f[i].label, f[i].target)]
  BY DEF TailTrampolines
<1>4. T # {} => f[i].target \in Labels(f)
  BY DEF ExplicitTargets, WellFormed, Branches
<1>5. f[i].target \in Trampolined(f, f[i].label) \cap ExplicitTargets(f[i]) => T # {}
  OBVIOUS
<1> HIDE DEF T, tail
<1>6. Len(tail) = Cardinality(T) /\ DOMAIN tail = 1 .. Cardinality(T)
  BY <1>2, <1>3
<1>7. ASSUME NEW k \in 1 .. Len(tail)
      PROVE  f[i].target \in Labels(f) /\ tail[k] = Trampoline(f, f[i].label, f[i].target)
  <2>1. T # {}
    BY <1>2, <1>6
  <2> QED
    BY <2>1, <1>3, <1>4, <1>6
<1> QED
  BY <1>2, <1>5, <1>6, <1>7 DEF tail

(* A block keeps its label, and an explicit edge its target or trampoline.  *)
LEMMA PlacedIs ==
  ASSUME NEW f, NEW i
  PROVE  /\ Placed(f, i).label = f[i].label
         /\ f[i].term \in {"jump", "branch_if"} =>
              Placed(f, i).target =
                IF f[i].target \in Trampolined(f, f[i].label)
                  THEN EdgeLabel(f, f[i].label, f[i].target) ELSE f[i].target
BY DEF Placed

(* What stands at a place of the output: a block, with its fallthrough      *)
(* successor or the trampoline to it behind, or a trampoline.               *)
BlockAt(f, g, q) ==
  \E i \in DOMAIN f :
    /\ g[q] = Placed(f, i)
    /\ i < Len(f) =>
         /\ q + 1 \in DOMAIN g
         /\ \/ g[q + 1] = Placed(f, i + 1)
            \/ /\ f[i + 1].label \in Labels(f)
               /\ g[q + 1] = Trampoline(f, f[i].label, f[i + 1].label)

TrampolineAt(f, g, q) == \E p, s \in Labels(f) : g[q] = Trampoline(f, p, s)

LEMMA OutputIs ==
  ASSUME NEW f, WellFormed(f)
  PROVE  LET g == Output(f)
         IN  /\ \A q \in DOMAIN g : BlockAt(f, g, q) \/ TrampolineAt(f, g, q)
             /\ \A i \in DOMAIN f : \E q \in DOMAIN g : g[q] = Placed(f, i)
             /\ \A i \in DOMAIN f :
                  f[i].target \in Trampolined(f, f[i].label) \cap ExplicitTargets(f[i]) =>
                    \E q \in DOMAIN g : g[q] = Trampoline(f, f[i].label, f[i].target)
             /\ 1 \in DOMAIN g /\ g[1] = Placed(f, 1)
<1> DEFINE N == Len(f)
           S == {Placed(f, i) : i \in DOMAIN f} \cup {Trampoline(f, p, s) : p, s \in Labels(f)}
           FT(i) == FallthroughTrampolines(f, i)
           TT(i) == TailTrampolines(f, i)
           blocks == [i \in DOMAIN f |-> <<Placed(f, i)>> \o FT(i)]
           tails == [i \in DOMAIN f |-> TT(i)]
           g == Output(f)
<1>1. N \in Nat /\ N >= 1 /\ DOMAIN f = 1 .. N /\ \A i \in 1 .. N : f[i].label \in Labels(f)
  BY DEF WellFormed, Labels
<1>2. ASSUME NEW i \in 1 .. N
      PROVE  /\ FT(i) \in Seq(S) /\ Len(FT(i)) \in Nat
             /\ \A k \in 1 .. Len(FT(i)) :
                  /\ i < N /\ f[i+1].label \in Labels(f)
                  /\ FT(i)[k] = Trampoline(f, f[i].label, f[i+1].label)
  <2>1. i \in DOMAIN f
    BY <1>1
  <2>2. /\ Len(FT(i)) \in Nat /\ DOMAIN FT(i) = 1 .. Len(FT(i))
        /\ \A k \in 1 .. Len(FT(i)) :
             /\ i < N /\ f[i+1].label \in Labels(f)
             /\ FT(i)[k] = Trampoline(f, f[i].label, f[i+1].label)
    BY <2>1, FallthroughIs
  <2>3. \A k \in 1 .. Len(FT(i)) : FT(i)[k] \in S
    BY <2>2, <1>1
  <2>4. FT(i) = [k \in 1 .. Len(FT(i)) |-> FT(i)[k]]
    BY <2>2 DEF FallthroughTrampolines
  <2> HIDE DEF FT, S
  <2>5. FT(i) \in Seq(S)
    BY <2>2, <2>3, <2>4
  <2> QED
    BY <2>2, <2>5
<1>3. ASSUME NEW i \in 1 .. N
      PROVE  /\ TT(i) \in Seq(S) /\ Len(TT(i)) \in Nat
             /\ \A k \in 1 .. Len(TT(i)) :
                  f[i].target \in Labels(f) /\ TT(i)[k] = Trampoline(f, f[i].label, f[i].target)
             /\ f[i].target \in Trampolined(f, f[i].label) \cap ExplicitTargets(f[i]) => Len(TT(i)) # 0
  <2>1. i \in DOMAIN f
    BY <1>1
  <2>2. /\ Len(TT(i)) \in Nat /\ DOMAIN TT(i) = 1 .. Len(TT(i))
        /\ \A k \in 1 .. Len(TT(i)) :
             f[i].target \in Labels(f) /\ TT(i)[k] = Trampoline(f, f[i].label, f[i].target)
        /\ f[i].target \in Trampolined(f, f[i].label) \cap ExplicitTargets(f[i]) => Len(TT(i)) # 0
    BY <2>1, TailIs
  <2>3. \A k \in 1 .. Len(TT(i)) : TT(i)[k] \in S
    BY <2>2, <1>1
  <2>4. TT(i) = [k \in 1 .. Len(TT(i)) |-> TT(i)[k]]
    BY <2>2 DEF TailTrampolines
  <2> HIDE DEF TT, S
  <2>5. TT(i) \in Seq(S)
    BY <2>2, <2>3, <2>4
  <2> QED
    BY <2>2, <2>5
<1>4. \A i \in 1 .. N : Placed(f, i) \in S
  BY <1>1
<1>5. g = FlattenSeq(blocks) \o FlattenSeq(tails)
  BY DEF Output
<1>6. /\ DOMAIN blocks = 1 .. N /\ DOMAIN tails = 1 .. N
      /\ \A i \in 1 .. N : blocks[i] = <<Placed(f, i)>> \o FT(i) /\ tails[i] = TT(i)
      /\ blocks = [i \in 1 .. N |-> blocks[i]] /\ tails = [i \in 1 .. N |-> tails[i]]
  BY <1>1
<1> HIDE DEF S, FT, TT, N, blocks, tails, g
<1>7. ASSUME NEW i \in 1 .. N
      PROVE  /\ blocks[i] \in Seq(S) /\ Len(blocks[i]) = 1 + Len(FT(i))
             /\ \A k \in 1 .. Len(blocks[i]) :
                  blocks[i][k] = IF k = 1 THEN Placed(f, i) ELSE FT(i)[k - 1]
  <2>1. PICK a : a = <<Placed(f, i)>>
    OBVIOUS
  <2>2. a \in Seq(S) /\ Len(a) = 1 /\ a[1] = Placed(f, i)
    BY <2>1, <1>4
  <2>3. blocks[i] = a \o FT(i) /\ FT(i) \in Seq(S) /\ Len(FT(i)) \in Nat
    BY <2>1, <1>2, <1>6
  <2>4. /\ blocks[i] \in Seq(S) /\ Len(blocks[i]) = 1 + Len(FT(i))
        /\ \A k \in 1 .. 1 + Len(FT(i)) : blocks[i][k] = IF k <= 1 THEN a[k] ELSE FT(i)[k - 1]
    <3>1. PICK c : c = FT(i)
      OBVIOUS
    <3>2. c \in Seq(S) /\ blocks[i] = a \o c /\ a \in Seq(S)
      BY <2>2, <2>3, <3>1
    <3>3. /\ a \o c \in Seq(S) /\ Len(a \o c) = Len(a) + Len(c)
          /\ \A k \in 1 .. Len(a) + Len(c) : (a \o c)[k] = IF k <= Len(a) THEN a[k] ELSE c[k - Len(a)]
      BY <3>2, Concatenation
    <3> QED
      BY <2>2, <3>1, <3>2, <3>3
  <2> QED
    BY <2>2, <2>3, <2>4
<1>8. blocks \in [1 .. N -> Seq(S)] /\ tails \in [1 .. N -> Seq(S)]
  BY <1>3, <1>6, <1>7
<1>9. PICK p \in [0 .. N -> Seq(S)] :
        Concatenates(p, N, blocks) /\ FlattenSeq(blocks) = p[N] /\ HasParts(p, N, blocks)
  <2>1. N \in Nat /\ blocks \in [1 .. N -> Seq(S)]
    BY <1>1, <1>8
  <2> QED
    BY <2>1, FlattenParts, ZenonT(20)
<1>10. PICK t \in [0 .. N -> Seq(S)] :
        Concatenates(t, N, tails) /\ FlattenSeq(tails) = t[N] /\ HasParts(t, N, tails)
  <2>1. N \in Nat /\ tails \in [1 .. N -> Seq(S)]
    BY <1>1, <1>8
  <2> QED
    BY <2>1, FlattenParts, ZenonT(20)
<1>11. /\ p[0] = << >> /\ FlattenSeq(blocks) = p[N]
       /\ \A k \in 1 .. N : p[k] = p[k - 1] \o blocks[k]
       /\ \A k \in 1 .. N : \A j \in 1 .. Len(blocks[k]) :
             /\ Len(p[k - 1]) + j \in 1 .. Len(p[N])
             /\ p[N][Len(p[k - 1]) + j] = blocks[k][j]
       /\ \A q \in 1 .. Len(p[N]) :
             \E k \in 1 .. N : \E j \in 1 .. Len(blocks[k]) : q = Len(p[k - 1]) + j
  BY <1>9 DEF Concatenates, HasParts
<1>12. /\ t[0] = << >> /\ FlattenSeq(tails) = t[N]
       /\ \A k \in 1 .. N : t[k] = t[k - 1] \o tails[k]
       /\ \A k \in 1 .. N : \A j \in 1 .. Len(tails[k]) :
              /\ Len(t[k - 1]) + j \in 1 .. Len(t[N])
              /\ t[N][Len(t[k - 1]) + j] = tails[k][j]
       /\ \A q \in 1 .. Len(t[N]) :
              \E k \in 1 .. N : \E j \in 1 .. Len(tails[k]) : q = Len(t[k - 1]) + j
  BY <1>10 DEF Concatenates, HasParts
<1>13. PICK M \in Nat, L \in Nat :
         /\ M = Len(p[N]) /\ L = Len(t[N]) /\ DOMAIN g = 1 .. M + L
         /\ \A q \in 1 .. M + L : g[q] = IF q <= M THEN p[N][q] ELSE t[N][q - M]
  <2>1. p[N] \in Seq(S) /\ t[N] \in Seq(S) /\ g = p[N] \o t[N]
    BY <1>1, <1>5, <1>11, <1>12
  <2>2. g \in Seq(S) /\ Len(g) = Len(p[N]) + Len(t[N])
        /\ \A q \in 1 .. Len(p[N]) + Len(t[N]) :
             g[q] = IF q <= Len(p[N]) THEN p[N][q] ELSE t[N][q - Len(p[N])]
    BY <2>1, Concatenation
  <2>3. DOMAIN g = 1 .. Len(g) /\ Len(p[N]) \in Nat /\ Len(t[N]) \in Nat
    BY <2>1, <2>2
  <2> QED
    BY <2>2, <2>3
<1>14. \A k \in 0 .. N : Len(p[k]) \in Nat /\ Len(t[k]) \in Nat
  OBVIOUS
<1>15. ASSUME NEW k \in 1 .. N, NEW j \in 1 .. Len(blocks[k])
       PROVE  /\ Len(p[k - 1]) + j \in DOMAIN g
              /\ g[Len(p[k - 1]) + j] = IF j = 1 THEN Placed(f, k) ELSE FT(k)[j - 1]
  <2>1. Len(p[k - 1]) + j \in 1 .. M /\ p[N][Len(p[k - 1]) + j] = blocks[k][j]
    BY <1>11, <1>13
  <2> QED
    BY <2>1, <1>7, <1>13
<1>16. ASSUME NEW k \in 1 .. N, NEW j \in 1 .. Len(tails[k])
       PROVE  M + (Len(t[k - 1]) + j) \in DOMAIN g /\ g[M + (Len(t[k - 1]) + j)] = TT(k)[j]
  <2>1. Len(t[k - 1]) + j \in 1 .. L /\ t[N][Len(t[k - 1]) + j] = tails[k][j] /\ tails[k] = TT(k)
    BY <1>6, <1>12, <1>13
  <2>2. PICK d : d = Len(t[k - 1]) + j
    OBVIOUS
  <2>3. M + d \in 1 .. M + L /\ ~ (M + d <= M) /\ (M + d) - M = d
    BY <2>1, <2>2
  <2> QED
    BY <2>1, <2>2, <2>3, <1>13
<1>17. \A i \in 1 .. N : Len(p[i - 1]) + 1 \in DOMAIN g /\ g[Len(p[i - 1]) + 1] = Placed(f, i)
  <2> SUFFICES ASSUME NEW i \in 1 .. N
               PROVE  Len(p[i - 1]) + 1 \in DOMAIN g /\ g[Len(p[i - 1]) + 1] = Placed(f, i)
    OBVIOUS
  <2>1. 1 \in 1 .. Len(blocks[i])
    BY <1>2, <1>7
  <2> QED
    BY <2>1, <1>15
(* A trampoline of a fallthrough edge,                                      *)
<1>18. ASSUME NEW i \in 1 .. N, NEW k \in 1 .. Len(FT(i)) PROVE \E l, s \in Labels(f) : FT(i)[k] = Trampoline(f, l, s)
  BY <1>1, <1>2
<1>19. ASSUME NEW i \in 1 .. N, i < N
       PROVE  LET q == Len(p[i - 1]) + 1
              IN  /\ q + 1 \in DOMAIN g
                  /\ \/ g[q + 1] = Placed(f, i + 1)
                     \/ /\ f[i + 1].label \in Labels(f)
                        /\ g[q + 1] = Trampoline(f, f[i].label, f[i + 1].label)
  <2> DEFINE a == Len(p[i - 1])
  <2>1. a \in Nat /\ i - 1 \in 0 .. N /\ i \in 0 .. N /\ i + 1 \in 1 .. N /\ (i + 1) - 1 = i
    BY <1>1, <1>14, <1>19
  <2>2. Len(p[i]) = a + (1 + Len(FT(i))) /\ Len(FT(i)) \in Nat
    <3>1. p[i] = p[i - 1] \o blocks[i] /\ p[i - 1] \in Seq(S) /\ blocks[i] \in Seq(S)
      BY <2>1, <1>7, <1>11
    <3>2. Len(p[i]) = Len(p[i - 1]) + Len(blocks[i])
      BY <3>1, Concatenation
    <3> QED
      BY <3>2, <1>2, <1>7
  <2>3. CASE Len(FT(i)) = 0
    <3>1. Len(p[(i + 1) - 1]) + 1 \in DOMAIN g /\ g[Len(p[(i + 1) - 1]) + 1] = Placed(f, i + 1)
      BY <2>1, <1>17
    <3>2. Len(p[(i + 1) - 1]) + 1 = (a + 1) + 1
      BY <2>1, <2>2, <2>3
    <3> QED
      BY <3>1, <3>2
  <2>4. CASE Len(FT(i)) # 0
    <3>1. 2 \in 1 .. Len(blocks[i]) /\ 1 \in 1 .. Len(FT(i))
      BY <2>2, <2>4, <1>7
    <3>2. a + 2 \in DOMAIN g /\ g[a + 2] = FT(i)[1]
      BY <3>1, <1>15
    <3>3. FT(i)[1] = Trampoline(f, f[i].label, f[i+1].label) /\ f[i+1].label \in Labels(f)
      BY <3>1, <1>2
    <3>4. (a + 1) + 1 = a + 2
      BY <2>1
    <3> QED
      BY <3>2, <3>3, <3>4
  <2> QED
    BY <2>3, <2>4
<1>20. ASSUME NEW q \in DOMAIN g PROVE BlockAt(f, g, q) \/ TrampolineAt(f, g, q)
  <2>1. CASE q <= M
    <3>1. q \in 1 .. Len(p[N])
      BY <2>1, <1>13
    <3>2. PICK i \in 1 .. N : \E j \in 1 .. Len(blocks[i]) : q = Len(p[i - 1]) + j
      BY <3>1, <1>11
    <3>3. PICK j \in 1 .. Len(blocks[i]) : q = Len(p[i - 1]) + j
      BY <3>2
    <3>4. CASE j = 1
      <4>1. g[q] = Placed(f, i) /\ i \in DOMAIN f
        BY <3>3, <3>4, <1>1, <1>15
      <4>2. i < Len(f) =>
              /\ q + 1 \in DOMAIN g
              /\ \/ g[q + 1] = Placed(f, i + 1)
                 \/ /\ f[i + 1].label \in Labels(f)
                    /\ g[q + 1] = Trampoline(f, f[i].label, f[i + 1].label)
        BY <3>3, <3>4, <1>19 DEF N
      <4> QED
        BY <4>1, <4>2 DEF BlockAt
    <3>5. CASE j # 1
      <4>1. g[q] = FT(i)[j - 1]
        BY <3>3, <3>5, <1>15
      <4>2. j - 1 \in 1 .. Len(FT(i))
        BY <3>5, <1>2, <1>7
      <4> QED
        BY <4>1, <4>2, <1>18 DEF TrampolineAt
    <3> QED
      BY <3>4, <3>5
  <2>2. CASE q > M
    <3>1. q - M \in 1 .. Len(t[N]) /\ g[q] = t[N][q - M]
      BY <2>2, <1>13
    <3>2. PICK i \in 1 .. N : \E j \in 1 .. Len(tails[i]) : q - M = Len(t[i - 1]) + j
      BY <3>1, <1>12
    <3>3. PICK j \in 1 .. Len(tails[i]) : q - M = Len(t[i - 1]) + j
      BY <3>2
    <3>4. g[q] = tails[i][j] /\ tails[i] = TT(i)
      <4>1. t[N][Len(t[i - 1]) + j] = tails[i][j]
        BY <1>12
      <4> QED
        BY <3>1, <3>3, <4>1, <1>6
    <3>5. f[i].target \in Labels(f) /\ TT(i)[j] = Trampoline(f, f[i].label, f[i].target)
      BY <3>4, <1>3
    <3> QED
      BY <3>4, <3>5, <1>1 DEF TrampolineAt
  <2> QED
    BY <2>1, <2>2, <1>13
<1>21. ASSUME NEW i \in DOMAIN f PROVE \E q \in DOMAIN g : g[q] = Placed(f, i)
  BY <1>1, <1>17
<1>22. ASSUME NEW i \in DOMAIN f,
              f[i].target \in Trampolined(f, f[i].label) \cap ExplicitTargets(f[i])
       PROVE  \E q \in DOMAIN g : g[q] = Trampoline(f, f[i].label, f[i].target)
  <2>1. i \in 1 .. N
    BY <1>1
  <2>2. 1 \in 1 .. Len(tails[i]) /\ TT(i)[1] = Trampoline(f, f[i].label, f[i].target)
    <3>1. Len(TT(i)) \in Nat /\ Len(TT(i)) # 0 /\ tails[i] = TT(i)
      BY <2>1, <1>3, <1>6, <1>22
    <3>2. 1 \in 1 .. Len(TT(i))
      BY <3>1
    <3> QED
      BY <2>1, <3>1, <3>2, <1>3
  <2> QED
    BY <2>1, <2>2, <1>16
<1>23. 1 \in DOMAIN g /\ g[1] = Placed(f, 1)
  <2>1. 1 \in 1 .. N /\ Len(p[1 - 1]) = 0
    BY <1>1, <1>11
  <2>2. Len(p[1 - 1]) + 1 = 1
    BY <2>1
  <2> QED
    BY <2>1, <2>2, <1>17
<1> QED
  BY <1>20, <1>21, <1>22, <1>23 DEF g
-----------------------------------------------------------------------------
(* The block an edge leads to, or the trampoline on the way to it.          *)
LandedOn(f, g, q, s) ==
  \/ g[q].label = s
  \/ \E p \in Labels(f) : g[q] = Trampoline(f, p, s)

PlaceInv ==
  /\ fn \in Programs /\ out = Output(fn)
  /\ at \in Labels(fn) /\ place \in DOMAIN out
  /\ phase \in {"body", "term", "edge", "done"}
  /\ phase # "edge" => out[place].label = at
  /\ phase = "edge" => LandedOn(fn, out, place, at)

(* A trampoline has a label of its own.                                     *)
LEMMA TrampolineLabels ==
  ASSUME NEW f, WellFormed(f), NEW p \in Labels(f), NEW s \in Labels(f)
  PROVE  /\ EdgeLabel(f, p, s) \notin Labels(f)
         /\ \A q, t \in Labels(f) : EdgeLabel(f, p, s) = EdgeLabel(f, q, t) => p = q /\ s = t
<1>1. PICK N \in Nat \ {0} : N = Len(f)
  BY DEF WellFormed
<1>2. \A l \in Labels(f) : l \in 1 .. N
  BY <1>1 DEF WellFormed, Labels
<1>3. N * p + s \notin 1 .. N /\ \A q, t \in 1 .. N : N * p + s = N * q + t => p = q /\ s = t
  BY <1>2, EdgeLabels
<1> QED
  BY <1>1, <1>2, <1>3 DEF EdgeLabel

(* The places of a block and of a trampoline of the output.                 *)
LEMMA BlockPlace ==
  ASSUME NEW f, WellFormed(f), NEW q \in DOMAIN Output(f), Output(f)[q].label \in Labels(f)
  PROVE  LET i == IndexOf(f, Output(f)[q].label)
         IN  /\ Output(f)[q] = Placed(f, i)
             /\ i < Len(f) =>
                  /\ q + 1 \in DOMAIN Output(f)
                  /\ \/ Output(f)[q + 1] = Placed(f, i + 1)
                     \/ /\ f[i + 1].label \in Labels(f)
                        /\ Output(f)[q + 1] = Trampoline(f, f[i].label, f[i + 1].label)
<1> DEFINE g == Output(f)
<1>1. BlockAt(f, g, q) \/ TrampolineAt(f, g, q)
  BY OutputIs
<1>2. ~ TrampolineAt(f, g, q)
  BY TrampolineLabels DEF TrampolineAt, Trampoline
<1>3. PICK i \in DOMAIN f :
        /\ g[q] = Placed(f, i)
        /\ i < Len(f) =>
             /\ q + 1 \in DOMAIN g
             /\ \/ g[q + 1] = Placed(f, i + 1)
                \/ /\ f[i + 1].label \in Labels(f)
                   /\ g[q + 1] = Trampoline(f, f[i].label, f[i + 1].label)
  BY <1>1, <1>2 DEF BlockAt
<1>4. g[q].label = f[i].label
  BY <1>3, PlacedIs
<1>5. i = IndexOf(f, g[q].label)
  BY <1>4, Indices
<1> QED
  BY <1>3, <1>5

LEMMA TrampolinePlace ==
  ASSUME NEW f, WellFormed(f), NEW q \in DOMAIN Output(f), NEW p \in Labels(f), NEW s \in Labels(f),
         Output(f)[q].label = EdgeLabel(f, p, s)
  PROVE  Output(f)[q] = Trampoline(f, p, s)
<1> DEFINE g == Output(f)
<1>1. BlockAt(f, g, q) \/ TrampolineAt(f, g, q)
  BY OutputIs
<1>2. ~ BlockAt(f, g, q)
  <2>1. g[q].label \notin Labels(f)
    BY TrampolineLabels
  <2> QED
    BY <2>1, PlacedIs DEF BlockAt, Labels
<1>3. PICK a, b \in Labels(f) : g[q] = Trampoline(f, a, b)
  BY <1>1, <1>2 DEF TrampolineAt
<1>4. EdgeLabel(f, p, s) = EdgeLabel(f, a, b)
  BY <1>3 DEF Trampoline
<1>5. p = a /\ s = b
  BY <1>4, TrampolineLabels
<1> QED
  BY <1>3, <1>5

(* The block with a label is found under it.                                *)
LEMMA BlockFound ==
  ASSUME NEW f, WellFormed(f), NEW l \in Labels(f)
  PROVE  /\ IndexOf(Output(f), l) \in DOMAIN Output(f)
         /\ Output(f)[IndexOf(Output(f), l)].label = l
<1>1. PICK i \in DOMAIN f : f[i].label = l
  BY DEF Labels
<1>2. PICK q \in DOMAIN Output(f) : Output(f)[q] = Placed(f, i)
  BY OutputIs
<1>3. Output(f)[q].label = l
  BY <1>1, <1>2, PlacedIs
<1> QED
  BY <1>2, <1>3, IndexFound

LEMMA PlaceInit == Init => PlaceInv
<1> SUFFICES ASSUME Init PROVE PlaceInv
  OBVIOUS
<1>1. WellFormed(fn)
  BY ProgramsAssumption DEF Init
<1>2. 1 \in DOMAIN out /\ out[1] = Placed(fn, 1) /\ out = Output(fn)
  BY <1>1, OutputIs DEF Init
<1>3. 1 \in DOMAIN fn
  BY <1>1 DEF WellFormed
<1>4. out[1].label = fn[1].label
  BY <1>2, PlacedIs
<1> QED
  BY <1>2, <1>3, <1>4 DEF Init, PlaceInv, Labels

(* An edge that is jumped along.                                            *)
LEMMA PlaceGoExplicit == PlaceInv /\ GoExplicit => PlaceInv'
<1> SUFFICES ASSUME PlaceInv, GoExplicit PROVE PlaceInv'
  OBVIOUS
<1> DEFINE i == IndexOf(fn, at)
           s == fn[i].target
<1>1. /\ WellFormed(fn) /\ fn \in Programs /\ out = Output(fn) /\ at \in Labels(fn)
      /\ place \in DOMAIN out /\ out[place].label = at
  BY ProgramsAssumption DEF PlaceInv, GoExplicit
<1>2. /\ fn[i].term \in {"jump", "branch_if"} /\ at' = s /\ phase' = "edge"
      /\ place' = IndexOf(out, out[place].target) /\ UNCHANGED <<fn, out>>
  BY DEF GoExplicit, Goto, Block, BlockOf
<1>3. i \in DOMAIN fn /\ fn[i].label = at /\ s \in Labels(fn)
  BY <1>1, <1>2, Indices DEF WellFormed
<1>4. out[place] = Placed(fn, i)
  BY <1>1, BlockPlace
<1>5. out[place].target = IF s \in Trampolined(fn, at) THEN EdgeLabel(fn, at, s) ELSE s
  BY <1>2, <1>3, <1>4, PlacedIs
<1>6. place' \in DOMAIN out /\ LandedOn(fn, out, place', s)
  <2>1. CASE s \in Trampolined(fn, at)
    <3>1. s \in Trampolined(fn, fn[i].label) \cap ExplicitTargets(fn[i])
      BY <2>1, <1>2, <1>3 DEF ExplicitTargets, Branches
    <3>2. PICK q \in DOMAIN out : out[q] = Trampoline(fn, at, s)
      BY <3>1, <1>1, <1>3, OutputIs
    <3>3. out[q].label = EdgeLabel(fn, at, s)
      BY <3>2 DEF Trampoline
    <3>4. place' \in DOMAIN out /\ out[place'].label = EdgeLabel(fn, at, s)
      BY <3>3, <2>1, <1>2, <1>5, IndexFound
    <3>5. out[place'] = Trampoline(fn, at, s)
      BY <3>4, <1>1, <1>3, TrampolinePlace
    <3> QED
      BY <3>4, <3>5, <1>1 DEF LandedOn
  <2>2. CASE s \notin Trampolined(fn, at)
    <3>1. place' = IndexOf(out, s)
      BY <2>2, <1>2, <1>5
    <3>2. place' \in DOMAIN out /\ out[place'].label = s
      BY <3>1, <1>1, <1>3, BlockFound
    <3> QED
      BY <3>2 DEF LandedOn
  <2> QED
    BY <2>1, <2>2
<1> QED
  BY <1>1, <1>2, <1>3, <1>6 DEF PlaceInv

(* An edge that is fallen through.                                          *)
LEMMA PlaceFallThrough == PlaceInv /\ FallThrough => PlaceInv'
<1> SUFFICES ASSUME PlaceInv, FallThrough PROVE PlaceInv'
  OBVIOUS
<1> DEFINE i == IndexOf(fn, at)
           s == fn[i + 1].label
<1>1. /\ WellFormed(fn) /\ fn \in Programs /\ out = Output(fn) /\ at \in Labels(fn)
      /\ place \in DOMAIN out /\ out[place].label = at
  BY ProgramsAssumption DEF PlaceInv, FallThrough
<1>2. /\ fn[i].term \in {"fall", "branch_if"} /\ at' = s /\ phase' = "edge"
      /\ place' = place + 1 /\ UNCHANGED <<fn, out>>
  BY DEF FallThrough, Goto, Block, BlockOf
<1>3. i \in DOMAIN fn /\ fn[i].label = at
  BY <1>1, Indices
<1>4. i < Len(fn) /\ i + 1 \in DOMAIN fn
  BY <1>1, <1>2, <1>3 DEF WellFormed
<1>5. s \in Labels(fn)
  BY <1>4 DEF Labels
<1>6. /\ place + 1 \in DOMAIN out
      /\ out[place + 1] = Placed(fn, i + 1) \/ out[place + 1] = Trampoline(fn, at, s)
  BY <1>1, <1>3, <1>4, BlockPlace
<1>7. LandedOn(fn, out, place + 1, s)
  <2>1. CASE out[place + 1] = Placed(fn, i + 1)
    BY <2>1, PlacedIs DEF LandedOn
  <2>2. CASE out[place + 1] = Trampoline(fn, at, s)
    BY <2>2, <1>1 DEF LandedOn
  <2> QED
    BY <2>1, <2>2, <1>6
<1> QED
  BY <1>1, <1>2, <1>5, <1>6, <1>7 DEF PlaceInv

(* The end of an edge.                                                      *)
LEMMA PlaceArrive == PlaceInv /\ Arrive => PlaceInv'
<1> SUFFICES ASSUME PlaceInv, Arrive PROVE PlaceInv'
  OBVIOUS
<1>1. /\ WellFormed(fn) /\ fn \in Programs /\ out = Output(fn) /\ at \in Labels(fn)
      /\ place \in DOMAIN out /\ LandedOn(fn, out, place, at)
  BY ProgramsAssumption DEF PlaceInv, Arrive
<1>2. phase' = "body" /\ UNCHANGED <<fn, out, at>>
  BY DEF Arrive
<1>3. place' \in DOMAIN out /\ out[place'].label = at
  <2>1. CASE out[place].label \in Labels(fn)
    <3>1. \A p \in Labels(fn) : out[place] # Trampoline(fn, p, at)
      BY <2>1, <1>1, TrampolineLabels DEF Trampoline
    <3>2. out[place].label = at /\ place' = place
      BY <3>1, <2>1, <1>1 DEF LandedOn, Arrive
    <3> QED
      BY <3>2, <1>1
  <2>2. CASE out[place].label \notin Labels(fn)
    <3>1. PICK p \in Labels(fn) : out[place] = Trampoline(fn, p, at)
      BY <2>2, <1>1 DEF LandedOn
    <3>2. out[place].target = at
      BY <3>1 DEF Trampoline
    <3>3. place' = IndexOf(out, at)
      BY <3>2, <2>2 DEF Arrive
    <3> QED
      BY <3>3, <1>1, BlockFound
  <2> QED
    BY <2>1, <2>2
<1> QED
  BY <1>1, <1>2, <1>3 DEF PlaceInv

LEMMA PlaceNext == PlaceInv /\ [Next]_vars => PlaceInv'
<1> SUFFICES ASSUME PlaceInv, [Next]_vars PROVE PlaceInv'
  OBVIOUS
<1>1. ASSUME NEW r \in Word, Execute(r) PROVE PlaceInv'
  BY <1>1 DEF PlaceInv, Execute
<1>2. CASE InlineCopies
  BY <1>2 DEF PlaceInv, InlineCopies
<1>3. CASE Return
  BY <1>3 DEF PlaceInv, Return
<1>4. CASE UNCHANGED vars
  BY <1>4 DEF PlaceInv, vars
<1> QED
  BY <1>1, <1>2, <1>3, <1>4, PlaceGoExplicit, PlaceFallThrough, PlaceArrive DEF Next

(* Splitting critical edges keeps the control flow (destruct.py:12-19): for *)
(* any function with numbered blocks, whatever its jumps and phis, the      *)
(* rewritten function is at the block the SSA function is about to run.     *)
THEOREM PlaceTheorem == Spec => []SamePlace
<1>1. Init => PlaceInv
  BY PlaceInit
<1>2. PlaceInv /\ [Next]_vars => PlaceInv'
  BY PlaceNext
<1>3. PlaceInv => SamePlace
  BY DEF PlaceInv, SamePlace
<1> QED
  BY <1>1, <1>2, <1>3, PTL DEF Spec
=============================================================================
