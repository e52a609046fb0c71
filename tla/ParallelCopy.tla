---------------------------- MODULE ParallelCopy ----------------------------
(***************************************************************************)
(* The sequentialization of the copies of one CFG edge, `_sequentialize` in *)
(* symphony/middle/ssa/destruct.py: a worklist emits copies whose           *)
(* destination no pending copy still reads, and breaks a cycle by saving    *)
(* one source in a fresh value.                                             *)
(*                                                                          *)
(* `store` is what the values hold after the copies emitted so far, so that *)
(* what the emitted sequence computes can be compared with the simultaneous *)
(* assignment the phis denote (module ParallelAssign).  The dictionary's    *)
(* iteration order is left open: a batch is emitted in any order and any    *)
(* pair of a cycle may be the one that is broken.                           *)
(***************************************************************************)
EXTENDS Naturals, Sequences, FiniteSets

CONSTANTS Count,     \* the function's SSA values are 0 .. Count-1 on entry
          Contents   \* run-time contents of a value

ASSUME CountAssumption == Count \in Nat

VARIABLES
  pairs,     \* the requested assignment, destination -> source
  pending,   \* the pairs not emitted yet
  ready,     \* the destinations of the batch being emitted
  result,    \* the copies emitted, as <<destination, source>>
  values,    \* function.values: the next fresh value
  store,     \* contents of every value after `result`
  old        \* contents of every SSA value before the edge

copyVars == <<pairs, pending, ready, result, values, store, old>>

SsaValue == 0 .. Count-1

PartialMaps(S) == UNION {[D -> S] : D \in SUBSET S}

(* A pending function without one of its destinations (`pending.pop`).      *)
Without(p, dst) == [d \in DOMAIN p \ {dst} |-> p[d]]

(* `sources`: what the pending copies still have to read.                   *)
Sources == {pending[d] : d \in DOMAIN pending}

(* Mutant: the dependency reversed, as in testing whether the source is a   *)
(* destination.                                                             *)
ReadyReversed == {d \in DOMAIN pending : pending[d] \notin DOMAIN pending
                                          \/ pending[d] = d}

ReadySet == {d \in DOMAIN pending : d \notin Sources \/ pending[d] = d}

CopyInit ==
  /\ pairs \in PartialMaps(SsaValue)
  /\ pending = pairs
  /\ ready = {}
  /\ result = << >>
  /\ values = Count
  /\ old \in [SsaValue -> Contents]
  /\ store = old

(* Running the copy `dst := src` in the emitted program.                    *)
Run(dst, src) == store' = [store EXCEPT ![dst] = store[src]]

FindReady ==
  /\ ready = {}
  /\ ReadySet # {}
  /\ ready' = ReadySet
  /\ UNCHANGED <<pairs, pending, result, values, store, old>>

(* One iteration of `for dst in ready`.                                     *)
EmitReady(dst) ==
  /\ dst \in ready
  /\ ready' = ready \ {dst}
  /\ pending' = Without(pending, dst)
  /\ IF pending[dst] = dst
       THEN UNCHANGED <<result, store>>
       ELSE /\ result' = Append(result, <<dst, pending[dst]>>)
            /\ Run(dst, pending[dst])
  /\ UNCHANGED <<pairs, values, old>>

(* Mutant: the temporary saves the destination instead of its source.       *)
BreakCycleSavesDst(dst) ==
  /\ ready = {}
  /\ ReadySet = {}
  /\ dst \in DOMAIN pending
  /\ values' = values + 1
  /\ result' = Append(result, <<values, dst>>)
  /\ store' = [v \in 0 .. values |-> IF v = values THEN store[dst] ELSE store[v]]
  /\ pending' = [pending EXCEPT ![dst] = values]
  /\ UNCHANGED <<pairs, ready, old>>

(* Mutant: the pair keeps reading its old source, so the cycle stays.       *)
BreakCycleKeepsPair(dst) ==
  /\ ready = {}
  /\ ReadySet = {}
  /\ dst \in DOMAIN pending
  /\ values < Count + Count
  /\ values' = values + 1
  /\ result' = Append(result, <<values, pending[dst]>>)
  /\ store' = [v \in 0 .. values |-> IF v = values THEN store[pending[dst]]
                                                 ELSE store[v]]
  /\ UNCHANGED <<pairs, pending, ready, old>>

(* Every remaining pair is on a cycle: copy one source to a fresh value and *)
(* let the pair read that value instead.                                    *)
BreakCycle(dst) ==
  /\ ready = {}
  /\ ReadySet = {}
  /\ dst \in DOMAIN pending
  /\ values' = values + 1
  /\ result' = Append(result, <<values, pending[dst]>>)
  /\ store' = [v \in 0 .. values |-> IF v = values THEN store[pending[dst]]
                                                 ELSE store[v]]
  /\ pending' = [pending EXCEPT ![dst] = values]
  /\ UNCHANGED <<pairs, ready, old>>

CopyNext ==
  \/ FindReady
  \/ \E dst \in SsaValue : EmitReady(dst)
  \/ \E dst \in SsaValue : BreakCycle(dst)

CopySpec == CopyInit /\ [][CopyNext]_copyVars

(* The worklist loop is sequential code: it never stops before it is done.  *)
CopyFairSpec == CopySpec /\ WF_copyVars(CopyNext)

Done == DOMAIN pending = {}

-----------------------------------------------------------------------------
TypeOK ==
  /\ pairs \in PartialMaps(SsaValue)
  /\ values \in Nat /\ Count <= values
  /\ DOMAIN pending \subseteq DOMAIN pairs
  /\ pending \in [DOMAIN pending -> 0 .. values-1]
  /\ ready \subseteq DOMAIN pending
  /\ old \in [SsaValue -> Contents]
  /\ store \in [0 .. values-1 -> Contents]

(* The strengthening that is preserved by every step: a pair that is still  *)
(* pending can still be served from the current store, an emitted one has   *)
(* its final value, and nobody else was touched.                            *)
PairsServed ==
  \A d \in DOMAIN pairs :
    IF d \in DOMAIN pending
      THEN store[pending[d]] = old[pairs[d]]
      ELSE store[d] = old[pairs[d]]

OthersKept == \A v \in SsaValue \ DOMAIN pairs : store[v] = old[v]

BatchIsFree ==
  \A d \in ready : pending[d] = d \/ d \notin Sources

IInv == TypeOK /\ PairsServed /\ OthersKept /\ BatchIsFree

(* No copy of the emitted sequence destroys a value that another phi of the *)
(* edge still has to read, and nothing but the phis' destinations changes:  *)
(* once the worklist is empty the store is that of the simultaneous         *)
(* assignment (destruct.py:22-28).                                          *)
ParallelResult ==
  Done => \A v \in SsaValue : store[v] = IF v \in DOMAIN pairs THEN old[pairs[v]]
                                                          ELSE old[v]

(* The worklist empties whatever the shape of the assignment is: every pass *)
(* of the loop finds a ready copy or makes one.                             *)
Terminates == <>Done

(* Refinement: the emitted sequence implements the simultaneous assignment, *)
(* which takes effect when the last copy has run.                           *)
Abstract ==
  INSTANCE ParallelAssign
    WITH store <- IF Done THEN [v \in SsaValue |-> store[v]] ELSE old,
         assigned <- Done /\ DOMAIN pairs # {}
RefinesParallelAssign == Abstract!PSpec
=============================================================================
