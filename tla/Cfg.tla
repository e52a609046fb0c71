-------------------------------- MODULE Cfg --------------------------------
(***************************************************************************)
(* A function in SSA form and its control-flow graph: build_cfg, reachable  *)
(* and dominates of symphony/middle/analysis, and the well-formedness that  *)
(* symphony/middle/ssa/verify.py asks of a function.                        *)
(*                                                                          *)
(* A function is the sequence of its blocks in serialization order, because *)
(* the position of a block is what its predecessor's fallthrough means.  A  *)
(* block is a record                                                        *)
(*   label   its identity                                                   *)
(*   phis    sequence of [dst, from], `from` mapping a predecessor's label  *)
(*           to a value, or to NoValue                                      *)
(*   body    sequence of [op, dst, args], dst being NoValue when there is   *)
(*           no result                                                      *)
(*   term    "jump", "branch_if", "cbranch_if", "return" or "fall" (no      *)
(*           terminator)                                                    *)
(*   target  the label a jump or a taken branch goes to                     *)
(*   reads   the values a branch or a return reads                          *)
(* Label aliases, types and payloads are abstracted.                        *)
(***************************************************************************)
LOCAL INSTANCE Naturals
LOCAL INSTANCE Sequences
LOCAL INSTANCE FiniteSets

NoValue == 0

Labels(fn) == {fn[i].label : i \in DOMAIN fn}

IndexOf(fn, label) == CHOOSE i \in DOMAIN fn : fn[i].label = label

BlockOf(fn, label) == fn[IndexOf(fn, label)]

Branches == {"branch_if", "cbranch_if"}

FallsThrough(fn, i) == i < Len(fn) /\ fn[i].term \in Branches \cup {"fall"}

ExplicitTargets(block) ==
  IF block.term \in Branches \cup {"jump"} THEN {block.target} ELSE {}

Successors(fn, i) ==
  (ExplicitTargets(fn[i]) \cap Labels(fn))
    \cup (IF FallsThrough(fn, i) THEN {fn[i+1].label} ELSE {})

Predecessors(fn, label) ==
  {fn[i].label : i \in {j \in DOMAIN fn : label \in Successors(fn, j)}}

(* Labels reached from `start` by paths that stay out of `avoided`.         *)
Reach(fn, start, avoided) ==
  LET step(S) == S \cup (UNION {Successors(fn, IndexOf(fn, l)) : l \in S} \ avoided)
      grow[n \in Nat] == IF n = 0 THEN {start} \ avoided ELSE step(grow[n-1])
  IN  grow[Len(fn)]

ReachableFrom(fn, label) == Reach(fn, label, {})

Reachable(fn) == ReachableFrom(fn, fn[1].label)

(* Every path from the entry to b goes through a.                           *)
Dominates(fn, a, b) ==
  \/ a = b
  \/ b \in Reachable(fn) /\ b \notin Reach(fn, fn[1].label, {a})

(* Phi operands of edges that no longer exist go.                           *)
Reconciled(fn) ==
  [i \in DOMAIN fn |->
     [fn[i] EXCEPT !.phis =
        [k \in DOMAIN @ |->
           [@[k] EXCEPT !.from =
              [p \in (DOMAIN @) \cap Predecessors(fn, fn[i].label) |-> @[p]]]]]]

(* The definitions of a block, phis first, in textual order.                *)
DefsOf(block) ==
  [k \in 1 .. Len(block.phis) |-> block.phis[k].dst]
    \o [k \in 1 .. Len(block.body) |-> block.body[k].dst]

DefSites(fn, v) ==
  UNION {{<<i, k>> : k \in {d \in DOMAIN DefsOf(fn[i]) : DefsOf(fn[i])[d] = v}} :
           i \in DOMAIN fn}

Defined(fn) ==
  UNION {{DefsOf(fn[i])[k] : k \in DOMAIN DefsOf(fn[i])} : i \in DOMAIN fn}
    \ {NoValue}

DefSite(fn, v) == CHOOSE site \in DefSites(fn, v) : TRUE

(* Value v may be read by item k of block i.                                *)
Available(fn, v, i, k) ==
  LET site == DefSite(fn, v)
  IN  /\ v \in Defined(fn)
      /\ IF site[1] = i THEN site[2] < k
                        ELSE Dominates(fn, fn[site[1]].label, fn[i].label)

(* A phi operand has to dominate only the predecessor it comes from.        *)
PhiOk(fn, i, phi) ==
  /\ DOMAIN phi.from = Predecessors(fn, fn[i].label)
  /\ \A p \in DOMAIN phi.from \cap Reachable(fn) :
       phi.from[p] # NoValue =>
         /\ phi.from[p] \in Defined(fn)
         /\ Dominates(fn, fn[DefSite(fn, phi.from[p])[1]].label, p)

(* `verify` accepts the function.                                           *)
Verified(fn) ==
  /\ \A v \in Defined(fn) : Cardinality(DefSites(fn, v)) = 1
  /\ \A i \in DOMAIN fn : fn[i].label \in Reachable(fn) =>
       /\ \A k \in DOMAIN fn[i].phis : PhiOk(fn, i, fn[i].phis[k])
       /\ \A k \in DOMAIN fn[i].body : \A a \in DOMAIN fn[i].body[k].args :
            fn[i].body[k].args[a] # NoValue =>
              Available(fn, fn[i].body[k].args[a], i, Len(fn[i].phis) + k)
       /\ \A a \in DOMAIN fn[i].reads :
            fn[i].reads[a] # NoValue =>
              Available(fn, fn[i].reads[a], i, Len(DefsOf(fn[i])) + 1)
=============================================================================
