----------------------------- MODULE SimplifyCfg -----------------------------
(***************************************************************************)
(* The loops of simplify_control_flow in symphony/middle/ssa/simplify_cfg.py*)
(* as functions of the program: Pruned, one round of _thread_jumps, and the *)
(* erasure of branches, jumps and labels.  A block also has `named`: it     *)
(* carries a label instruction, which is what makes it a key of             *)
(* label_blocks.                                                            *)
(***************************************************************************)
EXTENDS Cfg, Naturals, Sequences, SequencesExt, Functions

(* prune_unreachable_blocks: without an unreachable block nothing is done,  *)
(* not even to a phi operand whose edge has gone.                           *)
Pruned(f) ==
  LET reachable == Reachable(f)
  IN  IF reachable = Labels(f) THEN f
      ELSE Reconciled(SelectSeq(f, LAMBDA block : block.label \in reachable))

IsTrampoline(block) == block.phis = << >> /\ block.body = << >> /\ block.term = "jump"

Threadable(f) ==
  [label \in {l \in Labels(f) : IsTrampoline(BlockOf(f, l))} |-> BlockOf(f, label).target]

(* The block that was `source -> old` reaches `new` directly: its phis get  *)
(* for `source` what they have for `old`.                                   *)
Retargeted(f, source, old, new) ==
  [i \in DOMAIN f |->
     IF f[i].label # new THEN f[i]
     ELSE [f[i] EXCEPT !.phis = [k \in DOMAIN @ |-> [@[k] EXCEPT !.from =
            IF old \notin DOMAIN @ \/ source \in DOMAIN @ THEN @
            ELSE [p \in DOMAIN @ \cup {source} |-> IF p = source THEN @[old] ELSE @[p]]]]]]

(* Two edges from one block to the same phis would be one edge.             *)
MayThread(f, i, new) == new # f[i].label /\ new \notin Successors(f, i)

(* One round: every explicit edge into a trampoline of the round's start,   *)
(* in block order, goes to where that trampoline jumped at the start.       *)
ThreadRound(f) ==
  LET targets == Threadable(f)
      redirect(g, i) ==
        IF ExplicitTargets(g[i]) \cap DOMAIN targets = {} THEN g
        ELSE LET old == g[i].target
                 new == targets[old]
             IN  IF new = old \/ ~ MayThread(f, i, new) THEN g
                 ELSE Retargeted([g EXCEPT ![i].target = new], g[i].label, old, new)
  IN  FoldLeft(redirect, f, [i \in DOMAIN f |-> i])

-----------------------------------------------------------------------------
(* Where a chain of blocks that do nothing ends.  The successors are those  *)
(* of the CFG that was built before the first branch was erased.            *)
PassesThrough(cfg, g, label) ==
  LET block == BlockOf(g, label)
  IN  /\ block.phis = << >> /\ block.body = << >>
      /\ block.term \in {"jump", "fall"}
      /\ Cardinality(Successors(cfg, IndexOf(cfg, label))) = 1

Hop(cfg, label) == CHOOSE s \in Successors(cfg, IndexOf(cfg, label)) : TRUE

(* The labels met from `label` on, up to the first that does something or   *)
(* that was met before.                                                     *)
Chain(cfg, g, label) ==
  LET grow(chain, n) ==
        LET end == Last(chain)
        IN  IF PassesThrough(cfg, g, end) /\ \A k \in 1 .. Len(chain) - 1 : chain[k] # end
              THEN Append(chain, Hop(cfg, end)) ELSE chain
  IN  FoldLeft(grow, <<label>>, cfg)

TrivialDestination(cfg, g, label) == Last(Chain(cfg, g, label))

(* The predecessor by which a chain from `source` enters its destination.   *)
IncomingLabel(cfg, g, source, label) ==
  LET chain == <<source>> \o Chain(cfg, g, label)
  IN  chain[SelectInSubSeq(chain, 2, Len(chain), LAMBDA l : l = Last(chain)) - 1]

(* Mutant: a common destination is enough.                                  *)
AnyPhiInputs(cfg, g, source, successors, destination) == TRUE

EqualPhiInputs(cfg, g, source, successors, destination) ==
  LET ways == {IncomingLabel(cfg, g, source, s) : s \in successors}
  IN  \A phi \in ToSet(BlockOf(g, destination).phis) :
        /\ ways \subseteq DOMAIN phi.from
        /\ Cardinality({phi.from[p] : p \in ways}) = 1

(* A branch to the very next block has one successor, not the two that      *)
(* equal_phi_inputs takes: a TypeError.                                     *)
BranchesOneWay(f) ==
  \E i \in 1 .. Len(f) - 1 : f[i].term \in Branches /\ Cardinality(Successors(f, i)) = 1

(* A branch both ways of which lead to one block with the same phi values   *)
(* is popped; its operand in the phis of that block is left alone.          *)
BranchesErased(f) ==
  LET erase(g, i) ==
        LET ends == {TrivialDestination(f, g, s) : s \in Successors(f, i)}
        IN  IF /\ i < Len(f) /\ g[i].term \in Branches
               /\ Cardinality(ends) = 1
               /\ EqualPhiInputs(f, g, g[i].label, Successors(f, i), CHOOSE e \in ends : TRUE)
            THEN [g EXCEPT ![i].term = "fall", ![i].target = 0, ![i].reads = << >>]
            ELSE g
  IN  FoldLeft(erase, f, [i \in DOMAIN f |-> i])

(* A jump to the next block is a fallthrough.                               *)
JumpsErased(f) ==
  [i \in DOMAIN f |->
     IF i < Len(f) /\ f[i].term = "jump" /\ f[i].target = f[i+1].label
       THEN [f[i] EXCEPT !.term = "fall", !.target = 0] ELSE f[i]]

(* The label of a block that nothing jumps to goes.                         *)
LabelsErased(f) ==
  LET referenced == UNION {ExplicitTargets(f[i]) : i \in DOMAIN f}
  IN  [i \in DOMAIN f |-> [f[i] EXCEPT !.named = @ /\ f[i].label \in referenced]]
=============================================================================
