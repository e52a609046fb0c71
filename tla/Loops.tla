-------------------------------- MODULE Loops --------------------------------
(***************************************************************************)
(* The natural loops of a function of Cfg, and the passes of                *)
(* symphony/middle/ssa that need nothing else: hoist.py moves what does not *)
(* change in a loop in front of it, unless that makes too many values live  *)
(* (analysis/profitability.py).                                             *)
(*                                                                          *)
(* A loop is a record of its header, of the latches that jump back to the   *)
(* header and of its blocks.                                                *)
(***************************************************************************)
EXTENDS Passes

BackEdges(f) ==
  {e \in UNION {{f[i].label} \X Successors(f, i) : i \in DOMAIN f} : Dominates(f, e[2], e[1])}

(* What reaches `label` without going through the header.                   *)
Backwards(f, label, header) ==
  LET grow(S, block) == S \cup UNION {Predecessors(f, l) : l \in S \ {header}}
  IN  FoldLeft(grow, {label}, f)

LoopAt(f, header) ==
  LET latches == {e[1] : e \in {edge \in BackEdges(f) : edge[2] = header}}
  IN  [header |-> header, latches |-> latches,
       blocks |-> {header} \cup UNION {Backwards(f, l, header) : l \in latches}]

NaturalLoops(f) == {LoopAt(f, e[2]) : e \in BackEdges(f)}

(* The smallest loop first; of two of a size the one that was found first.  *)
LoopsBySize(f) ==
  LET found(loop) == Min({IndexOf(f, l) : l \in loop.latches})
      size(loop) == Cardinality(loop.blocks)
      before(a, b) == size(a) < size(b) \/ (size(a) = size(b) /\ found(a) < found(b))
  IN  SetToSortSeq(NaturalLoops(f), before)

(* Where a loop is entered from.                                            *)
Entries(f, loop) == Predecessors(f, loop.header) \ loop.blocks

Preheader(f, loop) == CHOOSE label \in Entries(f, loop) : TRUE

Exits(f, loop) ==
  UNION {Successors(f, IndexOf(f, label)) : label \in loop.blocks} \ loop.blocks

(* The blocks of f that are in the loop, or those that are not.             *)
Inside(f, loop) == SelectSeq(f, LAMBDA block : block.label \in loop.blocks)

Outside(f, loop) == SelectSeq(f, LAMBDA block : block.label \notin loop.blocks)

(* What items and terminators read.                                         *)
DirectReads(blocks) ==
  UNION ({ToSet(item.args) : item \in ItemsOf(blocks)}
           \cup {ToSet(block.reads) : block \in ToSet(blocks)})

-----------------------------------------------------------------------------
(* hoist.py: the pure items of a loop whose operands are defined outside of *)
(* it or by such items.                                                     *)
Invariants(f, loop) ==
  LET items == {item \in ItemsOf(Inside(f, loop)) : item.op \in Pure}
      outside == Defined(Outside(f, loop))
      grow(S, n) == S \cup {item.dst : item \in {it \in items : ToSet(it.args) \subseteq outside \cup S}}
  IN  FoldLeft(grow, {}, [n \in 1 .. Cardinality(items) |-> n])

(* They go to the end of the block the loop is entered from, in the order   *)
(* of the text.                                                             *)
Hoisted(f, loop) ==
  LET moved == Invariants(f, loop)
      isMoved(item) == item.dst \in moved
      isLeft(item) == item.dst \notin moved
      preamble == FoldLeft(LAMBDA items, block : items \o SelectSeq(block.body, isMoved),
                           << >>, Inside(f, loop))
  IN  [i \in DOMAIN f |->
         CASE f[i].label \in loop.blocks -> [f[i] EXCEPT !.body = SelectSeq(@, isLeft)]
           [] f[i].label = Preheader(f, loop) -> [f[i] EXCEPT !.body = @ \o preamble]
           [] OTHER -> f[i]]

(* There is one block to move them to, and something to move.               *)
Hoistable(f, loop) == Cardinality(Entries(f, loop)) = 1 /\ Invariants(f, loop) # {}

-----------------------------------------------------------------------------
(* profitability.py: the values live at every point of a function, those    *)
(* left out that are cheaper to compute again.                              *)
Rematerialized(f) == {item.dst : item \in {it \in ItemsOf(f) : it.op = "const"}}

LiveBeforeItem(live, dst, args) == (live \ {dst}) \cup ToSet(args)

(* What is live before the terminator and before each item of a block, from *)
(* the end of the block backwards.                                          *)
LivePoints(block, out) ==
  FoldRight(LAMBDA item, points :
              <<LiveBeforeItem(points[1], item.dst, item.args)>> \o points,
            block.body, << out \cup ToSet(block.reads), out >>)

LiveIn(block, out) == LivePoints(block, out)[1] \ {phi.dst : phi \in ToSet(block.phis)}

(* Live at the end of every block: a phi reads its operand on the edge.     *)
LiveOut(f) ==
  LET out(live, i) ==
        UNION {LiveIn(f[j], live[j])
                 \cup {phi.from[f[i].label] :
                         phi \in {p \in ToSet(f[j].phis) : f[i].label \in DOMAIN p.from}} :
               j \in {k \in DOMAIN f : f[k].label \in Successors(f, i)}}
  IN  FoldLeft(LAMBDA live, n : [i \in DOMAIN f |-> out(live, i)],
               [i \in DOMAIN f |-> {}], [n \in 1 .. Len(f) |-> n])

PeakLive(f) ==
  LET live == LiveOut(f)
      ignored == Rematerialized(f) \cup {NoValue}
      points == UNION {ToSet(LivePoints(f[i], live[i])) : i \in DOMAIN f}
  IN  Max({Cardinality(point \ ignored) : point \in points})

(* hoist_loop_invariants takes a loop's rewriting back if it raises the     *)
(* peak above the budget.                                                   *)
TooMuchPressure(f, loop, budget) ==
  PeakLive(Hoisted(f, loop)) > Max({PeakLive(f), budget})
=============================================================================
