----------------------------- MODULE Dominance ------------------------------
(***************************************************************************)
(* symphony/middle/analysis/dominance.py: the depth-first order of a        *)
(* function's blocks, Cooper, Harvey and Kennedy's iteration for immediate  *)
(* dominators, dominance frontiers and natural loops.                       *)
(*                                                                          *)
(* Blocks are numbered in serialization order, the entry being 1; a block   *)
(* has at most two successors (a branch and its fallthrough).  Labels sort  *)
(* as the numbers do.                                                       *)
(***************************************************************************)
EXTENDS Naturals, Sequences, FiniteSets, SequencesExt, FiniteSetsExt

CONSTANT Size  \* number of blocks

ASSUME DominanceAssumption == Size \in Nat \ {0}

Blocks == 1 .. Size
Entry == 1

VARIABLES
  succ,     \* block -> its successors
  stack,    \* visits in progress
  visited,
  order,    \* blocks whose visit ended, the last one first
  idom,     \* block -> its immediate dominator, as far as known
  i,        \* position in order of the next block to process
  changed,
  phase     \* "visit", "idom", "done"

vars == <<succ, stack, visited, order, idom, i, changed, phase>>

PredecessorSet(b) == {p \in Blocks : b \in succ[p]}

Init ==
  /\ succ \in [Blocks -> {S \in SUBSET Blocks : Cardinality(S) <= 2}]
  /\ stack = <<Entry>>
  /\ visited = {Entry}
  /\ order = << >>
  /\ idom = << >>
  /\ i = 0
  /\ changed = FALSE
  /\ phase = "visit"

(* _reverse_postorder: the next successor nobody visited, or back.          *)
Descend ==
  /\ phase = "visit"
  /\ LET open == succ[Last(stack)] \ visited
     IN  /\ open # {}
         /\ stack' = Append(stack, Min(open))
         /\ visited' = visited \cup {Min(open)}
  /\ UNCHANGED <<succ, order, idom, i, changed, phase>>

Retreat ==
  /\ phase = "visit"
  /\ succ[Last(stack)] \subseteq visited
  /\ order' = Cons(Last(stack), order)
  /\ stack' = Front(stack)
  /\ IF Len(stack) = 1
       THEN /\ phase' = "idom"
            /\ idom' = [b \in {Entry} |-> Entry]
            /\ i' = 2
       ELSE UNCHANGED <<phase, idom, i>>
  /\ UNCHANGED <<succ, visited, changed>>

-----------------------------------------------------------------------------
Position(b) == CHOOSE k \in DOMAIN order : order[k] = b

(* _intersect: of two fingers the one further from the entry climbs, until  *)
(* they meet.  Meeting[n] says where fingers meet that move n times at most, *)
(* and no two move more often than their positions say.                     *)
Meeting ==
  LET meet[n \in 0 .. 2 * Len(order)] ==
        [x \in DOMAIN idom |-> [y \in DOMAIN idom |->
           IF n = 0 \/ x = y THEN x
           ELSE IF Position(x) > Position(y) THEN meet[n-1][idom[x]][y]
           ELSE meet[n-1][x][idom[y]]]]
  IN  meet
Intersect(a, b) == Meeting[2 * Len(order)][a][b]

(* The meet of b's processed predecessors, of which there may be None: they *)
(* are taken in the order build_cfg appends them, that of the blocks.       *)
None == 0
Meets(b) ==
  LET new[p \in 0 .. Size] ==
        IF p = 0 THEN None
        ELSE IF ~ (p \in DOMAIN idom /\ b \in succ[p]) THEN new[p-1]
        ELSE IF new[p-1] = None THEN p
        ELSE Intersect(p, new[p-1])
  IN  new
NewIdom(b) == Meets(b)[Size]

Process ==
  /\ phase = "idom"
  /\ i <= Len(order)
  /\ LET b == order[i]
     IN  IF /\ \E p \in PredecessorSet(b) : p \in DOMAIN idom
            /\ b \in DOMAIN idom => idom[b] # NewIdom(b)
           THEN /\ idom' = [c \in DOMAIN idom \cup {b} |-> IF c = b THEN NewIdom(b) ELSE idom[c]]
                /\ changed' = TRUE
           ELSE UNCHANGED <<idom, changed>>
  /\ i' = i + 1
  /\ UNCHANGED <<succ, stack, visited, order, phase>>

(* Mutant: one pass is enough.                                              *)
EndPassOnce ==
  /\ phase = "idom"
  /\ i > Len(order)
  /\ phase' = "done"
  /\ UNCHANGED <<succ, stack, visited, order, idom, i, changed>>

(* Mutant: `changed` is not reset.                                          *)
EndPassForever ==
  /\ phase = "idom"
  /\ i > Len(order)
  /\ IF changed
       THEN i' = 2 /\ UNCHANGED <<changed, phase>>
       ELSE phase' = "done" /\ UNCHANGED <<i, changed>>
  /\ UNCHANGED <<succ, stack, visited, order, idom>>

EndPass ==
  /\ phase = "idom"
  /\ i > Len(order)
  /\ IF changed
       THEN i' = 2 /\ changed' = FALSE /\ UNCHANGED phase
       ELSE phase' = "done" /\ UNCHANGED <<i, changed>>
  /\ UNCHANGED <<succ, stack, visited, order, idom>>

Next == Descend \/ Retreat \/ Process \/ EndPass

Spec == Init /\ [][Next]_vars
FairSpec == Spec /\ WF_vars(Next)

-----------------------------------------------------------------------------
(* b and what idom says of it, up to the entry: what `dominates` and the    *)
(* frontier's runner walk.                                                  *)
Climb(b) ==
  LET step[n \in 0 .. Size] ==
        IF n = 0 THEN b
        ELSE IF step[n-1] \in DOMAIN idom THEN idom[step[n-1]] ELSE step[n-1]
  IN  step
Chain(b) == {Climb(b)[n] : n \in 0 .. Size}

(* DominatorTree.dominates.                                                 *)
TreeDominates(a, b) == a \in Chain(b)

(* Mutant: a block with two predecessors is no join.                        *)
FrontierOfThree(r) ==
  {b \in DOMAIN idom :
     /\ Cardinality(PredecessorSet(b)) > 2
     /\ \E p \in PredecessorSet(b) \cap DOMAIN idom : r \in Chain(p) \ Chain(idom[b])}

(* The frontier of r: joins b with a predecessor whose runner, on its way   *)
(* up to b's immediate dominator, comes by r.                               *)
Frontier(r) ==
  {b \in DOMAIN idom :
     /\ Cardinality(PredecessorSet(b)) >= 2
     /\ \E p \in PredecessorSet(b) \cap DOMAIN idom : r \in Chain(p) \ Chain(idom[b])}

(* Everything that reaches S backwards without passing `header`.            *)
Backwards(S, header) ==
  LET grow[n \in 0 .. Size] ==
        IF n = 0 THEN S
        ELSE grow[n-1] \cup UNION {PredecessorSet(b) : b \in grow[n-1] \ {header}}
  IN  grow[Size]

BackEdges == {e \in Blocks \X Blocks : e[2] \in succ[e[1]] /\ TreeDominates(e[2], e[1])}

(* Mutant: the walk goes on through the header.                             *)
LoopBlocksThrough(header) ==
  {header} \cup Backwards({e[1] : e \in {f \in BackEdges : f[2] = header}}, 0)

(* find_natural_loops: the blocks of the loops at a header, merged.         *)
LoopBlocks(header) ==
  {header} \cup Backwards({e[1] : e \in {f \in BackEdges : f[2] = header}}, header)

Headers == {e[2] : e \in BackEdges}

(* construct.py: where a variable assigned in d gets phis, the worklist of  *)
(* frontiers of frontiers.                                                  *)
PhiBlocks(d) ==
  LET grow[n \in 0 .. Size] ==
        IF n = 0 THEN Frontier(d) ELSE grow[n-1] \cup UNION {Frontier(b) : b \in grow[n-1]}
  IN  grow[Size]

-----------------------------------------------------------------------------
(* What these are in terms of paths.                                        *)
Reach(avoided) ==
  LET grow[n \in 0 .. Size] ==
        IF n = 0 THEN {Entry} \ avoided
        ELSE grow[n-1] \cup ((UNION {succ[b] : b \in grow[n-1]}) \ avoided)
  IN  grow[Size]
Reachable == Reach({})
Dominates(a, b) == a = b \/ (b \in Reachable /\ b \notin Reach({a}))
StrictlyDominates(a, b) == a # b /\ Dominates(a, b)

(* When nothing changes any more, idom is the immediate dominator of every  *)
(* block that can be reached and of no other.                               *)
ImmediateDominators ==
  phase = "done" =>
    /\ DOMAIN idom = Reachable
    /\ \A b \in Reachable \ {Entry} :
         /\ StrictlyDominates(idom[b], b)
         /\ \A a \in Reachable : StrictlyDominates(a, b) => Dominates(a, idom[b])

InFrontier(r, b) ==
  /\ \E p \in PredecessorSet(b) \cap Reachable : Dominates(r, p)
  /\ ~ StrictlyDominates(r, b)

(* The frontiers are the dominance frontiers where phis have to go          *)
(* (dominance.py:89-100, used by construct.py:122-140), in a function       *)
(* nothing of which jumps back to its first block.                          *)
FrontiersExact ==
  phase = "done" /\ PredecessorSet(Entry) \cap Reachable = {} =>
    \A r \in Reachable, b \in Reachable : b \in Frontier(r) <=> InFrontier(r, b)

(* A loop is its header and the blocks the header dominates that reach one  *)
(* of its back edges without it, unreachable blocks aside; so nothing but   *)
(* the header is entered from outside.                                      *)
LoopsAreNatural ==
  phase = "done" =>
    \A h \in Headers \cap Reachable :
      LET sources == {p \in PredecessorSet(h) \cap Reachable : Dominates(h, p)}
          L == LoopBlocks(h) \cap Reachable
      IN  /\ sources \subseteq L
          /\ \A b \in L : Dominates(h, b)
          /\ \A u \in Reachable \ L : succ[u] \cap L \subseteq {h}
          /\ \A b \in L \ {h} : succ[b] \cap L # {}

(* The iteration comes to an end.                                           *)
Converges == <>(phase = "done")

=============================================================================
