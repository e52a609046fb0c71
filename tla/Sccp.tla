--------------------------------- MODULE Sccp ---------------------------------
(***************************************************************************)
(* Sparse conditional constant propagation, symphony/middle/ssa/sccp.py.    *)
(* The analysis is a record                                                 *)
(*   cells    value_of: a constant, Unknown or Varying for every SSA value  *)
(*   edges    executable_edges                                              *)
(*   reached  reachable_blocks                                              *)
(*   work     block_worklist                                                *)
(* Visited is what one block taken off the worklist does to it, SccpRewritten*)
(* the function that is emitted once the worklist is empty.                 *)
(***************************************************************************)
EXTENDS Execution, Functions

CONSTANTS Unknown, Varying

IsConstant(cell) == cell \notin {Unknown, Varying}

(* Mutant: of two constants the last one is kept.                           *)
MeetLatest(a, b) == IF b = Unknown THEN a ELSE b

Meet(a, b) ==
  IF a = Unknown THEN b
  ELSE IF b = Unknown THEN a
  ELSE IF a = b THEN a ELSE Varying

(* The blocks that read a value, its phis included.                         *)
Readers(f, v) ==
  {b.label : b \in {c \in ToSet(f) :
     \/ \E phi \in ToSet(c.phis) : v \in Range(phi.from)
     \/ \E item \in ToSet(c.body) : v \in ToSet(item.args)
     \/ v \in ToSet(c.reads)}}

Cell(cells, v) == IF v = NoValue THEN Unknown ELSE cells[v]

Cells(cells, values) == [a \in DOMAIN values |-> Cell(cells, values[a])]

EvaluatePhi(cells, edges, label, phi) ==
  LET operands == SetToSeq({Cell(cells, phi.from[p]) :
                              p \in {q \in DOMAIN phi.from : <<q, label>> \in edges}})
  IN  FoldLeft(Meet, Unknown, operands)

Folded(op, args) ==
  LET result == Fold(op, args[1], args[2])
  IN  IF result = Undef THEN Varying ELSE result

Evaluate(cells, item) ==
  LET args == Cells(cells, item.args)
  IN  CASE item.op = "const" -> item.extra
        [] item.op = "copy"  -> args[1]
        [] item.op = "binary" /\ \A a \in DOMAIN args : IsConstant(args[a]) ->
             Folded(item.extra, args)
        [] OTHER -> Varying

(* The cells after the definitions of a block, in order.                    *)
Derived(analysis, block) ==
  LET set(cells, v, new) == IF v = NoValue THEN cells ELSE [cells EXCEPT ![v] = new]
      afterPhis == FoldLeft(LAMBDA cells, phi :
                              set(cells, phi.dst,
                                  EvaluatePhi(cells, analysis.edges, block.label, phi)),
                            analysis.cells, block.phis)
  IN  FoldLeft(LAMBDA cells, item : set(cells, item.dst, Evaluate(cells, item)),
               afterPhis, block.body)

(* A constant, Unknown or Varying; a constant is TRUE for nonzero.          *)
BranchOutcome(cells, block) ==
  LET args == Cells(cells, block.reads)
  IN  IF \A a \in DOMAIN args : IsConstant(args[a])
        THEN IF block.term = "branch_if" THEN args[1] # 0
             ELSE Fold(block.test, args[1], args[2]) = 1
        ELSE IF Varying \in ToSet(args) THEN Varying ELSE Unknown

(* The successors whose edge is now executable.                             *)
LiveSuccessors(f, cells, block) ==
  LET all == Successors(f, IndexOf(f, block.label))
      outcome == BranchOutcome(cells, block)
      takenIsTarget == IF block.term = "branch_if" THEN block.test ELSE TRUE
  IN  CASE block.term \notin Branches \/ outcome = Varying -> all
        [] outcome = Unknown -> {}
        [] outcome = takenIsTarget -> {block.target}
        [] OTHER -> all \ {block.target}

(* label_blocks: a branch is looked up by the label instruction it names.   *)
TargetIsNamed(f, block) == block.term \in Branches => BlockOf(f, block.target).named

(* A new edge queues its target if that is new or has phis to merge.        *)
Queued(f, new, reached) ==
  {t \in {edge[2] : edge \in new} : t \notin reached \/ BlockOf(f, t).phis # << >>}

Visited(f, analysis, label) ==
  LET block == BlockOf(f, label)
      cells == Derived(analysis, block)
      changed == {v \in Value : cells[v] # analysis.cells[v]}
      readers == UNION {Readers(f, v) : v \in changed}
      new == ({label} \X LiveSuccessors(f, cells, block)) \ analysis.edges
  IN  [cells |-> cells,
       edges |-> analysis.edges \cup new,
       reached |-> analysis.reached \cup {edge[2] : edge \in new},
       work |-> (analysis.work \ {label}) \cup (readers \cap analysis.reached)
                  \cup Queued(f, new, analysis.reached)]

StartAnalysis(f) ==
  [cells |-> [v \in Value |-> Unknown], edges |-> {},
   reached |-> {f[1].label}, work |-> {f[1].label}]

-----------------------------------------------------------------------------
ConstItem(v, c) == [op |-> "const", dst |-> v, args |-> << >>, extra |-> c]

CopyItem(v, source) == [op |-> "copy", dst |-> v, args |-> <<source>>, extra |-> 0]

(* A phi that is a constant, or that has one operand, becomes an ordinary   *)
(* definition and goes behind the phis that stay.                           *)
IsKept(cells, phi) == ~ IsConstant(cells[phi.dst]) /\ Cardinality(DOMAIN phi.from) # 1

Converted(cells, phi) ==
  IF IsConstant(cells[phi.dst]) THEN ConstItem(phi.dst, cells[phi.dst])
  ELSE CopyItem(phi.dst, phi.from[CHOOSE p \in DOMAIN phi.from : TRUE])

RewrittenItem(cells, item) ==
  IF item.op \in {"copy", "binary"} /\ IsConstant(cells[item.dst])
    THEN ConstItem(item.dst, cells[item.dst]) ELSE item

RewrittenTerm(edges, block) ==
  LET live == {edge[2] : edge \in {e \in edges : e[1] = block.label}}
  IN  CASE block.term \notin Branches -> block
        [] block.target \notin live -> [block EXCEPT !.term = "fall", !.target = 0, !.reads = << >>]
        [] Cardinality(live) = 1 -> [block EXCEPT !.term = "jump", !.reads = << >>]
        [] OTHER -> block

RewrittenBlock(analysis, block) ==
  LET cells == analysis.cells
      gone == SelectSeq(block.phis, LAMBDA phi : ~ IsKept(cells, phi))
      items == [k \in DOMAIN gone |-> Converted(cells, gone[k])]
  IN  IF block.label \notin analysis.reached THEN block
      ELSE [RewrittenTerm(analysis.edges, block) EXCEPT
              !.phis = SelectSeq(@, LAMBDA phi : IsKept(cells, phi)),
              !.body = items \o [k \in DOMAIN @ |-> RewrittenItem(cells, @[k])]]

(* Last, the phi operands of the edges that branch rewriting removed go.    *)
SccpRewritten(f, analysis) == Reconciled([i \in DOMAIN f |-> RewrittenBlock(analysis, f[i])])
=============================================================================
