------------------------------ MODULE Optimizer ------------------------------
(***************************************************************************)
(* The scalar and loop part of the pipeline in Compiler.finish: passes over *)
(* one function in the driver's order, `verify` after most of them, every   *)
(* pass on or off as OPTIMIZATIONS says.  SCCP takes blocks off its worklist*)
(* in any order, simplify_control_flow repeats its loops until nothing      *)
(* changes, the loop passes do one loop at a time, the other passes are one *)
(* step each, and a lap of passes is repeated until it changes nothing.     *)
(*                                                                          *)
(* The passes in between that are not modelled (calls, memory, induction    *)
(* variables, tails) are left out of the order.  What follows               *)
(* evaluate_constant_loops and unroll_known_trip_loops is done in any case: *)
(* it is if some function of the module changed.                            *)
(***************************************************************************)
EXTENDS Unroll, SimplifyCfg

CONSTANTS Jobs,           \* pairs of a function and the passes that are on
          Inputs,         \* the arguments its runs are compared on
          Fuel,           \* the blocks of a run of the original that are compared
          RegisterBudget, \* loop_register_budget
          LapLimit        \* loop_fixed_point_iteration_limit

VARIABLES
  fn,        \* the function as it is now
  values,    \* function.values: its next SSA value
  expected,  \* what the function was observed to do before the first pass
  enabled,   \* the passes that are on
  pc,        \* position in Driver
  phase,     \* "pass", a loop of the current pass, "checked", or an end: "done",
             \* "raised" (by verify or a pass) or "diverged"
  analysis,  \* SCCP's state, the headers the hoister skips, or what becomes of a loop
  step,      \* simplify_control_flow: something changed in this iteration
  lap,       \* iterations of the loop fixed point
  changed,   \* something changed in this one
  miscopied  \* history: a loop was unrolled that the unroller cannot copy

vars == <<fn, values, expected, enabled, pc, phase, analysis, step, lap, changed,
          miscopied>>

SCCP == "sccp"
Copies == "global_copy_propagation"
Algebra == "algebraic_simplification"
CSE == "expensive_expression_cse"
Strength == "strength_reduction"
Hoist == "loop_invariant_hoisting"
ZeroTest == "comparison_zero_test_fusion"
Fusion == "comparison_branch_fusion"
Dead == "dead_value_elimination"
Simplify == "cfg_simplification"
ConstantLoops == "constant_loop_evaluation"
FixedPoint == "loop_optimization_fixed_point"
Pressure == "pressure_aware_licm"
UnrollLoops == "known_trip_full_unrolling"

AllPasses ==
  {SCCP, Copies, Algebra, CSE, Strength, Hoist, ZeroTest, Fusion, Dead, Simplify,
   ConstantLoops, FixedPoint, Pressure, UnrollLoops}

FirstPasses ==
  <<SCCP, Copies, Algebra, Copies, CSE, Copies, Strength, Hoist, ZeroTest, Fusion,
    Dead, Simplify, Copies, Dead, Simplify, ConstantLoops, SCCP, Copies, Dead, Simplify>>

(* _optimize_loops_to_fixed_point, with the test at the end of an iteration.*)
LapPasses == <<SCCP, Copies, Algebra, Dead, Simplify, Hoist, Dead, Simplify, FixedPoint>>

LastPasses ==
  <<Copies, Dead, Simplify, SCCP, Dead, Simplify,
    UnrollLoops, SCCP, Copies, Dead, Simplify, Dead, Simplify>>

Driver == FirstPasses \o LapPasses \o LastPasses

LapStart == Len(FirstPasses) + 1
LapPositions == LapStart .. Len(FirstPasses) + Len(LapPasses)

(* `_optional_optimization`: a pass that is off returns False at once.  The  *)
(* next position, from p on, with something to do.                          *)
Upcoming(p) ==
  Min({q \in p .. Len(Driver) :
         /\ Driver[q] \in enabled
         /\ q \in LapPositions => FixedPoint \in enabled} \cup {Len(Driver) + 1})

Init ==
  /\ \E job \in Jobs : fn = job[1] /\ enabled = job[2]
  /\ values = Max(Defined(fn)) + 1
  /\ expected = [input \in Inputs |-> Outcome(fn, input, Fuel)]
  /\ pc = Upcoming(1)
  /\ phase = "pass"
  /\ analysis = << >>
  /\ step = FALSE
  /\ lap = 1
  /\ changed = FALSE
  /\ miscopied = FALSE

At(pass) == phase = "pass" /\ pc <= Len(Driver) /\ Driver[pc] = pass

(* The function becomes `new`.  A lap gathers whether its passes changed it.*)
Rewrite(new) ==
  /\ fn' = new
  /\ changed' = (changed \/ (pc \in LapPositions /\ new # fn))

(* A pass of one walk.                                                      *)
Walk(pass, result) ==
  /\ At(pass)
  /\ Rewrite(result)
  /\ phase' = "checked"
  /\ UNCHANGED <<values, expected, enabled, pc, analysis, step, lap, miscopied>>

PropagateCopies == Walk(Copies, CopiesPropagated(fn))
SimplifyAlgebra == Walk(Algebra, AlgebraSimplified(fn))
EliminateCommonExpressions == Walk(CSE, CommonEliminated(fn))
FuseZeroTests == Walk(ZeroTest, ZeroTestsFused(fn))
FuseBranches == Walk(Fusion, BranchesFused(fn))
RemoveDeadValues == Walk(Dead, DeadRemoved(fn))

(* The one walk that needs new values.                                      *)
ReduceStrength ==
  /\ At(Strength)
  /\ LET reduced == StrengthReduced(fn, values)
     IN  Rewrite(reduced.fn) /\ values' = reduced.next
  /\ phase' = "checked"
  /\ UNCHANGED <<expected, enabled, pc, analysis, step, lap, miscopied>>

-----------------------------------------------------------------------------
(* The rest of a loop of a pass leaves these alone.                         *)
Quiet == UNCHANGED <<values, expected, enabled, pc, lap, miscopied>>

StartSccp ==
  /\ At(SCCP)
  /\ phase' = "sccp"
  /\ analysis' = StartAnalysis(fn)
  /\ Quiet /\ UNCHANGED <<fn, step, changed>>

(* A branch to a block whose label instruction is gone is a KeyError.       *)
Visit(label) ==
  /\ phase = "sccp" /\ label \in analysis.work
  /\ LET after == Visited(fn, analysis, label)
         block == BlockOf(fn, label)
         looked == block.term \in Branches /\ BranchOutcome(after.cells, block) # Unknown
     IN  /\ analysis' = after
         /\ phase' = IF looked /\ ~ TargetIsNamed(fn, block) THEN "raised" ELSE "sccp"
  /\ Quiet /\ UNCHANGED <<fn, step, changed>>

RewriteConstants ==
  /\ phase = "sccp" /\ analysis.work = {}
  /\ IF \A label \in analysis.reached : TargetIsNamed(fn, BlockOf(fn, label))
       THEN Rewrite(SccpRewritten(fn, analysis)) /\ phase' = "checked"
       ELSE UNCHANGED <<fn, changed>> /\ phase' = "raised"
  /\ analysis' = << >>
  /\ Quiet /\ UNCHANGED step

-----------------------------------------------------------------------------
StartHoist ==
  /\ At(Hoist)
  /\ phase' = "hoist"
  /\ analysis' = [skipped |-> {}]
  /\ Quiet /\ UNCHANGED <<fn, step, changed>>

LoopsLeft == SelectSeq(LoopsBySize(fn), LAMBDA loop : loop.header \notin analysis.skipped)

IsHoisted(loop) ==
  /\ Hoistable(fn, loop)
  /\ Pressure \in enabled => ~ TooMuchPressure(fn, loop, RegisterBudget)

(* The smallest loop that was not given up.                                 *)
HoistLoop ==
  /\ phase = "hoist" /\ LoopsLeft # << >>
  /\ LET loop == LoopsLeft[1]
     IN  IF IsHoisted(loop)
           THEN Rewrite(Hoisted(fn, loop)) /\ UNCHANGED analysis
           ELSE UNCHANGED <<fn, changed>> /\ analysis' = [analysis EXCEPT !.skipped = @ \cup {loop.header}]
  /\ Quiet /\ UNCHANGED <<phase, step>>

EndHoist ==
  /\ phase = "hoist" /\ LoopsLeft = << >>
  /\ phase' = "checked"
  /\ analysis' = << >>
  /\ Quiet /\ UNCHANGED <<fn, step, changed>>

(* The smallest loop that can be evaluated, until there is none.            *)
RunLoop ==
  /\ At(ConstantLoops)
  /\ analysis' = FirstEvaluation(fn)
  /\ phase' = IF analysis'.way = "none" THEN "checked" ELSE "evaluate"
  /\ Quiet /\ UNCHANGED <<fn, step, changed>>

EvaluateLoop ==
  /\ phase = "evaluate"
  /\ Rewrite(Evaluated(fn, analysis.loop, analysis.run))
  /\ phase' = "pass"
  /\ Quiet /\ UNCHANGED <<analysis, step>>

(* What the unroller gets right.  Along a trace the header's items are not  *)
(* copied and the phis of a block are renamed one after the other; of a     *)
(* graph only the phis of the header are renamed behind the loop, to what   *)
(* they are after the last iteration, and the first block of the text is    *)
(* fallen into.  On either way an operand of a phi that does not come from  *)
(* the loop is not renamed.                                                 *)
IsCopied(f, loop, way) ==
  LET inside == Inside(f, loop)
      outside == Outside(f, loop)
      header == Header(f, loop)
      items == {item.dst : item \in ToSet(header.body)}
      body == SelectSeq(inside, LAMBDA block : block.label # loop.header)
      phiReads(blocks, sources) ==
        {phi.from[s] : <<phi, s>> \in {pair \in PhisOf(blocks) \X sources :
                                         pair[2] \in DOMAIN pair[1].from}}
      all == Labels(f)
      named == {phi.dst : phi \in ToSet(header.phis)}
      escaping == DirectReads(outside) \cap Defined(inside)
  IN  /\ phiReads(outside, all \ loop.blocks) \cap Defined(inside) = {}
      /\ CASE way = "trace" ->
                /\ items \cap (DirectReads(body \o outside) \cup phiReads(f, all)) = {}
                /\ \A block \in ToSet(body) :
                     phiReads(<<block>>, all) \cap {phi.dst : phi \in ToSet(block.phis)} = {}
          [] way = "graph" ->
                /\ escaping \subseteq named
                /\ escaping # {} => \A block \in ToSet(body) :
                     Successors(f, IndexOf(f, block.label)) \subseteq loop.blocks
                /\ inside[1] = header

(* The smallest loop that can be unrolled, until there is none.             *)
TraceLoop ==
  /\ At(UnrollLoops)
  /\ analysis' = FirstUnrolling(fn)
  /\ phase' = CASE analysis'.way = "none" -> "checked"
                [] analysis'.way = "fails" -> "raised"
                [] OTHER -> "unroll"
  /\ Quiet /\ UNCHANGED <<fn, step, changed>>

UnrollLoop ==
  /\ phase = "unroll"
  /\ \E unrolled \in {Unrolled(fn, analysis, values)} :
       Rewrite(unrolled.fn) /\ values' = unrolled.next
  /\ miscopied' = (miscopied \/ ~ IsCopied(fn, analysis.loop, analysis.way))
  /\ phase' = "pass"
  /\ UNCHANGED <<expected, enabled, pc, analysis, step, lap>>

-----------------------------------------------------------------------------
StartSimplify ==
  /\ At(Simplify)
  /\ phase' = "prune"
  /\ step' = FALSE
  /\ Quiet /\ UNCHANGED <<fn, analysis, changed>>

Prune ==
  /\ phase = "prune"
  /\ Rewrite(Pruned(fn))
  /\ step' = (fn' # fn)
  /\ phase' = "thread"
  /\ Quiet /\ UNCHANGED analysis

(* A round of _thread_jumps; the rounds end with one that redirects nothing.*)
Thread ==
  /\ phase = "thread"
  /\ Rewrite(ThreadRound(fn))
  /\ step' = (step \/ fn' # fn)
  /\ phase' = IF fn' = fn THEN "erase" ELSE "thread"
  /\ Quiet /\ UNCHANGED analysis

(* The rest of an iteration, and the loop's own test.                       *)
Erase ==
  /\ phase = "erase"
  /\ IF BranchesOneWay(fn)
       THEN UNCHANGED <<fn, changed>> /\ phase' = "raised"
       ELSE /\ Rewrite(LabelsErased(JumpsErased(BranchesErased(fn))))
            /\ phase' = IF step \/ fn' # fn THEN "prune" ELSE "checked"
  /\ step' = FALSE
  /\ Quiet /\ UNCHANGED analysis

-----------------------------------------------------------------------------
(* In a lap, and before the passes that follow loops evaluated or unrolled, *)
(* nobody verifies.                                                         *)
IsVerified == pc \notin LapPositions /\ Driver[pc] \notin {ConstantLoops, UnrollLoops}

Verify ==
  /\ phase = "checked"
  /\ IF IsVerified => Verified(fn)
       THEN phase' = "pass" /\ pc' = Upcoming(pc + 1)
       ELSE phase' = "raised" /\ UNCHANGED pc
  /\ UNCHANGED <<fn, values, expected, enabled, analysis, step, lap, changed, miscopied>>

(* The end of a lap: it is verified, and repeated if it changed something.  *)
EndLap ==
  /\ At(FixedPoint)
  /\ LET again == changed /\ lap < LapLimit
     IN  /\ phase' = CASE ~ Verified(fn) -> "raised"
                       [] changed /\ ~ again -> "diverged"
                       [] OTHER -> "pass"
         /\ pc' = IF ~ Verified(fn) THEN pc ELSE Upcoming(IF again THEN LapStart ELSE pc + 1)
         /\ lap' = IF again THEN lap + 1 ELSE 1
  /\ changed' = FALSE
  /\ UNCHANGED <<fn, values, expected, enabled, analysis, step, miscopied>>

Finish ==
  /\ phase = "pass" /\ pc > Len(Driver)
  /\ phase' = "done"
  /\ Quiet /\ UNCHANGED <<fn, analysis, step, changed>>

Next ==
  \/ PropagateCopies \/ SimplifyAlgebra \/ EliminateCommonExpressions
  \/ FuseZeroTests \/ FuseBranches \/ RemoveDeadValues \/ ReduceStrength
  \/ StartSccp \/ (\E label \in Labels(fn) : Visit(label)) \/ RewriteConstants
  \/ StartHoist \/ HoistLoop \/ EndHoist \/ RunLoop \/ EvaluateLoop
  \/ TraceLoop \/ UnrollLoop
  \/ StartSimplify \/ Prune \/ Thread \/ Erase
  \/ Verify \/ EndLap \/ Finish

Running == phase \notin {"done", "raised", "diverged"}

(* The driver is sequential code: it takes its next step while there is one.*)
(* Under [][Next]_vars this is WF_vars(Next), with Running for ENABLED      *)
(* <<Next>>_vars.                                                           *)
Fairness == []<>(~ Running) \/ []<><<TRUE>>_vars

Spec == Init /\ [][Next]_vars /\ Fairness

-----------------------------------------------------------------------------
(* Whatever the passes did, on every input the function makes the calls it  *)
(* made before the first of them, with the same arguments, and returns the  *)
(* same value; also between the loops of one pass (sccp.py:1-22,            *)
(* simplify_cfg.py:1-34, hoist.py:1-16, evaluate.py:59, unroll.py:13),      *)
(* unless verify is about to refuse it or a loop was unrolled that cannot be*)
(* copied.  An erased branch may leave a longer way round through empty     *)
(* blocks, so the rewritten function may run more of them.                  *)
SameBehaviour ==
  phase \notin {"sccp", "pass"} =>
    \/ \A input \in Inputs : Allows(expected[input], Outcome(fn, input, 2 * Fuel))
    \/ ~ Verified(Reconciled(fn))
    \/ miscopied

(* simplify_control_flow popped a branch and left the phi operand of the    *)
(* edge that went with it (simplify_cfg.py:165-185), because nothing became *)
(* unreachable; or SCCP was off, which removes those of a copied loop       *)
(* (unroll.py:455-468).                                                     *)
StaleOperands ==
  /\ Driver[pc] \in {Simplify, FixedPoint} \/ {SCCP, UnrollLoops} \cap enabled = {UnrollLoops}
  /\ Verified(Reconciled(fn))

Orders(items) == SetToSeqs(ToSet(items))

(* hoist.py:138-143 hoisted items in the order of the text, in which one    *)
(* that reads another may come first.                                       *)
HoistedOutOfOrder ==
  /\ Driver[pc] \in {Hoist, FixedPoint}
  /\ \E i \in DOMAIN fn : \E order \in Orders(fn[i].body) :
       Verified(Reconciled([fn EXCEPT ![i].body = order]))

(* sccp.py:219 looks a branch up by a label that is no longer there.        *)
LabelLost == Driver[pc] = SCCP /\ \E block \in ToSet(fn) : ~ TargetIsNamed(fn, block)

(* An iteration left no trace (unroll.py:150).                              *)
UnrollerFails == Driver[pc] = UnrollLoops

(* The driver gives up for one of these reasons alone, or after a loop that *)
(* cannot be copied was unrolled, and never because the laps do not         *)
(* converge.                                                                *)
RaisesForKnownReasonsOnly ==
  /\ phase # "diverged"
  /\ phase = "raised" =>
       StaleOperands \/ HoistedOutOfOrder \/ LabelLost \/ UnrollerFails \/ miscopied

(* The worklist of SCCP runs empty, simplify_control_flow and the laps reach*)
(* their fixed points, and no loop is hoisted from or evaluated for ever, so*)
(* the driver gets to its end.                                              *)
PipelineEnds == <>(~ Running)
=============================================================================
