------------------------------- MODULE Evaluate -------------------------------
(***************************************************************************)
(* evaluate_constant_loops of symphony/middle/ssa/evaluate.py: a loop that  *)
(* starts from constants and does nothing but compute is run by the         *)
(* compiler, and what it leaves behind is written as constants.             *)
(*                                                                          *)
(* A run is a run of Execution in which Undef stands for "not known", with  *)
(*   visits   how often the header was reached                              *)
(*   steps    the instructions run                                          *)
(* and the status "running", "refused" or "left", in which `from` is the    *)
(* block the loop was left from and `at` where it went.                     *)
(***************************************************************************)
EXTENDS Loops, Sccp

CONSTANTS IterationLimit,    \* iteration_limit of evaluate_constant_loops
          InstructionLimit   \* instruction_limit

(* static_value: what is known of the values defined outside of the loop.   *)
StaticWords(f, loop) ==
  LET items == {item \in ItemsOf(Outside(f, loop)) : item.op \in Pure}
      word(env, v) ==
        LET own == {item \in items : item.dst = v}
        IN  IF own = {} THEN Undef ELSE Result([env |-> env], CHOOSE item \in own : TRUE)
  IN  FoldLeft(LAMBDA env, n : [v \in Value |-> word(env, v)],
               [v \in Value |-> Undef], [n \in 1 .. Cardinality(items) |-> n])

(* A loop that can be replaced by straight code in the block it is entered  *)
(* from: nothing else leads there, and its phis have the edges there are.   *)
Enterable(f, loop) ==
  LET header == BlockOf(f, loop.header)
  IN  /\ Cardinality(Entries(f, loop)) = 1
      /\ Exits(f, loop) # {}
      /\ Successors(f, IndexOf(f, Preheader(f, loop))) = {loop.header}
      /\ header.phis # << >>
      /\ \A phi \in ToSet(header.phis) : DOMAIN phi.from = Predecessors(f, loop.header)

(* The terminator the straight code goes in front of is a plain jump.       *)
EntersPlainly(f, loop) == BlockOf(f, Preheader(f, loop)).term \in {"jump", "fall"}

StartRegion(f, loop) ==
  [at |-> loop.header, from |-> Preheader(f, loop), env |-> StaticWords(f, loop),
   visits |-> 0, steps |-> 0, status |-> "running"]

(* An item whose result cannot be computed leaves it unknown.               *)
RunItem(run, item) ==
  IF item.dst = NoValue THEN run
  ELSE [run EXCEPT !.env[item.dst] = IF item.op \in Pure THEN Result(run, item) ELSE Undef]

(* Where a block goes, or 0 if that is not known.                           *)
NextLabel(f, run, block) ==
  LET i == IndexOf(f, block.label)
      args == ContentsOf(run, block.reads)
      others == Successors(f, i) \ {block.target}
      known == \A a \in DOMAIN args : args[a] # Undef
  IN  CASE block.term = "jump" -> block.target
        [] block.term \in Branches /\ known ->
             IF Taken(run, block) THEN block.target
             ELSE IF others = {} THEN 0 ELSE CHOOSE l \in others : TRUE
        [] block.term = "fall" /\ i < Len(f) -> f[i+1].label
        [] OTHER -> 0

StepsOf(block) == Len(block.body) + (IF block.term = "fall" THEN 0 ELSE 1)

(* One block of _run_loop_region. A value that is not known ends it.        *)
EvaluateBlock(f, loop, run) ==
  LET block == BlockOf(f, run.at)
      entered == EnterBlock(run, block)
      done == FoldLeft(RunItem, entered, block.body)
      next == NextLabel(f, done, block)
      visits == run.visits + (IF run.at = loop.header THEN 1 ELSE 0)
      steps == run.steps + StepsOf(block)
      computed == ToSet(DefsOf(block))
  IN  IF \/ run.steps >= InstructionLimit
         \/ visits > IterationLimit + 1
         \/ entered.status = "stuck"
         \/ \E item \in ToSet(block.body) : item.op \notin Pure
         \/ \E v \in computed : done.env[v] = Undef
         \/ steps > InstructionLimit
         \/ next = 0
        THEN [run EXCEPT !.status = "refused"]
        ELSE [done EXCEPT !.visits = visits, !.steps = steps, !.from = block.label, !.at = next,
                          !.status = IF next \in loop.blocks THEN "running" ELSE "left"]

(* An empty block that falls through runs no instruction.                   *)
RunRegion(f, loop) ==
  FoldLeft(LAMBDA run, n : IF run.status = "running" THEN EvaluateBlock(f, loop, run) ELSE run,
           StartRegion(f, loop), [n \in 1 .. InstructionLimit * Len(f) |-> n])

(* What is read of the loop outside of it, and every phi of its header.     *)
Escaping(f, loop) ==
  LET outside == Outside(f, loop)
      read == DirectReads(outside) \cup UNION {Range(phi.from) : phi \in PhisOf(outside)}
  IN  (read \cap Defined(Inside(f, loop)))
        \cup {phi.dst : phi \in ToSet(BlockOf(f, loop.header).phis)}

(* What becomes of a loop: nothing, or it is replaced by what its run left. *)
Nothing == [way |-> "none"]

Evaluation(f, loop) ==
  IF ~ (Enterable(f, loop) /\ EntersPlainly(f, loop)) THEN Nothing
  ELSE LET run == RunRegion(f, loop)
       IN  IF run.status = "left" /\ \A v \in Escaping(f, loop) : run.env[v] # Undef
             THEN [way |-> "run", loop |-> loop, run |-> run] ELSE Nothing

(* A phi behind the loop has for the preheader what it had for the block    *)
(* the loop was left from.                                                  *)
Rerouted(phi, loop, source, preheader) ==
  LET kept == DOMAIN phi.from \ loop.blocks
  IN  [phi EXCEPT !.from =
         [p \in kept \cup (IF source \in DOMAIN @ THEN {preheader} ELSE {}) |->
            IF p \in kept THEN @[p] ELSE @[source]]]

(* The loop is gone; the preheader defines what escapes and jumps behind it.*)
Evaluated(f, loop, run) ==
  LET preheader == Preheader(f, loop)
      values == SetToSortSeq(Escaping(f, loop), <)
      constants == [k \in DOMAIN values |-> ConstItem(values[k], run.env[values[k]])]
      rerouted(block) == [block EXCEPT !.phis =
                            [k \in DOMAIN @ |-> Rerouted(@[k], loop, run.from, preheader)]]
      new(block) == IF block.label # preheader THEN rerouted(block)
                    ELSE [rerouted(block) EXCEPT !.body = @ \o constants,
                                                 !.term = "jump", !.target = run.at]
      outside == Outside(f, loop)
  IN  [i \in DOMAIN outside |-> new(outside[i])]

(* The smallest loop of which something becomes.                            *)
FirstEvaluation(f) ==
  FoldLeft(LAMBDA found, loop : IF found.way # "none" THEN found ELSE Evaluation(f, loop),
           Nothing, LoopsBySize(f))
=============================================================================
