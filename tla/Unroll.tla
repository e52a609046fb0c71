-------------------------------- MODULE Unroll --------------------------------
(***************************************************************************)
(* unroll_known_trip_loops of symphony/middle/ssa/unroll.py.  A loop whose  *)
(* branches the compiler can decide for every iteration is copied along the *)
(* blocks it runs (the trace); one of which only the header can be decided  *)
(* is copied as a graph, once for every iteration.                          *)
(*                                                                          *)
(* A trace is a run of Evaluate with                                        *)
(*   traces   the blocks of every iteration before this one                 *)
(*   trace    those of this one, without the header                         *)
(* A renaming is a function on the values it renames.                       *)
(***************************************************************************)
EXTENDS Evaluate

CONSTANT UnrollLimit   \* iteration_limit of unroll_known_trip_loops

Header(f, loop) == BlockOf(f, loop.header)

Lookup(renaming, v) == IF v \in DOMAIN renaming THEN renaming[v] ELSE v

LookupAll(renaming, values) == [a \in DOMAIN values |-> Lookup(renaming, values[a])]

RenamedItem(item, renaming) == [item EXCEPT !.args = LookupAll(renaming, @)]

RenamedBody(block, renaming) ==
  [block EXCEPT !.body = [k \in DOMAIN @ |-> RenamedItem(@[k], renaming)],
                !.reads = LookupAll(renaming, @)]

(* What the phis of the header read on the edge from `source`.              *)
PhiInputs(f, loop, source) ==
  LET phis == ToSet(Header(f, loop).phis)
  IN  [v \in {phi.dst : phi \in phis} |->
         (CHOOSE phi \in phis : phi.dst = v).from[source]]

IsCandidate(f, loop) ==
  /\ Enterable(f, loop)
  /\ \A item \in ToSet(Header(f, loop).body) : item.op \in Pure

-----------------------------------------------------------------------------
(* One block of _iteration_traces: as in EvaluateBlock, but what is not     *)
(* known matters only in a branch.                                          *)
TraceBlock(f, loop, run) ==
  LET block == BlockOf(f, run.at)
      again == run.at = loop.header /\ run.from \in loop.blocks
      traces == IF again THEN Append(run.traces, run.trace) ELSE run.traces
      hasOperand(phi) == run.from \in DOMAIN phi.from /\ phi.from[run.from] # NoValue
      done == FoldLeft(RunItem, EnterBlock(run, block), block.body)
      next == NextLabel(f, done, block)
  IN  IF \/ run.steps >= InstructionLimit
         \/ Len(traces) > UnrollLimit
         \/ \E phi \in ToSet(block.phis) : ~ hasOperand(phi)
         \/ next = 0
        THEN [run EXCEPT !.status = "refused"]
        ELSE [done EXCEPT !.traces = traces,
                          !.trace = IF run.at = loop.header THEN << >> ELSE Append(@, run.at),
                          !.steps = @ + StepsOf(block), !.from = block.label, !.at = next,
                          !.status = IF next \in loop.blocks THEN "running" ELSE "left"]

Traced(f, loop) ==
  FoldLeft(LAMBDA run, n : IF run.status = "running" THEN TraceBlock(f, loop, run) ELSE run,
           [traces |-> << >>, trace |-> << >>] @@ StartRegion(f, loop),
           [n \in 1 .. InstructionLimit * Len(f) |-> n])

(* The items copied so far: `names` is what values of this iteration are    *)
(* called, `current` what the phis of the header are, `final` what is left  *)
(* of the last iteration, `next` the next value of the function.            *)
CopyPhi(copy, phi) ==
  [copy EXCEPT !.names = (phi.dst :> Lookup(@, phi.from[copy.from])) @@ @]

CopyInstruction(copy, item) ==
  LET copied == [copy EXCEPT !.items = Append(@, RenamedItem(item, copy.names))]
  IN  IF item.dst = NoValue THEN copied
      ELSE [copied EXCEPT !.items[Len(copied.items)].dst = copy.next,
                          !.names = (item.dst :> copy.next) @@ @,
                          !.next = @ + 1]

(* The header's own items are not among what is copied.                     *)
CopyTrace(f, loop, copy, trace) ==
  LET block(c, label) ==
        [FoldLeft(CopyInstruction, FoldLeft(CopyPhi, c, BlockOf(f, label).phis),
                  BlockOf(f, label).body) EXCEPT !.from = label]
  IN  FoldLeft(block, [copy EXCEPT !.names = copy.current, !.from = loop.header], trace)

CopyIteration(f, loop, copy, trace) ==
  LET copied == CopyTrace(f, loop, copy, trace)
      current == [v \in DOMAIN copy.current |->
                    Lookup(copied.names, PhiInputs(f, loop, Last(trace))[v])]
  IN  [copied EXCEPT !.current = current, !.final = current @@ copied.names]

(* trace[-1] of an iteration that never left the header is an IndexError.   *)
TraceFails(run) == \E k \in DOMAIN run.traces : run.traces[k] = << >>

UnrolledTrace(f, loop, run, next) ==
  LET preheader == Preheader(f, loop)
      inputs == PhiInputs(f, loop, preheader)
      done == FoldLeft(LAMBDA copy, trace : CopyIteration(f, loop, copy, trace),
                       [items |-> << >>, next |-> next, from |-> preheader, names |-> inputs,
                        current |-> inputs, final |-> inputs], run.traces)
      left == CopyTrace(f, loop, done, run.trace)
      renaming == done.current @@ left.names @@ done.final
      phi(p) == LET rerouted == Rerouted(p, loop, run.from, preheader)
                IN  [rerouted EXCEPT !.from =
                       [q \in DOMAIN @ |-> IF q = preheader THEN Lookup(renaming, @[q]) ELSE @[q]]]
      outside(block) == [RenamedBody(block, renaming) EXCEPT
                           !.phis = [k \in DOMAIN @ |-> phi(@[k])]]
      entered == [i \in DOMAIN f |->
                    IF f[i].label # preheader THEN f[i]
                    ELSE [f[i] EXCEPT !.body = @ \o left.items, !.term = "jump", !.target = run.at]]
      blocks == Outside(entered, loop)
  IN  [fn |-> [i \in DOMAIN blocks |-> outside(blocks[i])], next |-> left.next]

-----------------------------------------------------------------------------
(* _fixed_trip_plan: the word of a value, computed from those of the header *)
(* and from what it is defined by.  A value that is met again is unknown.   *)
Words(f, known) ==
  LET Values == Value \cup {NoValue}
      word[q \in Values \X SUBSET Values] ==
        LET item == Definition(f, q[1])
            met == q[2] \cup {q[1]}
            left == word[<<item.args[1], met>>]
            right == word[<<item.args[2], left.met>>]
        IN  CASE q[1] \in DOMAIN known -> [is |-> known[q[1]], met |-> q[2]]
              [] q[1] \notin DOMAIN known /\ (q[1] \in q[2] \/ item.op \notin Pure) ->
                   [is |-> Undef, met |-> met]
              [] OTHER ->
                   CASE item.op = "const" -> [is |-> item.extra, met |-> met]
                     [] item.op = "copy" -> left
                     [] item.op = "binary" ->
                          [is |-> IF Undef \in {left.is, right.is} THEN Undef
                                  ELSE Fold(item.extra, left.is, right.is),
                           met |-> right.met]
  IN  [v \in Values |-> word[<<v, {}>>].is]

(* What the phis read on the way back, if it is the same on all of them.    *)
LatchInputs(f, loop) == PhiInputs(f, loop, CHOOSE latch \in loop.latches : TRUE)

OneLatchInput(f, loop) ==
  \A latch \in loop.latches :
    /\ PhiInputs(f, loop, latch) = LatchInputs(f, loop)
    /\ NoValue \notin Range(PhiInputs(f, loop, latch))

PlanHeader(f, known, block) ==
  FoldLeft(LAMBDA k, item : (item.dst :> Result([env |-> Words(f, k)], item)) @@ k,
           known, block.body)

PlanIteration(f, loop, plan) ==
  LET block == Header(f, loop)
      known == PlanHeader(f, plan.known, block)
      words == Words(f, known)
      next == NextLabel(f, [env |-> words], block)
      updates == [v \in DOMAIN LatchInputs(f, loop) |-> words[LatchInputs(f, loop)[v]]]
  IN  CASE next # 0 /\ next \notin loop.blocks ->
             [plan EXCEPT !.status = "left", !.exit = next]
        [] next \in loop.blocks /\ plan.entry \in {0, next} /\ plan.count < UnrollLimit ->
             [plan EXCEPT !.known = updates @@ known, !.entry = next, !.count = @ + 1]
        [] OTHER -> [plan EXCEPT !.status = "refused"]

Plan(f, loop) ==
  LET inputs == PhiInputs(f, loop, Preheader(f, loop))
      static == StaticWords(f, loop)
      start == [known |-> [v \in DOMAIN inputs |-> Contents([env |-> static], inputs[v])],
                count |-> 0, entry |-> 0, exit |-> 0, status |-> "running"]
  IN  IF \/ ~ OneLatchInput(f, loop)
         \/ Header(f, loop).term \notin Branches
         \/ Cardinality(Successors(f, IndexOf(f, loop.header))) # 2
        THEN [start EXCEPT !.status = "refused"]
        ELSE FoldLeft(LAMBDA plan, n : IF plan.status = "running"
                                         THEN PlanIteration(f, loop, plan) ELSE plan,
                      start, [n \in 1 .. UnrollLimit + 1 |-> n])

-----------------------------------------------------------------------------
(* _clone_loop_cfg.  The label of a block's copy for iteration k, and of the*)
(* block that stands for its fallthrough; the code appends to a name.       *)
CloneLabel(k, label) == 10 * label + k

TrampolineLabel(k, label) == 10 * CloneLabel(k, label) + 9

MayClone(f, loop, plan) ==
  /\ plan.status = "left" /\ plan.count > 0
  /\ Exits(f, loop) = {plan.exit}
  /\ EntersPlainly(f, loop)

(* A branch of the body with one successor has no other one: StopIteration. *)
CloneFails(f, loop) ==
  \E block \in ToSet(Inside(f, loop)) :
    /\ block.label # loop.header /\ block.term \in Branches
    /\ Cardinality(Successors(f, IndexOf(f, block.label))) = 1

(* Everything but the phis of the header gets a new value per iteration.    *)
ClonedValues(f, loop) ==
  LET phis == {phi.dst : phi \in ToSet(Header(f, loop).phis)}
      defs == FlattenSeq([i \in DOMAIN Inside(f, loop) |-> DefsOf(Inside(f, loop)[i])])
  IN  SelectSeq(defs, LAMBDA v : v # NoValue /\ v \notin phis)

NextCurrent(f, loop, renaming) ==
  [v \in DOMAIN LatchInputs(f, loop) |-> Lookup(renaming, LatchInputs(f, loop)[v])]

Renamings(f, loop, count, next) ==
  LET cloned == ClonedValues(f, loop)
      fresh(k) == [v \in ToSet(cloned) |->
                     next + (k - 1) * Len(cloned) + SelectInSeq(cloned, LAMBDA u : u = v) - 1]
      add(renamings, k) ==
        Append(renamings,
               fresh(k) @@ (IF k = 1 THEN PhiInputs(f, loop, Preheader(f, loop))
                                     ELSE NextCurrent(f, loop, Last(renamings))))
  IN  FoldLeft(add, << >>, [k \in 1 .. count |-> k])

(* Which copy the edge from `source` comes from.  The header's own edge is  *)
(* put right when the header is copied.                                     *)
EdgeSource(f, loop, plan, k, source, successor, headerCopied) ==
  LET block == BlockOf(f, source)
  IN  IF \/ block.term \notin Branches
         \/ successor = block.target
         \/ source = loop.header /\ successor = plan.entry /\ headerCopied
        THEN CloneLabel(k, source) ELSE TrampolineLabel(k, source)

CloneTarget(loop, plan, k, successor) ==
  CASE successor = loop.header ->
         IF k < plan.count THEN CloneLabel(k + 1, successor) ELSE plan.exit
    [] successor \in loop.blocks \ {loop.header} -> CloneLabel(k, successor)
    [] OTHER -> successor

(* The copy of a block for iteration k, followed by that of its fallthrough.*)
Clone(f, loop, plan, k, renaming, block) ==
  LET successors == Successors(f, IndexOf(f, block.label))
      copied == IndexOf(f, loop.header) < IndexOf(f, block.label)
      origin(p) == EdgeSource(f, loop, plan, k, p, block.label, copied)
      phi(p) == [dst |-> renaming[p.dst],
                 from |-> [q \in {origin(s) : s \in DOMAIN p.from} |->
                             Lookup(renaming, p.from[CHOOSE s \in DOMAIN p.from : origin(s) = q])]]
      clone == [RenamedBody(block, renaming) EXCEPT
                  !.label = CloneLabel(k, block.label), !.named = TRUE,
                  !.phis = IF block.label = loop.header THEN << >>
                           ELSE [n \in DOMAIN @ |-> phi(@[n])],
                  !.body = [n \in DOMAIN @ |-> [@[n] EXCEPT !.dst = Lookup(renaming, @)]]]
      jumping(b, label, successor) ==
        [b EXCEPT !.label = label, !.term = "jump", !.reads = << >>,
                  !.target = CloneTarget(loop, plan, k, successor)]
      trampoline(successor) ==
        jumping([clone EXCEPT !.phis = << >>, !.body = << >>],
                TrampolineLabel(k, block.label), successor)
  IN  CASE block.label = loop.header -> <<jumping(clone, clone.label, plan.entry)>>
        [] block.label # loop.header /\ block.term \in Branches ->
             <<[clone EXCEPT !.target = CloneTarget(loop, plan, k, @)],
               trampoline(CHOOSE s \in successors \ {block.target} : TRUE)>>
        [] OTHER -> <<jumping(clone, clone.label, CHOOSE s \in successors : TRUE)>>

(* A phi behind the loop has an operand for every copy of an edge it had,   *)
(* the header's included, and for the last way back.                        *)
ClonedPhi(f, loop, plan, renamings, block, phi) ==
  LET inside == DOMAIN phi.from \cap loop.blocks \cap Predecessors(f, block.label)
      source(k, s) == EdgeSource(f, loop, plan, k, s, block.label, TRUE)
      lastWay(latch) == EdgeSource(f, loop, plan, plan.count, latch, loop.header, TRUE)
      final == NextCurrent(f, loop, Last(renamings))
      copies == {<<source(k, s), Lookup(renamings[k], phi.from[s])>> :
                   k \in 1 .. plan.count, s \in inside}
      ways == IF loop.header \notin DOMAIN phi.from \/ block.label # plan.exit THEN {}
              ELSE {<<lastWay(l), Lookup(final, phi.from[loop.header])>> : l \in loop.latches}
      pairs == {<<s, phi.from[s]>> : s \in DOMAIN phi.from \ loop.blocks} \cup copies \cup ways
  IN  [phi EXCEPT !.from = [s \in {pair[1] : pair \in pairs} |->
                              (CHOOSE pair \in pairs : pair[1] = s)[2]]]

ClonedLoop(f, loop, plan, next) ==
  LET renamings == Renamings(f, loop, plan.count, next)
      final == NextCurrent(f, loop, Last(renamings))
      inside == Inside(f, loop)
      clones == FlattenSeq([k \in 1 .. plan.count |->
                  FlattenSeq([i \in DOMAIN inside |->
                    Clone(f, loop, plan, k, renamings[k], inside[i])])])
      outside(block) == [RenamedBody(block, final) EXCEPT
                           !.phis = [n \in DOMAIN @ |->
                                       ClonedPhi(f, loop, plan, renamings, block, @[n])],
                           !.target = IF block.label = Preheader(f, loop) /\ block.term = "jump"
                                        THEN CloneLabel(1, loop.header) ELSE @]
      part(i) == (IF f[i].label = loop.header THEN clones ELSE << >>)
                   \o (IF f[i].label \in loop.blocks THEN << >> ELSE <<outside(f[i])>>)
  IN  [fn |-> FlattenSeq([i \in DOMAIN f |-> part(i)]),
       next |-> next + plan.count * Len(ClonedValues(f, loop))]

-----------------------------------------------------------------------------
(* How a loop is unrolled: along its trace if it has one, or as a graph.    *)
Unrolling(f, loop) ==
  LET run == Traced(f, loop)
      plan == Plan(f, loop)
      traced == [loop |-> loop, run |-> run,
                 way |-> CASE TraceFails(run) -> "fails"
                           [] ~ TraceFails(run) /\ EntersPlainly(f, loop) -> "trace"
                           [] OTHER -> "none"]
      cloned == [loop |-> loop, plan |-> plan,
                 way |-> IF CloneFails(f, loop) THEN "fails" ELSE "graph"]
  IN  CASE ~ IsCandidate(f, loop) -> Nothing
        [] IsCandidate(f, loop) /\ run.status = "left" -> traced
        [] OTHER -> IF MayClone(f, loop, plan) THEN cloned ELSE Nothing

FirstUnrolling(f) ==
  FoldLeft(LAMBDA found, loop : IF found.way # "none" THEN found ELSE Unrolling(f, loop),
           Nothing, LoopsBySize(f))

Unrolled(f, unrolling, next) ==
  IF unrolling.way = "trace" THEN UnrolledTrace(f, unrolling.loop, unrolling.run, next)
                             ELSE ClonedLoop(f, unrolling.loop, unrolling.plan, next)
=============================================================================
