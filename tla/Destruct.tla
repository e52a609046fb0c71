------------------------------ MODULE Destruct ------------------------------
(***************************************************************************)
(* SSA destruction, `destruct` in symphony/middle/ssa/destruct.py, and what *)
(* the rewritten function computes.                                         *)
(*                                                                          *)
(* The rewrite itself is a function of the program, written as operators:   *)
(* Coalesced (phis that take over a parameter's storage), EdgeCopies (the   *)
(* phis of one edge), Critical, Placed (one block with its copies) and      *)
(* Output (the new serialization order).  The behaviours run the SSA        *)
(* function and the rewritten one side by side: the same instructions with  *)
(* the same results, the same branch outcomes, and each side on its own     *)
(* control flow and its own storage.                                        *)
(*                                                                          *)
(* The copies of an edge are one simultaneous assignment here; that the     *)
(* emitted sequence computes it is what DestructProofs proves.              *)
(***************************************************************************)
EXTENDS Cfg, Naturals, Sequences, FiniteSets, SequencesExt

CONSTANTS Programs,  \* the SSA functions to destruct
          NV,        \* their values are 1 .. NV
          Word,      \* run-time contents of a value
          Undef      \* contents of a value that was never computed

VARIABLES
  fn,     \* the SSA function
  out,    \* the function after `destruct`, in serialization order
  at,     \* label of the SSA block being run
  place,  \* position in `out` being run
  idx,    \* next instruction of the block's body, on both sides
  phase,  \* "body", "term", "edge" or "done"
  env,    \* contents of the SSA values
  storage \* contents of the rewritten function's values

vars == <<fn, out, at, place, idx, phase, env, storage>>

Value == 1 .. NV

(* What `destruct` is given: blocks with names of their own, here numbers,  *)
(* jumps to blocks of the function (it looks their labels up), and the      *)
(* return or halt lowering ends a function with (ir.py:693-716).            *)
WellFormed(f) ==
  /\ Len(f) \in Nat \ {0} /\ DOMAIN f = 1 .. Len(f)
  /\ \A i \in DOMAIN f : f[i].label \in 1 .. Len(f)
  /\ \A i, j \in DOMAIN f : f[i].label = f[j].label => i = j
  /\ \A i \in DOMAIN f : f[i].term \in {"jump", "branch_if"} => f[i].target \in Labels(f)
  /\ \A i \in DOMAIN f : f[i].term \in {"jump", "branch_if", "fall", "return"}
  /\ f[Len(f)].term \in {"jump", "return"}

ASSUME ProgramsAssumption == \A f \in Programs : WellFormed(f)

-----------------------------------------------------------------------------
(* The rewrite                                                              *)

ParamValues(f) ==
  UNION {{f[i].body[k].dst : k \in {j \in DOMAIN f[i].body : f[i].body[j].op = "param"}}
           : i \in DOMAIN f}

(* A block of nothing but ABI definitions and its jump, with one successor. *)
OnlyParams(f, label) ==
  LET block == BlockOf(f, label)
  IN  /\ block.phis = << >>
      /\ \A k \in DOMAIN block.body : block.body[k].op = "param"
      /\ block.term \in {"jump", "fall"}
      /\ block.body # << >> \/ block.term = "jump"
      /\ Cardinality(Successors(f, IndexOf(f, label))) = 1

(* The predecessors that seed a phi with a parameter.                       *)
Seeds(f, phi) ==
  {p \in DOMAIN phi.from : OnlyParams(f, p) /\ phi.from[p] \in ParamValues(f)}

PhisOf(f) == UNION {ToSet(f[i].phis) : i \in DOMAIN f}

(* The parameter whose storage a value is renamed to, or the value itself.  *)
Coalesced(f) ==
  [v \in Value |->
     LET seeded == {phi \in PhisOf(f) : phi.dst = v /\ Seeds(f, phi) # {}}
     IN  IF seeded = {} THEN v
         ELSE LET phi == CHOOSE p \in seeded : TRUE
                  first == CHOOSE p \in Seeds(f, phi) : \A q \in Seeds(f, phi) : p <= q
              IN  phi.from[first]]

Resolve(f, v) == IF v = NoValue THEN NoValue ELSE Coalesced(f)[v]

(* The phis of edge p -> s as a map from destination to source, a later phi *)
(* with the same destination replacing an earlier one (`dict(pairs)`).      *)
EdgeCopies(f, p, s) ==
  LET phis == BlockOf(f, s).phis
      live == {k \in DOMAIN phis : phis[k].from[p] # NoValue}
      dsts == {Resolve(f, phis[k].dst) : k \in live}
      last(d) == CHOOSE k \in live : /\ Resolve(f, phis[k].dst) = d
                                     /\ \A j \in live : Resolve(f, phis[j].dst) = d => j <= k
      pairs == [d \in dsts |-> Resolve(f, phis[last(d)].from[p])]
  IN  [d \in {e \in dsts : pairs[e] # e} |-> pairs[d]]

(* Mutant: every copy goes before the source's terminator.                  *)
CriticalNever(f, p, s) == FALSE

Critical(f, p, s) ==
  /\ Cardinality(Successors(f, IndexOf(f, p))) > 1
  /\ Cardinality(Predecessors(f, s)) > 1

(* The labels `new_label` hands out, one per edge.                          *)
EdgeLabel(f, p, s) == Len(f) * p + s

Trampolined(f, p) ==
  {s \in Successors(f, IndexOf(f, p)) : EdgeCopies(f, p, s) # << >> /\ Critical(f, p, s)}

Trampoline(f, p, s) ==
  [label |-> EdgeLabel(f, p, s), body |-> << >>, copies |-> <<EdgeCopies(f, p, s)>>,
   term |-> "jump", target |-> s, reads |-> << >>]

(* The copies of the non-critical edges of block i.                         *)
InlinedCopies(f, i) ==
  LET p == f[i].label
      inlined == {s \in Successors(f, i) : EdgeCopies(f, p, s) # << >> /\ ~ Critical(f, p, s)}
      order == SetToSortSeq(inlined, <)
  IN  [k \in DOMAIN order |-> EdgeCopies(f, p, order[k])]

(* Block i with these copies before its terminator and its explicit edge,   *)
(* if critical, redirected to the trampoline.                               *)
Placed(f, i) ==
  LET b == f[i]
  IN  [label |-> b.label,
       body |-> [k \in DOMAIN b.body |->
                   [op |-> b.body[k].op, dst |-> Resolve(f, b.body[k].dst),
                    args |-> [a \in DOMAIN b.body[k].args |-> Resolve(f, b.body[k].args[a])]]],
       copies |-> InlinedCopies(f, i),
       term |-> b.term,
       target |-> IF b.term \in {"jump", "branch_if"} /\ b.target \in Trampolined(f, b.label)
                    THEN EdgeLabel(f, b.label, b.target) ELSE b.target,
       reads |-> [a \in DOMAIN b.reads |-> Resolve(f, b.reads[a])]]

(* The trampolines of block i that are, or are not, on its fallthrough edge.*)
FallthroughTrampolines(f, i) ==
  LET b == f[i]
  IN  [k \in 1 .. Cardinality(Trampolined(f, b.label) \ ExplicitTargets(b)) |->
         Trampoline(f, b.label, f[i+1].label)]

TailTrampolines(f, i) ==
  LET b == f[i]
  IN  [k \in 1 .. Cardinality(Trampolined(f, b.label) \cap ExplicitTargets(b)) |->
         Trampoline(f, b.label, b.target)]

(* Mutant: every trampoline directly follows the block its edge leaves.     *)
OutputAllInPlace(f) ==
  FlattenSeq([i \in DOMAIN f |->
    <<Placed(f, i)>> \o FallthroughTrampolines(f, i) \o TailTrampolines(f, i)])

(* A fallthrough trampoline directly follows its block, the others come     *)
(* after every ordinary block.                                              *)
Output(f) ==
  FlattenSeq([i \in DOMAIN f |-> <<Placed(f, i)>> \o FallthroughTrampolines(f, i)])
    \o FlattenSeq([i \in DOMAIN f |-> TailTrampolines(f, i)])

-----------------------------------------------------------------------------
(* Running both                                                             *)

Assigned(store, pairs) ==
  [v \in DOMAIN store |-> IF v \in DOMAIN pairs THEN store[pairs[v]] ELSE store[v]]

RunCopies(store, copies) == FoldLeft(Assigned, store, copies)

(* The phis of block s on entry from p, all read before any is written.     *)
EnterPhis(f, p, s) ==
  LET phis == BlockOf(f, s).phis
      phi(v) == CHOOSE k \in DOMAIN phis : phis[k].dst = v
  IN  [v \in Value |->
         IF \E k \in DOMAIN phis : phis[k].dst = v
           THEN LET source == phis[phi(v)].from[p]
                IN  IF source = NoValue THEN Undef ELSE env[source]
           ELSE env[v]]

Block == BlockOf(fn, at)

Init ==
  /\ fn \in Programs
  /\ out = Output(fn)
  /\ at = fn[1].label
  /\ place = 1
  /\ idx = 1
  /\ phase = "body"
  /\ env = [v \in Value |-> Undef]
  /\ storage = [v \in Value |-> Undef]

Write(store, v, r) == IF v = NoValue THEN store ELSE [store EXCEPT ![v] = r]

(* One instruction, whose result r is the same on both sides.               *)
Execute(r) ==
  /\ phase = "body"
  /\ idx <= Len(Block.body)
  /\ idx' = idx + 1
  /\ env' = Write(env, Block.body[idx].dst, r)
  /\ storage' = Write(storage, out[place].body[idx].dst, r)
  /\ UNCHANGED <<fn, out, at, place, phase>>

(* The copies that precede the terminator in the rewritten function.        *)
InlineCopies ==
  /\ phase = "body"
  /\ idx > Len(Block.body)
  /\ phase' = "term"
  /\ storage' = RunCopies(storage, out[place].copies)
  /\ UNCHANGED <<fn, out, at, place, idx, env>>

Goto(s) ==
  /\ at' = s
  /\ env' = EnterPhis(fn, at, s)
  /\ idx' = 1
  /\ phase' = "edge"
  /\ UNCHANGED <<fn, out, storage>>

(* A jump, or a branch whose condition holds.                               *)
GoExplicit ==
  /\ phase = "term"
  /\ Block.term \in {"jump", "branch_if"}
  /\ Goto(Block.target)
  /\ place' = IndexOf(out, out[place].target)

(* A branch not taken, or a block without terminator.                       *)
FallThrough ==
  /\ phase = "term"
  /\ Block.term \in {"fall", "branch_if"}
  /\ Goto(fn[IndexOf(fn, at) + 1].label)
  /\ place' = place + 1

(* The trampoline of the edge, if it has one.                               *)
Arrive ==
  /\ phase = "edge"
  /\ phase' = "body"
  /\ IF out[place].label \in Labels(fn)
       THEN UNCHANGED <<place, storage>>
       ELSE /\ storage' = RunCopies(storage, out[place].copies)
            /\ place' = IndexOf(out, out[place].target)
  /\ UNCHANGED <<fn, out, at, idx, env>>

Return ==
  /\ phase = "term"
  /\ Block.term = "return"
  /\ phase' = "done"
  /\ UNCHANGED <<fn, out, at, place, idx, env, storage>>

Next ==
  \/ \E r \in Word : Execute(r)
  \/ InlineCopies
  \/ GoExplicit
  \/ FallThrough
  \/ Arrive
  \/ Return

Spec == Init /\ [][Next]_vars

-----------------------------------------------------------------------------
Operands(f) ==
  {o \in (DOMAIN f) \X (1 .. 4) \X (1 .. 4) :
     o[2] \in DOMAIN f[o[1]].body /\ o[3] \in DOMAIN f[o[1]].body[o[2]].args}

Uses(f, v) ==
    Cardinality({o \in Operands(f) : f[o[1]].body[o[2]].args[o[3]] = v})
  + Cardinality({i \in DOMAIN f : v \in ToSet(f[i].reads)})
  + Cardinality(UNION {{<<phi.dst, p>> : p \in {q \in DOMAIN phi.from : phi.from[q] = v}}
                         : phi \in PhisOf(f)})

(* What has to hold for a phi to take over a parameter's storage: nothing   *)
(* else reads the parameter, and the edge that seeds the phi runs once.     *)
(* `destruct` does not test it; the comment at destruct.py:68-74 takes it   *)
(* for granted.                                                             *)
CoalescingIsSafe(f) ==
  \A i \in DOMAIN f : \A phi \in ToSet(f[i].phis) : Seeds(f, phi) # {} =>
    LET p == CHOOSE q \in Seeds(f, phi) : \A r \in Seeds(f, phi) : q <= r
    IN  /\ Uses(f, phi.from[p]) = 1
        /\ p \notin ReachableFrom(f, f[i].label)

(* Splitting edges keeps the control flow: whenever the SSA function is     *)
(* about to run a block the rewritten one is at that same block, with no    *)
(* trampoline having displaced a fallthrough successor (destruct.py:12-19). *)
SamePlace == phase \in {"body", "term"} => out[place].label = at

(* x is what value v should be, if v should be anything.                    *)
Holds(v, x) == v = NoValue \/ env[v] = Undef \/ env[v] = x

Agree(v, w) == Holds(v, storage[w])

(* Every instruction and every terminator reads what the SSA function reads:*)
(* copies run only on their own edge, and no phi or parameter lost its      *)
(* value to a copy it did not ask for (destruct.py:3-8, 21-28).             *)
SameOperands ==
  LET new == out[place]
  IN  CASE phase = "body" /\ idx <= Len(Block.body) ->
             \A a \in DOMAIN Block.body[idx].args :
               Agree(Block.body[idx].args[a], new.body[idx].args[a])
        [] phase = "term" ->
             \A a \in DOMAIN Block.reads : Agree(Block.reads[a], new.reads[a])
        [] OTHER -> TRUE
=============================================================================
