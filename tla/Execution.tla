------------------------------ MODULE Execution ------------------------------
(***************************************************************************)
(* What an SSA function of Cfg does when it runs, in words of two bits.     *)
(*                                                                          *)
(* An item of a body also has `extra`: the number of a parameter, the value *)
(* of a constant or the operator of a "binary".  A terminator has `test`:   *)
(* the sense of a branch_if or the operator of a cbranch_if.  A "call"      *)
(* stands for every instruction with an effect; its arguments and what the  *)
(* function returns are all that is observed, and the caller answers a call *)
(* as it likes.                                                             *)
(***************************************************************************)
EXTENDS Cfg, Naturals, Sequences, SequencesExt

CONSTANTS NV,     \* the values of a function are 1 .. NV
          Undef   \* contents of a value that was never computed

Value == 1 .. NV

Bits == 2

Modulus == 4

Word == 0 .. Modulus - 1

Comparisons == {"==", "!=", "<", ">="}

(* A binary operator on unsigned words; Undef where _fold_binary gives None.*)
Fold(op, left, right) ==
  LET truth(b) == IF b THEN 1 ELSE 0
  IN  CASE op = "+"  -> (left + right) % Modulus
        [] op = "-"  -> (left + Modulus - right) % Modulus
        [] op = "*"  -> (left * right) % Modulus
        [] op = "/"  -> IF right = 0 THEN Undef ELSE left \div right
        [] op = "%"  -> IF right = 0 THEN Undef ELSE left % right
        [] op = "&"  -> (left % 2) * (right % 2) + 2 * (left \div 2) * (right \div 2)
        [] op = "<<" -> IF right < Bits THEN (left * 2^right) % Modulus ELSE Undef
        [] op = ">>" -> IF right < Bits THEN left \div 2^right ELSE Undef
        [] op = "==" -> truth(left = right)
        [] op = "!=" -> truth(left # right)
        [] op = "<"  -> truth(left < right)
        [] op = ">=" -> truth(left >= right)

-----------------------------------------------------------------------------
Contents(run, v) == IF v = NoValue THEN Undef ELSE run.env[v]

ContentsOf(run, values) == [a \in DOMAIN values |-> Contents(run, values[a])]

(* The answer to a call depends on everything observed before it.           *)
Answer(run) == (run.input[1] + Len(run.trace)) % Modulus

Result(run, item) ==
  LET args == ContentsOf(run, item.args)
  IN  CASE item.op = "param"  -> run.input[item.extra]
        [] item.op = "const"  -> item.extra
        [] item.op = "copy"   -> args[1]
        [] item.op = "binary" -> IF Undef \in {args[1], args[2]} THEN Undef
                                 ELSE Fold(item.extra, args[1], args[2])
        [] item.op = "call"   -> Answer(run)

Run1(run, item) ==
  [run EXCEPT !.env = IF item.dst = NoValue THEN @ ELSE [@ EXCEPT ![item.dst] = Result(run, item)],
              !.trace = IF item.op = "call" THEN Append(@, ContentsOf(run, item.args)) ELSE @]

(* All phis of a block read before any is written.                          *)
EnterBlock(run, block) ==
  LET phi(v) == {k \in DOMAIN block.phis : block.phis[k].dst = v}
  IN  IF block.phis = << >> THEN run
      ELSE IF \E k \in DOMAIN block.phis : run.from \notin DOMAIN block.phis[k].from
        THEN [run EXCEPT !.status = "stuck"]
        ELSE [run EXCEPT !.env =
               [v \in Value |->
                  IF phi(v) = {} THEN run.env[v]
                  ELSE Contents(run, block.phis[CHOOSE k \in phi(v) : TRUE].from[run.from])]]

Taken(run, block) ==
  LET args == ContentsOf(run, block.reads)
  IN  IF block.term = "branch_if" THEN (args[1] # 0) = block.test
                                  ELSE Fold(block.test, args[1], args[2]) = 1

GoTo(run, block, label) == [run EXCEPT !.from = block.label, !.at = label]

Leave(f, run, block) ==
  LET i == IndexOf(f, block.label)
      args == ContentsOf(run, block.reads)
  IN  CASE block.term = "jump" -> GoTo(run, block, block.target)
        [] block.term = "return" \/ (block.term = "fall" /\ i = Len(f)) ->
             [run EXCEPT !.status = "done", !.trace = Append(@, args)]
        [] block.term = "fall" -> GoTo(run, block, f[i+1].label)
        [] block.term \in Branches ->
             IF \E a \in DOMAIN args : args[a] = Undef
               THEN [run EXCEPT !.status = "undefined"]
               ELSE GoTo(run, block, IF Taken(run, block) THEN block.target ELSE f[i+1].label)

RunBlock(f, run) ==
  LET block == BlockOf(f, run.at)
      entered == EnterBlock(run, block)
  IN  IF run.status # "running" THEN run
      ELSE IF entered.status # "running" THEN entered
      ELSE Leave(f, FoldLeft(Run1, entered, block.body), block)

(* What is observed of f on an input in `fuel` blocks: the calls and the     *)
(* result, and whether it is still running, is done, got stuck or branched  *)
(* on an undefined value.                                                   *)
Outcome(f, input, fuel) ==
  LET start == [at |-> f[1].label, from |-> 0, input |-> input, trace |-> << >>,
                env |-> [v \in Value |-> Undef], status |-> "running"]
      final == FoldLeft(LAMBDA run, n : RunBlock(f, run), start, [n \in 1 .. fuel |-> n])
  IN  [trace |-> final.trace, status |-> final.status]

(* Observation `new`, the longer one, is one that the function observed as  *)
(* `old` allows.  An undefined value may become any value, and anything may *)
(* follow a branch on one.                                                  *)
Allows(old, new) ==
  /\ new.status # "stuck"
  /\ Len(new.trace) >= Len(old.trace)
  /\ \A k \in DOMAIN old.trace :
       /\ DOMAIN new.trace[k] = DOMAIN old.trace[k]
       /\ \A a \in DOMAIN old.trace[k] : old.trace[k][a] \in {Undef, new.trace[k][a]}
  /\ old.status = "done" => new.status = "done" /\ Len(new.trace) = Len(old.trace)
=============================================================================
