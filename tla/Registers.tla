------------------------------ MODULE Registers ------------------------------
(***************************************************************************)
(* The function of Destruct in registers: the values of the rewritten       *)
(* function live in the homes Allocate gives them, and its instructions are *)
(* the moves, loads and stores that Backend.function of                     *)
(* targets/symphony/backend.py emits for them.  A third side runs with the  *)
(* two of Destruct, on `machine`.                                           *)
(*                                                                          *)
(* Instructions of a block's body: "param", "unary", "add" and "sub" (two   *)
(* ways of a binary one, commutative or not), "direct_call" and "call",     *)
(* whose first argument is what it calls.  The arithmetic of addresses of   *)
(* slots, done in r7, and what is above the stack pointer are left out.     *)
(***************************************************************************)
EXTENDS Destruct, Allocate

CONSTANTS
  ArgumentRegisters,  \* how many there are: registers 1 .. ArgumentRegisters
  CallerSaved,        \* the sequence of caller-saved registers that may be homes
  CalleeSaved         \* the sequence of callee-saved ones

VARIABLES
  homes,    \* home of each value: a register, or a slot -v
  machine   \* contents of the homes between two instructions

machineVars == <<homes, machine>>

Flags == 15   \* caller-saved, no home; breaks cycles, and holds what is called

Argument == 1 .. ArgumentRegisters

Lost == Argument \cup ToSet(CallerSaved) \cup {Flags}

-----------------------------------------------------------------------------
(* The rewritten function, instruction by instruction                       *)

(* _sequentialize, its dictionary in the order of the destinations; the     *)
(* values it makes are new ones above `fresh`.                              *)
RECURSIVE Sequentialized(_, _)
Sequentialized(pending, fresh) ==
  LET move(d, s) == [op |-> "copy", dst |-> d, args |-> <<s>>]
      read == {pending[d] : d \in DOMAIN pending}
      ready == (DOMAIN pending) \ read
      order == Ordered({<<d>> : d \in ready})
      first == Min(DOMAIN pending)
  IN  IF pending = << >> THEN << >>
      ELSE IF ready # {}
        THEN [k \in DOMAIN order |-> move(order[k][1], pending[order[k][1]])]
               \o Sequentialized(Restrict(pending, (DOMAIN pending) \ ready), fresh)
        ELSE <<move(fresh + first, pending[first])>>
               \o Sequentialized([pending EXCEPT ![first] = fresh + first], fresh)

CopyItems(block) ==
  FlattenSeq([k \in DOMAIN block.copies |->
                Sequentialized(block.copies[k], NV * (2 * block.label + k))])

Terminator(block) == [op |-> block.term, dst |-> NoValue, args |-> block.reads]

Code(f) ==
  [i \in DOMAIN f |->
     [label |-> f[i].label, term |-> f[i].term, target |-> f[i].target,
      items |-> f[i].body \o CopyItems(f[i]) \o <<Terminator(f[i])>>]]

-----------------------------------------------------------------------------
(* Within an instruction all registers are there; m is their contents.      *)
AllRegisters == Argument \cup ToSet(CallerSaved) \cup ToSet(CalleeSaved) \cup {Flags}

Whole(m) == m @@ [r \in AllRegisters |-> Undef]

(* Between instructions what is in no home is lost.                         *)
Kept(m) == [h \in DOMAIN machine |-> m[h]]

HomeOf(v) == IF v \in DOMAIN homes THEN homes[v] ELSE NoValue

InRegister(v) == HomeOf(v) > 0

ReadHome(m, v) == m[homes[v]]

get(m, v, r) == [m EXCEPT ![r] = ReadHome(m, v)]

put(m, v, r) == IF v \in DOMAIN homes THEN [m EXCEPT ![homes[v]] = m[r]] ELSE m

(* self.register_values.get(v, 1)                                           *)
ResultRegister(v) == IF InRegister(v) THEN homes[v] ELSE 1

(* Moves between registers, <<target, source>>, as if all at once.          *)
RECURSIVE Moved(_, _)
Moved(m, pending) ==
  LET free == {k \in DOMAIN pending :
                 \A j \in DOMAIN pending :
                   pending[j][1] # pending[k][1] => pending[j][2] # pending[k][1]}
      next == Min(free)
  IN  IF pending = << >> THEN m
      ELSE IF free = {}
        THEN Moved([m EXCEPT ![Flags] = m[pending[1][2]]],
                   [pending EXCEPT ![1] = <<@[1], Flags>>])
        ELSE Moved([m EXCEPT ![pending[next][1]] = m[pending[next][2]]],
                   RemoveAt(pending, next))

(* The moves that bring values[k] into register k.                          *)
MovesInto(values) ==
  LET move == [k \in DOMAIN values |-> <<k, HomeOf(values[k])>>]
  IN  SelectSeq(move, LAMBDA p : p[1] # p[2])

(* Each value brought into its register before the next one is read.        *)
InTurn(m, values) ==
  FoldLeft(LAMBDA c, k : get(c, values[k], k), m, [k \in DOMAIN values |-> k])

(* Mutant: in turn, also where a value is in an argument register.          *)
InArgumentsInTurn(m, values) == InTurn(m, values)

(* place_call_arguments without the arguments on the stack: one by one, as  *)
(* one permutation, or by way of the stack.                                 *)
InArguments(m, values) ==
  IF \A k \in DOMAIN values : HomeOf(values[k]) \notin Argument
    THEN InTurn(m, values)
  ELSE IF \A k \in DOMAIN values : InRegister(values[k])
    THEN Moved(m, MovesInto(values))
    ELSE [k \in DOMAIN values |-> ReadHome(m, values[k])] @@ m

(* The registers at the call, and what is on the stack then.                *)
AtCall(m, arguments) ==
  LET inRegisters == [k \in Argument \cap DOMAIN arguments |-> arguments[k]]
      onStack == SubSeq(arguments, ArgumentRegisters + 1, Len(arguments))
      pushed == IF onStack = << >> THEN m ELSE get(m, onStack[1], 1)
  IN  [machine |-> InArguments(pushed, inRegisters),
       stack |-> [k \in DOMAIN onStack |-> ReadHome(m, onStack[k])]]

-----------------------------------------------------------------------------
(* The instructions                                                         *)

(* `early`: the right operand is saved before the left one takes its place. *)
AtBinary(m, x) ==
  LET result == ResultRegister(x.dst)
      swap == x.op = "add" /\ HomeOf(x.args[2]) = result
      left == IF swap THEN x.args[2] ELSE x.args[1]
      right == IF swap THEN x.args[1] ELSE x.args[2]
      early == left # right /\ HomeOf(right) = result
      both == IF early THEN get(get(m, right, 2), left, result)
                       ELSE get(get(m, left, result), right, 2)
  IN  [machine |-> both,
       operands |-> IF swap THEN <<both[2], both[result]>> ELSE <<both[result], both[2]>>]

AtOne(m, v, r) == [machine |-> get(m, v, r), operands |-> <<ReadHome(m, v)>>]

AtCalled(m, target, arguments) ==
  LET call == AtCall(IF target = << >> THEN m ELSE get(m, target[1], Flags), arguments)
  IN  [machine |-> call.machine,
       operands |-> [k \in DOMAIN target |-> call.machine[Flags]]
         \o [k \in DOMAIN arguments |->
               IF k \in Argument THEN call.machine[k]
                                 ELSE call.stack[k - ArgumentRegisters]]]

(* The registers when the instruction itself is executed, and what it finds *)
(* in the place of its operands.                                            *)
Ready(m, x) ==
  CASE x.op \in {"add", "sub"} -> AtBinary(m, x)
    [] x.op = "unary" -> AtOne(m, x.args[1], ResultRegister(x.dst))
    [] x.op = "call" -> AtCalled(m, <<x.args[1]>>, Tail(x.args))
    [] x.op = "direct_call" -> AtCalled(m, << >>, x.args)
    [] x.op \in {"branch_if", "return"} /\ x.args # << >> -> AtOne(m, x.args[1], 1)
    [] OTHER -> [machine |-> m, operands |-> << >>]

(* An instruction with result r.                                            *)
Executed(m, x, r) ==
  LET c == Ready(m, x).machine
      result == IF x.op \in Calls THEN 1 ELSE ResultRegister(x.dst)
      left == IF x.op \in Calls THEN [l \in Lost |-> Undef] @@ c ELSE c
  IN  put([left EXCEPT ![result] = r], x.dst, result)

Copied(m, x) ==
  LET result == ResultRegister(x.dst)
  IN  put(get(m, x.args[1], result), x.dst, result)

RunMachine(items) == Kept(FoldLeft(Copied, Whole(machine), items))

(* The prologue: parameters k with contents values[k] come in registers and *)
(* on the stack.  Slots are written before registers are moved, and the     *)
(* last argument register is put aside, for it serves to address slots.     *)
Prologue(m, parameters, values) ==
  LET n == Len(parameters)
      early == [k \in 1 .. IF n < ArgumentRegisters THEN n ELSE ArgumentRegisters - 1 |-> k]
      late == [k \in 1 .. n - Len(early) |-> Len(early) + k]
      incoming == [k \in Argument \cap DOMAIN values |-> values[k]] @@ m
      stored == FoldLeft(LAMBDA c, k : IF InRegister(parameters[k]) THEN c
                                       ELSE put(c, parameters[k], k), incoming, early)
      moves == SelectSeq([k \in DOMAIN early |-> <<HomeOf(parameters[k]), k>>],
                         LAMBDA p : p[1] > 0 /\ p[1] # p[2])
      by(k) == IF k = ArgumentRegisters THEN Flags ELSE 1
  IN  FoldLeft(LAMBDA c, k : put([c EXCEPT ![by(k)] = values[k]], parameters[k], by(k)),
               Moved(stored, moves), late)

Parameters(f) == SelectSeq(f[1].body, LAMBDA x : x.op = "param")

-----------------------------------------------------------------------------
(* A value that is written nowhere has no home to be read from, and the     *)
(* function is refused with a KeyError.                                     *)
RInit ==
  /\ Init
  /\ \E code \in {Code(out)} :
       /\ homes = Homes(code, CallerSaved, CalleeSaved)
       /\ \A i \in DOMAIN code : \A x \in ToSet(code[i].items) : ToSet(x.args) \subseteq DOMAIN homes
  /\ machine = [h \in {homes[v] : v \in DOMAIN homes} |-> Undef]

(* Parameters come with the function, and are there when the last of them   *)
(* has been given its contents.                                             *)
RExecute(r) ==
  /\ Execute(r)
  /\ UNCHANGED homes
  /\ machine' =
       LET x == out[place].body[idx]
           all == Parameters(out)
       IN  IF x.op # "param" THEN Kept(Executed(Whole(machine), x, r))
           ELSE IF idx < Len(all) THEN machine
           ELSE Kept(Prologue(Whole(machine), [k \in DOMAIN all |-> all[k].dst],
                              [k \in DOMAIN all |-> env'[fn[1].body[k].dst]]))

RInlineCopies ==
  /\ InlineCopies
  /\ UNCHANGED homes
  /\ machine' = RunMachine(CopyItems(out[place]))

RArrive ==
  /\ Arrive
  /\ UNCHANGED homes
  /\ machine' = IF out[place].label \in Labels(fn) THEN machine
                ELSE RunMachine(CopyItems(out[place]))

RNext ==
  \/ \E r \in Word : RExecute(r)
  \/ RInlineCopies
  \/ GoExplicit /\ UNCHANGED machineVars
  \/ FallThrough /\ UNCHANGED machineVars
  \/ RArrive
  \/ Return /\ UNCHANGED machineVars

RSpec == RInit /\ [][RNext]_<<vars, machineVars>>

-----------------------------------------------------------------------------
(* Every instruction finds the operands of the SSA function in its registers*)
(* and a call its arguments and what is called, whatever shares a register  *)
(* with them, is saved over a call, spilled, or moved on an edge            *)
(* (backend.py:704-706, 528-531, 1139-1140; allocate.py:60-67).             *)
SameInRegisters ==
  LET found(x) == Ready(Whole(machine), x).operands
      all(asked, seen) == \A a \in DOMAIN seen : Holds(asked[a], seen[a])
  IN  CASE phase = "body" /\ idx <= Len(Block.body) ->
             all(Block.body[idx].args, found(out[place].body[idx]))
        [] phase = "term" -> all(Block.reads, found(Terminator(out[place])))
        [] OTHER -> TRUE
=============================================================================
