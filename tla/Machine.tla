------------------------------- MODULE Machine -------------------------------
(***************************************************************************)
(* What an instruction does, from symphony/emulator/machine.py: the reads   *)
(* and writes of memory, Machine.step and _step_symphony, on words of       *)
(* WordBits bits.  A four-byte access moves a word: the bytes above it are  *)
(* zero and lost.                                                           *)
(*                                                                          *)
(* The settings of a machine are a record                                   *)
(*   symphony  every instruction takes four bytes                           *)
(*   halt      the address run stops at, or NoHalt                          *)
(*   limit     max_steps                                                    *)
(*   callback  there is a screen callback; it asks to stop on the values in *)
(*   stops       this set                                                   *)
(*   clock     [value, perStep, frequency] of the simulated clock           *)
(* The host's own clock (live_time) is not modelled.                        *)
(***************************************************************************)
EXTENDS Naturals, Sequences, FiniteSets

CONSTANTS WordBits, \* at least 16, the width of an immediate
          Second    \* the nanoseconds of a second

ASSUME MachineAssumption == WordBits \in Nat /\ WordBits >= 16 /\ Second \in Nat

Power[n \in 0 .. WordBits] == IF n = 0 THEN 1 ELSE 2 * Power[n-1]

Word == Power[WordBits]

Words == 0 .. Word - 1

NoHalt == Word

(* Bytes at the addresses from zero, and a machine with registers 0 .. last.*)
IsMemory(memory) ==
  /\ Cardinality(DOMAIN memory) \in Nat
  /\ memory \in [0 .. Cardinality(DOMAIN memory) - 1 -> 0 .. 255]

IsMachine(m, last) ==
  /\ m \in [memory : {m.memory}, persistent : {m.persistent}, regs : [0 .. last -> Words],
             pc : Words, steps : Nat, inputs : Seq(Words), keys : Seq(Words),
             outputs : Seq(Words), screen : Seq(Words \X Words)]
  /\ IsMemory(m.memory) /\ DOMAIN m.memory # {}
  /\ IsMemory(m.persistent)
  /\ m.regs[0] = 0

Truth(b) == IF b THEN 1 ELSE 0

(* Bytes at consecutive addresses, the highest first; addresses wrap.       *)
Bytes(memory, address, size) ==
  LET at(n) == memory[(address + n) % Cardinality(DOMAIN memory)]
      joined(v, n) == (v * 256 + at(n)) % Word
  IN  CASE size = 1 -> at(0)
        [] size = 2 -> joined(at(0), 1)
        [] size = 4 -> joined(joined(joined(at(0), 1), 2), 3)

Stored(memory, address, value, size) ==
  LET length == Cardinality(DOMAIN memory)
      place(p) == (p + length - (address % length)) % length
  IN  [p \in DOMAIN memory |->
         IF place(p) < size THEN (value \div 256 ^ (size - 1 - place(p))) % 256 ELSE memory[p]]

Set(m, r, v) == IF r = 0 THEN m ELSE [m EXCEPT !.regs[r] = v]

-----------------------------------------------------------------------------
Negative(a) == a >= Word \div 2

Flags(a, b) ==
  Truth(a = b) + 2 * Truth(a < b)
    + 4 * Truth(IF Negative(a) = Negative(b) THEN a < b ELSE Negative(a))

ShiftedRight(a, n) == a \div Power[n]

(* The positions of the ones of a word, and the word with ones at S.        *)
Ones(a) == {n \in 0 .. WordBits - 1 : ShiftedRight(a, n) % 2 = 1}

WithOnes(S) ==
  LET upTo[n \in 0 .. WordBits] ==
        IF n = 0 THEN 0 ELSE 2 * upTo[n-1] + Truth(WordBits - n \in S)
  IN  upTo[WordBits]

And(a, b) == WithOnes(Ones(a) \cap Ones(b))
Or(a, b) == WithOnes(Ones(a) \cup Ones(b))

(* Copies of the sign come in from the left.                                *)
Sar(a, n) ==
  LET places == IF n < WordBits THEN n ELSE WordBits
  IN  ShiftedRight(a, places)
        + (IF Negative(a) THEN Word - ShiftedRight(Word, places) ELSE 0)

(* The operation of the low four bits of an arithmetic opcode.              *)
Operation(code, a, b) ==
  CASE code = 0  -> Word - 1 - And(a, b)
    [] code = 1  -> Or(a, b)
    [] code = 2  -> And(a, b)
    [] code = 3  -> Word - 1 - Or(a, b)
    [] code = 4  -> (a + b) % Word
    [] code = 5  -> (a + Word - b) % Word
    [] code = 6  -> WithOnes((Ones(a) \ Ones(b)) \cup (Ones(b) \ Ones(a)))
    [] code = 7  -> IF b < WordBits THEN (a * Power[b]) % Word ELSE 0
    [] code = 8  -> IF b < WordBits THEN ShiftedRight(a, b) ELSE 0
    [] code = 9  -> Sar(a, b)
    [] code = 10 -> Flags(a, b)

Clock(m, c) ==
  IF c.clock.frequency # 0
    THEN c.clock.value + (m.steps \div c.clock.frequency) * Second
           + ((m.steps % c.clock.frequency) * Second) \div c.clock.frequency
    ELSE c.clock.value + m.steps * c.clock.perStep

(* A condition selects flags, is true when one of them is set, and is       *)
(* inverted by bit 3.                                                       *)
Holds(condition, flags) ==
  (Ones(condition) \cap Ones(flags) \cap 0 .. 2 # {}) # (3 \in Ones(condition))

Popped(queue) == IF queue = << >> THEN << >> ELSE Tail(queue)
First(queue) == IF queue = << >> THEN 0 ELSE Head(queue)

-----------------------------------------------------------------------------
(* The fields of the instruction at the PC.                                 *)
Opcode(m) == Bytes(m.memory, m.pc, 1)
High(m) == Bytes(m.memory, m.pc + 1, 1) \div 16
Low(m) == Bytes(m.memory, m.pc + 1, 1) % 16
Immediate(op) == (op \div 16) % 2 = 1
Operand(m) ==
  IF Immediate(Opcode(m)) THEN Bytes(m.memory, m.pc + 2, 2)
                          ELSE m.regs[Bytes(m.memory, m.pc + 2, 1) % 16]

Arithmetic(op) == op \in 32 .. 58 /\ op % 16 <= 10
Jump(op) == op \in 64 .. 95
Access(op) == op \in 96 .. 119
Known(op) == op \in (0 .. 7) \cup {18, 20} \/ Arithmetic(op) \/ Jump(op) \/ Access(op)

Width(op) ==
  CASE op = 0 -> 1
    [] op \in {1, 3, 5, 6, 7} -> 2
    [] OTHER -> IF Immediate(op) THEN 4 ELSE 3

PersistentAccess(op) == Access(op) /\ op % 8 \in {3, 7}

Raises(m) ==
  \/ ~ Known(Opcode(m))
  \/ PersistentAccess(Opcode(m)) /\ DOMAIN m.persistent = {}

AccessSize(op) == CASE op % 4 = 0 -> 1 [] op % 4 = 1 -> 2 [] OTHER -> 4

(* What the instruction does apart from the PC and the count of steps.      *)
Executed(m, c) ==
  LET op == Opcode(m)
  IN  CASE op = 1 -> [Set(m, High(m), First(m.inputs)) EXCEPT !.inputs = Popped(@)]
        [] op \in {2, 18} -> [m EXCEPT !.outputs = Append(@, Operand(m))]
        [] op = 3 -> [Set(m, High(m), First(m.keys)) EXCEPT !.keys = Popped(@)]
        [] op \in {4, 20} -> [m EXCEPT !.screen = Append(@, <<m.regs[Low(m)], Operand(m)>>)]
        [] op = 5 -> Set(m, High(m), Clock(m, c) % Word)
        [] op = 6 -> Set(m, High(m), (Clock(m, c) \div Word) % Word)
        [] op = 7 -> Set(m, High(m), m.pc)
        [] Arithmetic(op) -> Set(m, High(m), Operation(op % 16, m.regs[Low(m)], Operand(m)))
        [] Access(op) ->
             CASE op % 8 = 3 -> Set(m, High(m), Bytes(m.persistent, Operand(m), 4))
               [] op % 8 = 7 -> [m EXCEPT !.persistent = Stored(@, Operand(m), m.regs[Low(m)], 4)]
               [] op % 8 < 3 -> Set(m, High(m), Bytes(m.memory, Operand(m), AccessSize(op)))
               [] OTHER -> [m EXCEPT !.memory = Stored(@, Operand(m), m.regs[Low(m)], AccessSize(op))]
        [] OTHER -> m

VariablePC(m) ==
  LET op == Opcode(m)
  IN  IF Jump(op) /\ Holds(op % 16, m.regs[Low(m)]) THEN Operand(m)
      ELSE (m.pc + Width(op)) % Word

(* A PC still inside the four bytes of a Symphony instruction moves behind  *)
(* them.                                                                    *)
NextPC(m, c) ==
  LET next == VariablePC(m)
      moved == (next + Word - m.pc) % Word
  IN  IF c.symphony /\ moved \in 1 .. 4 THEN (m.pc + 4) % Word ELSE next

Stepped(m, c) == [Executed(m, c) EXCEPT !.pc = NextPC(m, c), !.steps = @ + 1]

(* The callback is asked about every screen update.                         *)
StopRequested(m, c) ==
  Opcode(m) \in {4, 20} /\ c.callback /\ Operand(m) \in c.stops

(* The head of run's loop.                                                  *)
AtHead(m, c) ==
  IF m.steps >= c.limit THEN "limit"
  ELSE IF m.pc = c.halt THEN "returned" ELSE "running"

=============================================================================
