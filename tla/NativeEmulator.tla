--------------------------- MODULE NativeEmulator ---------------------------
(***************************************************************************)
(* The native emulator: run of symphony/emulator/native.py, which executes  *)
(* a program in chunks when a progress meter is shown, and run_chunk of     *)
(* native_emulator.c, which executes instructions decoded once per address  *)
(* from a table and writes registers of its own.                            *)
(*                                                                          *)
(* A chunk works on a copy of the registers with a seventeenth one, into    *)
(* which writes to zr go.  The failures of the Python C API and of calloc   *)
(* are not modelled.                                                        *)
(***************************************************************************)
EXTENDS Machine

CONSTANTS Jobs   \* pairs of a machine and its settings

ASSUME JobsAssumption ==
  \A job \in Jobs :
    /\ IsMachine(job[1], 15)
    /\ job[2].symphony \in BOOLEAN /\ job[2].callback \in BOOLEAN
    /\ {job[2].halt, job[2].limit, job[2].interval} \subseteq Nat
    /\ {job[2].clock.value, job[2].clock.perStep, job[2].clock.frequency} \subseteq Nat

VARIABLES
  machine,   \* memory, queues, pc and steps, and the registers of the State
  settings,  \* those of Machine and `interval`, that of progress, or 0
  table,     \* the decoded instruction at every position of the memory
  bound,     \* step_limit of the chunk
  phase      \* "between" chunks, "fetch", "dispatch", or the end of the run

vars == <<machine, settings, table, bound, phase>>

Sink == 16

Invalid == [valid |-> FALSE]

Positions == DOMAIN machine.memory

Empty == [p \in Positions |-> Invalid]

NativeInit ==
  /\ \E job \in Jobs :
       /\ machine = [job[1] EXCEPT !.regs = [r \in 0 .. Sink |-> IF r = Sink THEN 0 ELSE @[r]]]
       /\ settings = job[2]
  /\ table = Empty
  /\ bound = 0
  /\ phase = "between"

Progress == settings.interval # 0

-----------------------------------------------------------------------------
(* Mutant: zr is a register like the others.                                *)
DestinationZero(r) == r

Destination(r) == IF r = 0 THEN Sink ELSE r

Next4(pc, size) == (pc + (IF settings.symphony THEN 4 ELSE size)) % Word

TimeOp ==
  IF settings.clock.frequency # 0 THEN "frequency"
  ELSE IF settings.clock.perStep # 0 THEN "stepped" ELSE "fixed"

ScreenOp == IF settings.callback THEN "screen_callback" ELSE "screen"

(* The operation and its variant, `a` the register written or else read,    *)
(* `b` the left operand or the condition, `c` the register of the last      *)
(* operand.                                                                 *)
Decoded(pc) ==
  LET byte(n) == Bytes(machine.memory, pc + n, 1)
      op == byte(0)
      entry(uop, a, b, size) ==
        [valid |-> TRUE, tag |-> pc, uop |-> uop, a |-> a, b |-> b,
         immediate |-> size = 4, c |-> byte(2) % 16, imm |-> Bytes(machine.memory, pc + 2, 2),
         next |-> Next4(pc, size)]
      size3 == IF Immediate(op) THEN 4 ELSE 3
      code == op % 8
  IN  CASE op = 0 -> entry(<<"nop">>, 0, 0, 1)
        [] op = 1 -> entry(<<"in">>, Destination(byte(1) \div 16), 0, 2)
        [] op \in {2, 18} -> entry(<<"out">>, 0, 0, size3)
        [] op = 3 -> entry(<<"key">>, Destination(byte(1) \div 16), 0, 2)
        [] op \in {4, 20} -> entry(<<ScreenOp>>, byte(1) % 16, 0, size3)
        [] op \in {5, 6} -> entry(<<"time", TimeOp, op - 5>>, Destination(byte(1) \div 16), 0, 2)
        [] op = 7 -> entry(<<"getpc">>, Destination(byte(1) \div 16), 0, 2)
        [] op \in 32 .. 58 /\ op % 16 <= 10 ->
             entry(<<"alu", op % 16>>, Destination(byte(1) \div 16), byte(1) % 16, size3)
        [] op \in 64 .. 95 -> entry(<<"branch">>, byte(1) % 16, op % 16, size3)
        [] op \in 96 .. 119 ->
             entry(<<"access", code>>,
                   IF code < 4 THEN Destination(byte(1) \div 16) ELSE byte(1) % 16, 0, size3)
        [] OTHER -> entry(<<"invalid">>, 0, 0, 1)

(* Mutant: an instruction that starts three bytes before is forgotten.      *)
OverlappedMinusTwo(address, size) ==
  {(address + delta + Cardinality(Positions) - 3) % Cardinality(Positions) :
     delta \in 1 .. size + 2}

(* Any instruction of up to four bytes that overlaps what was written.      *)
Overlapped(address, size) ==
  {(address + delta + Cardinality(Positions) - 4) % Cardinality(Positions) :
     delta \in 1 .. size + 3}

Cleared(address, size) ==
  [p \in Positions |-> IF p \in Overlapped(address, size) THEN Invalid ELSE table[p]]

-----------------------------------------------------------------------------
Here == machine.pc % Cardinality(Positions)

(* Mutant: the loop of chunks asks for a whole interval beyond the limit.   *)
LimitExceededNever ==
  /\ phase = "between" /\ machine.steps > settings.limit
  /\ phase' = "limit"
  /\ UNCHANGED <<machine, settings, table, bound>>

(* run_chunk up to the first instruction.  The table outlives the chunk in  *)
(* a session with a progress meter only.                                    *)
StartChunk ==
  /\ phase = "between" /\ machine.steps < settings.limit
  /\ bound' = IF Progress /\ machine.steps + settings.interval < settings.limit
                THEN machine.steps + settings.interval ELSE settings.limit
  /\ table' = IF Progress THEN table ELSE Empty
  /\ machine' = [machine EXCEPT !.regs[Sink] = 0]
  /\ phase' = IF machine.pc = settings.halt THEN "returned" ELSE "fetch"
  /\ UNCHANGED settings

LimitExceeded ==
  /\ phase = "between" /\ machine.steps >= settings.limit
  /\ phase' = "limit"
  /\ UNCHANGED <<machine, settings, table, bound>>

Fetch ==
  /\ phase = "fetch"
  /\ table' = IF table[Here].valid /\ table[Here].tag = machine.pc THEN table
              ELSE [table EXCEPT ![Here] = Decoded(machine.pc)]
  /\ phase' = "dispatch"
  /\ UNCHANGED <<machine, settings, bound>>

-----------------------------------------------------------------------------
Right(d) == IF d.immediate THEN d.imm ELSE machine.regs[d.c]

Sar32(a, n) ==
  IF n >= WordBits THEN (IF Negative(a) THEN Word - 1 ELSE 0) ELSE Sar(a, n)

Computed(code, a, b) == IF code = 9 THEN Sar32(a, b) ELSE Operation(code, a, b)

TimeNow(variant) ==
  settings.clock.value
    + CASE variant = "fixed" -> 0
        [] variant = "stepped" -> machine.steps * settings.clock.perStep
        [] variant = "frequency" ->
             (machine.steps \div settings.clock.frequency) * Second
               + ((machine.steps % settings.clock.frequency) * Second) \div settings.clock.frequency

Put(r, v) == [machine EXCEPT !.regs[r] = v]

Performed(d) ==
  CASE d.uop[1] = "in"  -> [Put(d.a, First(machine.inputs)) EXCEPT !.inputs = Popped(@)]
    [] d.uop[1] = "out" -> [machine EXCEPT !.outputs = Append(@, Right(d))]
    [] d.uop[1] = "key" -> [Put(d.a, First(machine.keys)) EXCEPT !.keys = Popped(@)]
    [] d.uop[1] \in {"screen", "screen_callback"} ->
         [machine EXCEPT !.screen = Append(@, <<machine.regs[d.a], Right(d)>>)]
    [] d.uop[1] = "time" ->
         Put(d.a, (IF d.uop[3] = 0 THEN TimeNow(d.uop[2]) ELSE TimeNow(d.uop[2]) \div Word) % Word)
    [] d.uop[1] = "getpc" -> Put(d.a, machine.pc)
    [] d.uop[1] = "alu" -> Put(d.a, Computed(d.uop[2], machine.regs[d.b], Right(d)))
    [] d.uop[1] = "access" ->
         CASE d.uop[2] = 3 -> Put(d.a, Bytes(machine.persistent, Right(d), 4))
           [] d.uop[2] = 7 ->
                [machine EXCEPT !.persistent = Stored(@, Right(d), machine.regs[d.a], 4)]
           [] d.uop[2] < 3 -> Put(d.a, Bytes(machine.memory, Right(d), AccessSize(d.uop[2])))
           [] OTHER ->
                [machine EXCEPT !.memory = Stored(@, Right(d), machine.regs[d.a], AccessSize(d.uop[2]))]
    [] OTHER -> machine

TableAfter(d) ==
  IF d.uop[1] = "access" /\ d.uop[2] \in 4 .. 6
    THEN Cleared(Right(d), AccessSize(d.uop[2])) ELSE table

Target(d) ==
  IF d.uop[1] = "branch" /\ Holds(d.b, machine.regs[d.a]) THEN Right(d) ELSE d.next

Fails(d) ==
  \/ d.uop[1] = "invalid"
  \/ d.uop[1] = "access" /\ d.uop[2] \in {3, 7} /\ DOMAIN machine.persistent = {}

(* A handler and FINISH_INSN or FINISH_SCREEN behind it.                    *)
Dispatch ==
  LET d == table[Here]
      stop == d.uop[1] = "screen_callback" /\ Right(d) \in settings.stops
  IN  /\ phase = "dispatch"
      /\ IF Fails(d)
           THEN phase' = "raised" /\ UNCHANGED <<machine, table>>
           ELSE /\ machine' = [Performed(d) EXCEPT !.pc = Target(d), !.steps = @ + 1]
                /\ table' = TableAfter(d)
                /\ phase' = IF stop \/ Target(d) = machine.pc THEN "returned"
                            ELSE IF machine.steps + 1 >= bound THEN "between"
                            ELSE IF Target(d) = settings.halt THEN "returned" ELSE "fetch"
      /\ UNCHANGED <<settings, bound>>

NativeNext == StartChunk \/ LimitExceeded \/ Fetch \/ Dispatch

NativeSpec == NativeInit /\ [][NativeNext]_vars /\ WF_vars(NativeNext)

-----------------------------------------------------------------------------
Ended == phase \in {"returned", "limit", "raised"}

Reference ==
  INSTANCE Emulator WITH
    machine <- [machine EXCEPT !.regs = [r \in 0 .. 15 |-> @[r]]],
    status <- IF phase = "between" THEN AtHead(machine, settings)
              ELSE IF Ended THEN phase ELSE "running"

(* The native emulator takes the steps of the reference emulator, whatever  *)
(* the chunks and whatever the program writes over its own instructions,    *)
(* and it stops where and why the reference stops (native.py:1,             *)
(* test_integration.py:167-218).                                            *)
ImplementsReference == Reference!Spec

(* A decoded instruction is the one that is in memory now, however it was   *)
(* stored over (native_emulator.c:491-499, 615-620).                        *)
TableIsFresh ==
  \A p \in Positions : table[p].valid => table[p] = Decoded(table[p].tag)

(* The chunks of a progress meter neither drop the end of a run nor repeat  *)
(* it: the run ends (native.py:27-41).                                      *)
RunEnds == <>Ended
=============================================================================
