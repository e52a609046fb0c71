-------------------------- MODULE MCNativeEmulator --------------------------
(***************************************************************************)
(* Programs for NativeEmulator: four instructions in sixteen bytes of RAM,  *)
(* so that the PC, the stores and the loads wrap around.                    *)
(***************************************************************************)
EXTENDS NativeEmulator, SequencesExt

I == INSTANCE Isa

Ram == 16

(* Bytes of the program at the load address, zeros behind it.               *)
Image(program, load) ==
  [p \in 0 .. Ram - 1 |->
     LET k == ((p + Ram - (load % Ram)) % Ram) + 1
     IN  IF k <= Len(program) THEN program[k] ELSE 0]

Start(program, load, persistent) ==
  [memory |-> Image(program, load), persistent |-> persistent,
   regs |-> [r \in 0 .. 15 |-> 0], pc |-> load, steps |-> 0,
   inputs |-> <<7>>, keys |-> <<9, 8>>, outputs |-> << >>, screen |-> << >>]

Blank == [p \in 0 .. 3 |-> 0]

FixedClock == [value |-> Word - 1, perStep |-> 0, frequency |-> 0]
SteppedClock == [FixedClock EXCEPT !.perStep = 3]
FrequentClock == [FixedClock EXCEPT !.frequency = 5]

Settings(symphony, halt, limit, interval) ==
  [symphony |-> symphony, halt |-> halt, limit |-> limit, interval |-> interval,
   callback |-> FALSE, stops |-> {}, clock |-> FixedClock]

(* Where the two emulators differ: a Symphony jump into its own four bytes, *)
(* which no assembler of the repository encodes.                            *)
Misplaced(m, c) ==
  /\ c.symphony /\ Known(Opcode(m))
  /\ Jump(Opcode(m)) /\ VariablePC(m) # (m.pc + Width(Opcode(m))) % Word
  /\ (VariablePC(m) + Word - m.pc) % Word \in 1 .. 3

Comparable(job) ==
  LET next(run, n) ==
        IF run = << >> \/ Raises(run[1]) THEN run
        ELSE IF Misplaced(run[1], job[2]) THEN << >> ELSE <<Stepped(run[1], job[2])>>
  IN  FoldLeft(next, <<job[1]>>, [n \in 1 .. job[2].limit |-> n]) # << >>

-----------------------------------------------------------------------------
Two(x, y) == I!mov(1, x, TRUE) \o I!mov(2, y, TRUE)

Values == {1, 19, Word - 1, Word \div 2}

(* Every arithmetic instruction, its result output.                         *)
Arithmetics ==
  {Two(x, y) \o I!alu(op, d, 1, IF imm THEN y ELSE 2, imm) \o I!output(3, FALSE) :
     x \in Values, y \in Values, op \in DOMAIN I!AluCode, d \in {0, 3}, imm \in BOOLEAN}

Branches ==
  {Two(x, y) \o I!alu("cmp", 15, 1, 2, FALSE) \o I!jump(op, IF imm THEN 0 ELSE 1, imm) :
     x \in Values, y \in Values, op \in DOMAIN I!JumpCode, imm \in BOOLEAN}

(* A store into the program, and the way back to what it changed.           *)
Patches ==
  {Two(a, v) \o I!store(size, 1, 2) \o I!jump("jmp", t, TRUE) :
     a \in 0 .. Ram - 1, v \in {7, 16 * 256 + 24}, size \in {1, 2, 4}, t \in {0, 8}}

(* Loads from addresses that wrap, into a register that is read, or jumped  *)
(* through.                                                                 *)
Loads ==
  {Two(a, 7) \o I!load(size, d, 1) \o last :
     a \in {3, Ram - 1, Word - 1}, size \in {1, 2, 4}, d \in {0, 2},
     last \in {I!output(2, FALSE), I!jump("jmp", 2, FALSE)}}

Devices ==
  {Two(2, 5) \o a \o b :
     a \in {I!input(3), I!keyboard(3), I!time(0, 3), I!time(1, 3), I!counter(3),
            I!screen(1, 5, TRUE), I!screen(2, 2, FALSE), I!persistent_store(1, 2, FALSE),
            I!persistent_store(2, 2, TRUE), I!output(9, TRUE)},
     b \in {I!input(0), I!keyboard(1), I!time(0, 2), I!counter(0),
            I!persistent_load(3, 1, FALSE), I!persistent_load(0, 1, TRUE)}}

-----------------------------------------------------------------------------
Laid(programs, symphony) == {I!Encoded(p, symphony) : p \in programs}

(* Instructions no emulator knows.                                          *)
Unknown(symphony) ==
  {p \o <<code>> : p \in Laid({Two(1, 2) \o I!input(0)}, symphony), code \in {8, 59, 200}}

Plain(programs, halt, limit, interval) ==
  UNION {{<<Start(p, 0, Blank), Settings(symphony, halt, limit, interval)>> :
            p \in Laid(programs, symphony)} : symphony \in BOOLEAN}

(* Equipment of a machine: a callback that asks for a stop on a five, a     *)
(* persistent memory or none, and a clock.                                  *)
Equipment ==
  {<<{}, Blank, FixedClock>>, <<{5}, Blank, SteppedClock>>, <<{5}, << >>, FrequentClock>>}

(* The RAM may hold the program at an address beyond its end.               *)
Equipped ==
  UNION {{<<Start(p, load, e[2]),
            [Settings(symphony, NoHalt, 7, n) EXCEPT !.callback = e[1] # {}, !.stops = e[1],
                                                     !.clock = e[3]]>> :
            p \in Laid(Devices, symphony) \cup Unknown(symphony), e \in Equipment,
            n \in {0, 2}, load \in {2 * Ram + 4}} :
           symphony \in BOOLEAN}

AllJobs ==
  {job \in Plain(Arithmetics, NoHalt, 4, 0) \cup Plain(Branches, 12, 6, 2)
             \cup Plain(Patches, NoHalt, 9, 0) \cup Plain(Patches, 12, 9, 3)
             \cup Plain(Loads, NoHalt, 6, 2) \cup Equipped :
     Comparable(job)}
=============================================================================
