--------------------------------- MODULE Isa ---------------------------------
(***************************************************************************)
(* The encoders of symphony/targets/symphony/isa.py: an instruction is the  *)
(* sequence of its bytes, a register its number, an immediate a two-byte    *)
(* word.  Symphony's padding to four bytes is the caller's.  The ValueError *)
(* of a register or an immediate out of range is not modelled: operands are *)
(* enumerated within their ranges.                                          *)
(***************************************************************************)
LOCAL INSTANCE Naturals
LOCAL INSTANCE Sequences

ZR == 0
R13 == 13
SP == 14
FLAGS == 15

AluCode ==
  [op \in {"nand", "or", "and", "nor", "add", "sub", "xor", "lsl", "lsr", "asr", "cmp"} |->
     CASE op = "nand" -> 32 [] op = "or"  -> 33 [] op = "and" -> 34 [] op = "nor" -> 35
       [] op = "add"  -> 36 [] op = "sub" -> 37 [] op = "xor" -> 38 [] op = "lsl" -> 39
       [] op = "lsr"  -> 40 [] op = "asr" -> 41 [] op = "cmp" -> 42]

JumpCode ==
  [op \in {"jmp", "je", "jne", "jb", "jae", "jbe", "ja", "jl", "jge", "jle", "jg"} |->
     CASE op = "jmp" -> 72 [] op = "je"  -> 65 [] op = "jne" -> 73 [] op = "jb"  -> 66
       [] op = "jae" -> 74 [] op = "jbe" -> 67 [] op = "ja"  -> 75 [] op = "jl"  -> 68
       [] op = "jge" -> 76 [] op = "jle" -> 69 [] op = "jg"  -> 77]

U16(v) == <<v \div 256, v % 256>>

(* The last operand: a register, or an immediate in the form with bit 4 set.*)
Form(code, second, v, immediate) ==
  IF immediate THEN <<code + 16, second>> \o U16(v) ELSE <<code, second, v>>

alu(op, d, a, b, immediate) == Form(AluCode[op], d * 16 + a, b, immediate)
jump(op, target, immediate) == Form(JumpCode[op], FLAGS, target, immediate)

SizeCode(size) == CASE size = 1 -> 0 [] size = 2 -> 1 [] size = 4 -> 2

load(size, d, address) == <<96 + SizeCode(size), d * 16, address>>
store(size, address, value) == <<100 + SizeCode(size), value, address>>

input(d) == <<1, d * 16>>
output(v, immediate) == Form(2, 0, v, immediate)
keyboard(d) == <<3, d * 16>>
screen(setting, v, immediate) == Form(4, setting, v, immediate)
time(part, d) == <<5 + part, d * 16>>
counter(d) == <<7, d * 16>>

persistent_load(d, address, immediate) == Form(99, d * 16, address, immediate)
persistent_store(address, value, immediate) == Form(103, value, address, immediate)

mov(d, source, immediate) == alu("or", d, ZR, source, immediate)
push(r) == alu("sub", SP, SP, 4, TRUE) \o store(4, SP, r)
pop(r) == load(4, r, SP) \o alu("add", SP, SP, 4, TRUE)

link_call(target, immediate, offset) ==
  counter(R13) \o alu("add", R13, R13, offset, TRUE) \o jump("jmp", target, immediate)

link_return == jump("jmp", R13, FALSE)

(* Always twelve bytes.                                                     *)
constant(r, v) ==
  mov(r, (v \div 65536) % 65536, TRUE) \o alu("lsl", r, r, 16, TRUE) \o alu("or", r, r, v % 65536, TRUE)

(* The length of the instruction that starts with `opcode`.                 *)
SizeOf(opcode) ==
  CASE opcode \in {0, 8} -> 1
    [] opcode \in {1, 3, 5, 6, 7} -> 2
    [] opcode \in {18, 20} -> 4
    [] opcode \in {2, 4} -> 3
    [] opcode \in 32 .. 119 -> IF (opcode \div 16) % 2 = 1 THEN 4 ELSE 3

(* Symphony gives every instruction of `code` four bytes: the next one.    *)
PaddedOnce(code, s) ==
  LET size == SizeOf(code[s.position + 1])
  IN  IF s.position >= Len(code) THEN s
      ELSE [position |-> s.position + size,
            out |-> s.out \o SubSeq(code, s.position + 1, s.position + size)
                          \o [k \in 1 .. 4 - size |-> 0]]

Padded(code) ==
  LET after[n \in 0 .. Len(code)] ==
        IF n = 0 THEN [position |-> 0, out |-> << >>] ELSE PaddedOnce(code, after[n-1])
  IN  after[Len(code)].out

Encoded(code, fixed) == IF fixed THEN Padded(code) ELSE code
=============================================================================
