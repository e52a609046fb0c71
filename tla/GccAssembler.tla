---------------------------- MODULE GccAssembler ----------------------------
(***************************************************************************)
(* symphony_as.py: from the statements of a `.s` file to a relocatable      *)
(* object of symphony_obj.py, in both encodings.  Pass 1 lays sections out  *)
(* and finds labels, pass 2 encodes and records relocations.                *)
(*                                                                          *)
(* A statement is a record with the field `is`:                             *)
(*   label, global, jump, call, address   `name`; a jump has `cond`, an     *)
(*                                        address `reg` and `addend`        *)
(*   section   `to`, one of Sections after the folding of .section          *)
(*   align     `to`, in bytes                                               *)
(*   space     `size`: .zero and .skip                                      *)
(*   data      `bytes`: strings and literals                                *)
(*   word      `width`, `name`, `addend`: a symbol as data                  *)
(*   insn      `mnem`, and the operands `d`, `a` and `v`: registers, but   *)
(*             `v` a literal if `imm`; loads and stores have a `size`       *)
(*   callreg   `reg`                                                        *)
(* The text of a line, its mnemonics and its operands are abstracted, and   *)
(* so are the statements the assembler refuses.                             *)
(***************************************************************************)
EXTENDS Integers, Sequences, SequencesExt

I == INSTANCE Isa

Sections == {"text", "data", "bss"}

Slot == 4

CallBytes(target, immediate, fixed) ==
  I!link_call(target, immediate,
              IF fixed THEN 3 * Slot ELSE IF immediate THEN 10 ELSE 9)

AluNames == {"add", "sub", "and", "or", "xor", "lsl", "lsr", "asr", "nor", "nand"}

JumpNames == DOMAIN I!JumpCode

ReadNames == {"input", "keyboard", "time_0", "time_1", "counter"}

(* _encode_insn of a statement without a symbol.  A negative literal is     *)
(* taken modulo 2^16.                                                       *)
InsnCode(x) ==
  LET v == IF x.imm THEN x.v % 65536 ELSE x.v
  IN  CASE x.mnem = "mov" -> I!mov(x.d, v, x.imm)
        [] x.mnem \in AluNames -> I!alu(x.mnem, x.d, x.a, v, x.imm)
        [] x.mnem = "cmp" -> I!alu("cmp", I!FLAGS, x.a, v, x.imm)
        [] x.mnem \in JumpNames -> I!jump(x.mnem, v, x.imm)
        [] x.mnem = "store" -> I!store(x.size, x.a, v)
        [] x.mnem = "load" -> I!load(x.size, x.d, x.a)
        [] x.mnem = "push" -> I!push(v)
        [] x.mnem = "pop" -> I!pop(x.d)
        [] x.mnem = "nop" -> I!mov(I!ZR, I!ZR, FALSE)
        [] x.mnem = "input" -> I!input(x.d)
        [] x.mnem = "output" -> I!output(v, x.imm)
        [] x.mnem = "keyboard" -> I!keyboard(x.d)
        [] x.mnem \in {"time_0", "time_1"} -> I!time(IF x.mnem = "time_0" THEN 0 ELSE 1, x.d)
        [] x.mnem = "screen" -> I!screen(x.a, v, x.imm)
        [] x.mnem = "persistent_load" -> I!persistent_load(x.d, x.a, FALSE)
        [] x.mnem = "persistent_store" -> I!persistent_store(x.a, v, FALSE)
        [] x.mnem = "counter" -> I!counter(x.d)
        [] x.mnem = "link_return" -> I!link_return

(* _insn_size_dynphony of the same.                                         *)
DynphonySize(x) ==
  CASE x.mnem = "mov" -> Len(I!mov(0, 0, x.imm))
    [] x.mnem \in AluNames \cup {"cmp"} -> Len(I!alu("add", 0, 0, 0, x.imm))
    [] x.mnem \in JumpNames -> Len(I!jump("jmp", 0, x.imm))
    [] x.mnem \in {"store", "load"} -> Len(I!store(4, 0, 0))
    [] x.mnem = "push" -> Len(I!push(I!SP))
    [] x.mnem = "pop" -> Len(I!pop(I!SP))
    [] x.mnem = "nop" -> Len(I!mov(0, 0, FALSE))
    [] x.mnem \in ReadNames -> 2
    [] x.mnem = "output" -> Len(I!output(0, x.imm))
    [] x.mnem = "screen" -> Len(I!screen(0, 0, x.imm))
    [] x.mnem = "persistent_load" -> Len(I!persistent_load(0, 0, FALSE))
    [] x.mnem = "persistent_store" -> Len(I!persistent_store(0, 0, FALSE))
    [] x.mnem = "link_return" -> Len(I!link_return)

(* Mutant: a register to call is sized as a symbol is.                      *)
InsnSizeOneCall(x, fixed) ==
  CASE x.is = "insn" ->
         IF fixed THEN Slot * (IF x.mnem \in {"push", "pop"} THEN 2 ELSE 1) ELSE DynphonySize(x)
    [] x.is = "jump" -> 4
    [] x.is \in {"call", "callreg"} -> IF fixed THEN 3 * Slot ELSE 10
    [] x.is = "address" -> 3 * Slot

(* _insn_size and _insn_size_dynphony.                                      *)
InsnSize(x, fixed) ==
  CASE x.is = "insn" ->
         IF fixed THEN Slot * (IF x.mnem \in {"push", "pop"} THEN 2 ELSE 1) ELSE DynphonySize(x)
    [] x.is = "jump" -> 4
    [] x.is = "call" -> IF fixed THEN 3 * Slot ELSE 10
    [] x.is = "callreg" -> IF fixed THEN 3 * Slot ELSE 9
    [] x.is = "address" -> 3 * Slot

Insns == {"insn", "jump", "call", "callreg", "address"}

Zeros(n) == [k \in 1 .. n |-> 0]

-----------------------------------------------------------------------------
(* Pass 1.  The state: the current section, the offsets reached, labels,    *)
(* globals, the name a .bss size will go to, the sizes of named and of      *)
(* anonymous .bss, relocations of data, and what pass 2 will read.          *)
Start ==
  [section |-> "text", offset |-> [s \in {"text", "data"} |-> 0], labels |-> << >>,
   globals |-> {}, pending |-> "", bss |-> << >>, anonymous |-> 0,
   relocs |-> << >>, parsed |-> << >>]

Queued(s, bytes) ==
  [s EXCEPT !.parsed = Append(@, [is |-> "data", section |-> s.section, bytes |-> bytes]),
            !.offset[s.section] = @ + Len(bytes)]

Reloc(section, offset, x, kind) ==
  [section |-> section, offset |-> offset, symbol |-> x.name, kind |-> kind,
   addend |-> IF "addend" \in DOMAIN x THEN x.addend ELSE 0,
   reg |-> IF kind = "abs32_la" THEN x.reg ELSE 0]

(* .bss does not tell pass 2 about the section.                             *)
EnterSection(s, to) ==
  IF to = "bss" THEN [s EXCEPT !.section = to, !.pending = ""]
  ELSE [s EXCEPT !.section = to, !.parsed = Append(@, [is |-> "section", to |-> to])]

Space(s, size) ==
  IF s.section # "bss" THEN Queued(s, Zeros(size))
  ELSE IF s.pending = "" THEN [s EXCEPT !.anonymous = @ + size]
  ELSE [s EXCEPT !.bss = Append(@, [name |-> s.pending, size |-> size]), !.pending = ""]

Padding(s, to) == (to - (s.offset[s.section] % to)) % to

Pass1(s, x, fixed) ==
  CASE x.is = "label" ->
         IF s.section = "bss" THEN [s EXCEPT !.pending = x.name]
         ELSE [s EXCEPT !.labels = (x.name :> <<s.section, s.offset[s.section]>>) @@ @]
    [] x.is = "global" -> [s EXCEPT !.globals = @ \cup {x.name}]
    [] x.is = "section" -> EnterSection(s, x.to)
    [] x.is = "align" ->
         IF s.section = "bss" \/ Padding(s, x.to) = 0 THEN s ELSE Queued(s, Zeros(Padding(s, x.to)))
    [] x.is = "space" -> Space(s, x.size)
    [] x.is = "data" -> Queued(s, x.bytes)
    [] x.is = "word" ->
         [Queued(s, Zeros(x.width)) EXCEPT
            !.relocs = Append(@, Reloc(s.section, s.offset[s.section], x,
                                       CASE x.width = 1 -> "data1" [] x.width = 2 -> "data2"
                                         [] x.width = 4 -> "data4"))]
    [] x.is \in Insns ->
         [s EXCEPT !.parsed = Append(@, x), !.offset[s.section] = @ + InsnSize(x, fixed)]

-----------------------------------------------------------------------------
(* Pass 2.  The position in a section is the length written so far.         *)
Encode(x, fixed) ==
  CASE x.is = "insn" -> I!Encoded(InsnCode(x), fixed)
    [] x.is = "jump" -> I!Encoded(I!jump(x.cond, 0, TRUE), fixed)
    [] x.is = "call" -> I!Encoded(CallBytes(0, TRUE, fixed), fixed)
    [] x.is = "callreg" -> I!Encoded(CallBytes(x.reg, FALSE, fixed), fixed)
    [] x.is = "address" -> I!Encoded(I!constant(x.reg, 0), fixed)

(* The jump of a call is its last instruction.                              *)
RelocsOf(x, section, offset, fixed) ==
  CASE x.is = "jump" -> <<Reloc(section, offset, x, "jump_u16")>>
    [] x.is = "call" -> <<Reloc(section, offset + InsnSize(x, fixed) - 4, x, "jump_u16")>>
    [] x.is = "address" -> <<Reloc(section, offset, x, "abs32_la")>>
    [] OTHER -> << >>

Pass2(s, x, fixed) ==
  LET at == Len(s.bytes[s.section])
  IN  CASE x.is = "section" -> [s EXCEPT !.section = x.to]
        [] x.is = "data" -> [s EXCEPT !.bytes[x.section] = @ \o x.bytes]
        [] OTHER ->
             [s EXCEPT !.bytes[s.section] = @ \o Encode(x, fixed),
                       !.relocs = @ \o RelocsOf(x, s.section, at, fixed)]

-----------------------------------------------------------------------------
LaidOut(statements, fixed) ==
  LET after[n \in 0 .. Len(statements)] ==
        IF n = 0 THEN Start ELSE Pass1(after[n - 1], statements[n], fixed)
  IN  after[Len(statements)]

Encodings(one, fixed) ==
  LET after[n \in 0 .. Len(one.parsed)] ==
        IF n = 0 THEN [section |-> "text", relocs |-> one.relocs,
                       bytes |-> [s \in {"text", "data"} |-> << >>]]
        ELSE Pass2(after[n - 1], one.parsed[n], fixed)
  IN  after[Len(one.parsed)]

(* to_object: anonymous .bss lies behind the named.                         *)
Assembled(unit, fixed, statements) ==
  LET one == LaidOut(statements, fixed)
      two == Encodings(one, fixed)
      before[k \in 1 .. Len(one.bss) + 1] ==
        IF k = 1 THEN 0 ELSE before[k - 1] + one.bss[k - 1].size
      symbol(name, section, offset) ==
        [name |-> name, section |-> section, offset |-> offset, global |-> name \in one.globals]
      symbols == {symbol(n, one.labels[n][1], one.labels[n][2]) : n \in DOMAIN one.labels}
                   \cup {symbol(one.bss[k].name, "bss", before[k]) : k \in DOMAIN one.bss}
  IN  [unit |-> unit, fixed |-> fixed, text |-> two.bytes["text"], data |-> two.bytes["data"],
       bss |-> one.anonymous + before[Len(one.bss) + 1],
       symbols |-> symbols, relocs |-> two.relocs,
       undefined |-> {two.relocs[k].symbol : k \in DOMAIN two.relocs} \ {y.name : y \in symbols}]
=============================================================================
