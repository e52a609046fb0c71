------------------------------ MODULE Assembler ------------------------------
(***************************************************************************)
(* symphony/targets/symphony/assembler.py, and the layout of an image in    *)
(* Backend.build.  Branches and calls to a label are emitted long; when all *)
(* code and data is there, those whose target an immediate can name shrink, *)
(* in rounds until nothing changes, and whatever lay behind them moves.     *)
(*                                                                          *)
(* A program is                                                             *)
(*   fixed, pic, load, ram   the target                                     *)
(*   functions   [name, body]: the statements emit (bytes), label, address, *)
(*               jump, call, callreg, init_pic and relocate_globals         *)
(*   globals     [name, section, align, data, relocs], a relocation being   *)
(*               [at, name, addend]                                         *)
(* The start of the heap, the stack frames, and the loops that clear .bss   *)
(* and that a stack overflow ends in are left out.                          *)
(***************************************************************************)
EXTENDS Integers, Sequences, SequencesExt

CONSTANT Reach  \* stands for 0xFFFF, the last address an immediate can name

I == INSTANCE Isa

VARIABLES
  program,  \* what is assembled
  asm,      \* [code, labels, fixups, controls, duplicate]
  choices,  \* the size of each control
  round,    \* [next, changed]: the control looked at next in this round
  stage     \* "idle", "emit", "relax", "rebuild", "finish", "done", or an error

Scratch == 7
PicBase == 12
CallTarget == I!FLAGS

-----------------------------------------------------------------------------
emit(a, code) == [a EXCEPT !.code = @ \o I!Encoded(code, program.fixed)]

CallBytes(target, immediate) ==
  I!link_call(target, immediate,
              IF program.fixed THEN 12 ELSE IF immediate THEN 10 ELSE 9)

label(a, name) ==
  IF name \in DOMAIN a.labels THEN [a EXCEPT !.duplicate = TRUE]
                              ELSE [a EXCEPT !.labels = @ @@ (name :> Len(a.code))]

address(a, r, name, addend) ==
  [emit(a, I!constant(r, 0)
             \o (IF program.pic THEN I!alu("add", r, PicBase, r, FALSE) ELSE << >>))
     EXCEPT !.fixups =
       Append(@, [at |-> Len(a.code), reg |-> r, name |-> name, addend |-> addend])]

(* A control keeps the long form's size.                                    *)
control(a, op, name, size, code) ==
  [emit(a, code) EXCEPT !.controls =
     Append(@, [at |-> Len(a.code), op |-> op, name |-> name, size |-> size])]

branch(a, op, name) ==
  IF program.pic THEN emit(address(a, Scratch, name, 0), I!jump(op, Scratch, FALSE))
  ELSE control(a, op, name, IF program.fixed THEN 16 ELSE 15,
               I!constant(Scratch, 0) \o I!jump("jmp", Scratch, FALSE))

call(a, name) ==
  IF program.pic THEN emit(address(a, CallTarget, name, 0), CallBytes(CallTarget, FALSE))
  ELSE control(a, "call", name, IF program.fixed THEN 24 ELSE 21,
               I!constant(CallTarget, 0) \o CallBytes(CallTarget, FALSE))

Of(section) == SelectSeq(program.globals, LAMBDA g : g.section = section)

(* emit_relocations: position-independent code stores its own pointers.     *)
relocated(a) ==
  LET pointers == FlattenSeq([k \in DOMAIN program.globals |->
                    [r \in DOMAIN program.globals[k].relocs |->
                       <<program.globals[k].name, program.globals[k].relocs[r]>>]])
      store(b, p) ==
        emit(address(address(b, 1, p[1], p[2].at), 2, p[2].name, p[2].addend), I!store(4, 1, 2))
  IN  FoldLeft(store, a, pointers)

statement(a, x) ==
  CASE x.is = "emit" -> emit(a, x.bytes)
    [] x.is = "label" -> label(a, x.name)
    [] x.is = "address" -> address(a, x.reg, x.name, x.addend)
    [] x.is = "jump" -> branch(a, x.cond, x.name)
    [] x.is = "call" -> call(a, x.name)
    [] x.is = "callreg" -> emit(a, CallBytes(x.reg, FALSE))
    [] x.is = "init_pic" -> IF program.pic THEN emit(a, I!counter(PicBase)) ELSE a
    [] x.is = "relocate_globals" -> IF program.pic THEN relocated(a) ELSE a

AlignUp(n, to) == n + ((to - (n % to)) % to)

Zeros(n) == [k \in 1 .. n |-> 0]

(* Data is aligned where it lies before anything has shrunk.                *)
global(a, g) ==
  LET aligned == [a EXCEPT !.code = @ \o Zeros(AlignUp(Len(@), g.align) - Len(@))]
  IN  [label(aligned, g.name) EXCEPT !.code = @ \o g.data]

Nothing ==
  [code |-> << >>, labels |-> << >>, fixups |-> << >>, controls |-> << >>, duplicate |-> FALSE]

Emitted ==
  LET function(a, f) == FoldLeft(statement, label(a, f.name), f.body)
  IN  FoldLeft(global, FoldLeft(function, Nothing, program.functions), Of("rodata") \o Of("data"))

-----------------------------------------------------------------------------
Generate(p) ==
  /\ stage = "idle"
  /\ program' = p
  /\ stage' = "emit"
  /\ UNCHANGED <<asm, choices, round>>

Emit ==
  /\ stage = "emit"
  /\ asm' = Emitted
  /\ choices' = [k \in DOMAIN asm'.controls |-> asm'.controls[k].size]
  /\ stage' = IF asm'.duplicate THEN "duplicate"
              ELSE IF asm'.controls = << >> THEN "finish" ELSE "relax"
  /\ UNCHANGED <<program, round>>

Raised(error) ==
  /\ stage' = error
  /\ UNCHANGED <<program, asm, choices, round>>

(* Where what was emitted at a position is if the choices stand.            *)
Translated(position) ==
  position - MapThenSumSet(LAMBDA k : asm.controls[k].size - choices[k],
                           {k \in DOMAIN asm.controls : asm.controls[k].at < position})

Target(name) == program.load + Translated(asm.labels[name])

Short(c) == IF c.op # "call" THEN 4 ELSE IF program.fixed THEN 12 ELSE 10

ConsiderControl ==
  /\ stage = "relax" /\ round.next <= Len(asm.controls)
  /\ LET c == asm.controls[round.next]
         size == IF Target(c.name) <= Reach THEN Short(c) ELSE c.size
     IN  IF c.name \notin DOMAIN asm.labels THEN Raised("undefined")
         ELSE /\ choices' = [choices EXCEPT ![round.next] = size]
              /\ round' = [next |-> round.next + 1,
                           changed |-> round.changed \/ choices[round.next] # size]
              /\ UNCHANGED <<program, asm, stage>>

(* Mutant: one round is enough.                                             *)
EndRelaxOnce ==
  /\ stage = "relax" /\ round.next > Len(asm.controls)
  /\ round' = [next |-> 1, changed |-> FALSE]
  /\ stage' = "rebuild"
  /\ UNCHANGED <<program, asm, choices>>

EndRelax ==
  /\ stage = "relax" /\ round.next > Len(asm.controls)
  /\ round' = [next |-> 1, changed |-> FALSE]
  /\ stage' = IF round.changed THEN "relax" ELSE "rebuild"
  /\ UNCHANGED <<program, asm, choices>>

Selected(c, target) ==
  IF c.op = "call"
    THEN IF target <= Reach THEN CallBytes(target, TRUE)
         ELSE I!constant(CallTarget, target) \o CallBytes(CallTarget, FALSE)
    ELSE IF target <= Reach THEN I!jump(c.op, target, TRUE)
         ELSE I!constant(Scratch, target) \o I!jump(c.op, Scratch, FALSE)

Rebuild ==
  /\ stage = "rebuild"
  /\ LET cs == asm.controls
         end(k) == IF k = 0 THEN 0 ELSE cs[k].at + cs[k].size
         piece(k) == SubSeq(asm.code, end(k - 1) + 1, cs[k].at)
                       \o I!Encoded(Selected(cs[k], Target(cs[k].name)), program.fixed)
     IN  asm' = [asm EXCEPT
                   !.code = FlattenSeq([k \in DOMAIN cs |-> piece(k)])
                              \o SubSeq(@, end(Len(cs)) + 1, Len(@)),
                   !.labels = [n \in DOMAIN @ |-> Translated(@[n])],
                   !.fixups = [k \in DOMAIN @ |-> [@[k] EXCEPT !.at = Translated(@)]],
                   !.controls = << >>]
  /\ stage' = "finish"
  /\ UNCHANGED <<program, choices, round>>

-----------------------------------------------------------------------------
(* Reservations behind the image: their labels, and where they end.         *)
Reserved ==
  LET alignment(n, g) == IF g.align > n THEN g.align ELSE n
      start == AlignUp(Len(asm.code), FoldLeft(alignment, 4, Of("bss")))
      reserve(s, g) ==
        LET at == AlignUp(s.end, g.align)
        IN  [labels |-> s.labels @@ (g.name :> at), end |-> at + Len(g.data)]
      all == FoldLeft(reserve, [labels |-> << >>, end |-> start], Of("bss"))
  IN  IF Of("bss") = << >> THEN [labels |-> << >>, end |-> Len(asm.code)]
      ELSE LET end == AlignUp(all.end, 4)
           IN  [end |-> end,
                labels |-> all.labels @@ ("@bss.start" :> start) @@ ("@bss.end" :> end)]

Over(code, at, bytes) ==
  [p \in DOMAIN code |-> IF p - at \in DOMAIN bytes THEN bytes[p - at] ELSE code[p]]

Word(v) == <<v \div 16777216, (v \div 65536) % 256, (v \div 256) % 256, v % 256>>

Relocations ==
  UNION {{<<g, g.relocs[r]>> : r \in DOMAIN g.relocs} : g \in ToSet(program.globals)}

Finish ==
  /\ stage = "finish"
  /\ LET reserved == Reserved
         labels == reserved.labels @@ asm.labels
         base == IF program.pic THEN 0 ELSE program.load
         fix(code, f) == Over(code, f.at, I!constant(f.reg, labels[f.name] + f.addend + base))
         point(code, p) ==
           Over(code, labels[p[1].name] + p[2].at,
                Word(IF program.pic THEN 0 ELSE base + labels[p[2].name] + p[2].addend))
         wanted == {asm.fixups[k].name : k \in DOMAIN asm.fixups}
                     \cup {p[2].name : p \in Relocations}
     IN  IF ~ wanted \subseteq DOMAIN labels THEN Raised("undefined")
         ELSE IF (program.load % program.ram) + reserved.end > program.ram THEN Raised("no room")
         ELSE /\ asm' = [asm EXCEPT !.labels = labels,
                           !.code = FoldLeft(point, FoldLeft(fix, @, asm.fixups),
                                             SetToSeq(Relocations))]
              /\ stage' = "done"
              /\ UNCHANGED <<program, choices, round>>

Assembling == stage \in {"emit", "relax", "rebuild", "finish"}
=============================================================================
