------------------------------ MODULE MCLinker ------------------------------
(***************************************************************************)
(* Programs of a few functions and data in several units and archives, as   *)
(* the compiler would write their statements, linked and then run on the    *)
(* reference emulator.  Those without archives are then built as one module *)
(* by the assembler of the compiler, and run too.                           *)
(***************************************************************************)
EXTENDS Linker

VARIABLES program, asm, choices, round, stage  \* of Assembler

hostVars == <<program, asm, choices, round, stage>>

M == INSTANCE Machine WITH WordBits <- 16, Second <- 1

H == INSTANCE Assembler

Names == <<"start", "main", "f", "g", "h", "d", "b", "p", "l">>

Id(name) == CHOOSE n \in DOMAIN Names : Names[n] = name

Insn(mnem, d, a, v, imm) ==
  [is |-> "insn", mnem |-> mnem, d |-> d, a |-> a, v |-> v, imm |-> imm, size |-> 4]

Load(size, d, a) == [Insn("load", d, a, 0, FALSE) EXCEPT !.size = size]

JumpTo(cond, name) == [is |-> "jump", cond |-> cond, name |-> name]

JumpBy(name, addend) == [is |-> "jump", cond |-> "jmp", name |-> name, addend |-> addend]

Label(name) == [is |-> "label", name |-> name]

Named(name, global) ==
  (IF global THEN <<[is |-> "global", name |-> name]>> ELSE << >>) \o <<Label(name)>>

(* A call, a jump that does not come back - to a name, past the first of    *)
(* its instructions, or below all memory - or a read of a byte, at a name   *)
(* or where a pointer of that name points.                                  *)
Leaves == {"jump", "skip", "below"}

Leave(act) ==
  CASE act.does = "jump" -> JumpTo("jmp", act.name)
    [] act.does = "skip" -> JumpBy(act.name, 4)
    [] act.does = "below" -> JumpBy(act.name, -200)

Act(does, name) == [does |-> does, name |-> name]

Statements(act) ==
  CASE act.does = "call" -> <<[is |-> "call", name |-> act.name]>>
    [] act.does = "callreg" ->
         <<[is |-> "address", reg |-> 3, name |-> act.name, addend |-> 0],
           [is |-> "callreg", reg |-> 3]>>
    [] act.does \in Leaves -> << >>
    [] act.does = "read" ->
         <<[is |-> "address", reg |-> 1, name |-> act.name, addend |-> 1],
           Load(1, 2, 1), Insn("output", 0, 0, 2, FALSE)>>
    [] act.does = "follow" ->
         <<[is |-> "address", reg |-> 1, name |-> act.name, addend |-> 0],
           Load(4, 1, 1), Load(1, 2, 1), Insn("output", 0, 0, 2, FALSE)>>

(* Outputs its number, does what it does with the link register saved, and  *)
(* returns, unless it ends in a jump.                                       *)
Body(name, acts) ==
  <<Insn("output", 0, 0, Id(name), TRUE), Insn("push", 0, 0, I!R13, FALSE)>>
    \o FlattenSeq([k \in DOMAIN acts |-> Statements(acts[k])])
    \o <<Insn("pop", I!R13, 0, 0, FALSE)>>
    \o (IF acts # << >> /\ acts[Len(acts)].does \in Leaves
          THEN <<Leave(acts[Len(acts)])>>
          ELSE <<Insn("link_return", 0, 0, 0, FALSE)>>)

Ram == 512

Begin ==
  <<Insn("mov", I!SP, 0, Ram - 4, TRUE), [is |-> "call", name |-> "main"],
    Label("l"), JumpTo("jmp", "l")>>

Function(name, global, body) ==
  <<[is |-> "section", to |-> "text"]>> \o Named(name, global) \o body

(* Two bytes, the second of which is read: a literal, or an address.        *)
Data(name, global) ==
  <<[is |-> "section", to |-> "data"], [is |-> "align", to |-> 4]>> \o Named(name, global)
    \o <<[is |-> "data", bytes |-> <<99, Id(name)>>]>>

Pointer(name, global, to) ==
  <<[is |-> "section", to |-> "data"], [is |-> "data", bytes |-> <<1>>]>> \o Named(name, global)
    \o <<[is |-> "word", width |-> 4, name |-> to, addend |-> 1]>>

Bss(name, global) ==
  <<[is |-> "section", to |-> "bss"], [is |-> "space", size |-> 1]>> \o Named(name, global)
    \o <<[is |-> "space", size |-> 3]>>

-----------------------------------------------------------------------------
(* Data among the code, as for a string literal of a function.              *)
Literal ==
  <<[is |-> "section", to |-> "text"], [is |-> "data", bytes |-> <<7>>], [is |-> "align", to |-> 4]>>

(* A unit is its name, the definitions in it by name, and whether local.    *)
Def(name, kind, global, acts) == [name |-> name, kind |-> kind, global |-> global, acts |-> acts]

Text(def) ==
  CASE def.kind = "begin" -> Function(def.name, TRUE, Begin)
    [] def.kind = "function" -> Function(def.name, def.global, Body(def.name, def.acts))
    [] def.kind = "data" -> Data(def.name, def.global)
    [] def.kind = "pointer" -> Pointer(def.name, def.global, def.acts[1].name)
    [] def.kind = "literal" -> Literal
    [] def.kind = "bss" -> Bss(def.name, def.global)

Object(unit, fixed) ==
  Assembled(unit.name, fixed, FlattenSeq([k \in DOMAIN unit.defs |-> Text(unit.defs[k])]))

Objects(units, fixed) == [k \in DOMAIN units |-> Object(units[k], fixed)]

Job(units, archives, fixed) ==
  [objects |-> Objects(units, fixed), archives |-> [a \in DOMAIN archives |-> Objects(archives[a], fixed)],
   entry |-> "start", units |-> units, libraries |-> archives]

AllUnits(j) == j.units \o FlattenSeq(j.libraries)

(* What a name means in a unit: its own definition, or a global one of an   *)
(* included unit.                                                           *)
Meaning(j, unit, name) ==
  LET own == {k \in DOMAIN unit.defs : unit.defs[k].name = name}
      all == {<<u, k>> \in (1 .. Len(AllUnits(j))) \X (1 .. 4) :
                /\ k \in DOMAIN AllUnits(j)[u].defs
                /\ AllUnits(j)[u].defs[k].name = name /\ AllUnits(j)[u].defs[k].global
                /\ \E o \in DOMAIN objects : objects[o].unit = AllUnits(j)[u].name}
      found == CHOOSE d \in all : TRUE
  IN  IF own # {} THEN <<unit, unit.defs[CHOOSE k \in own : TRUE]>>
      ELSE <<AllUnits(j)[found[1]], AllUnits(j)[found[1]].defs[found[2]]>>

(* What a program outputs, by its definitions: `depth` calls deep.          *)
RECURSIVE Outputs(_, _, _, _)
Outputs(j, unit, def, depth) ==
  LET of(act) ==
        LET m == Meaning(j, unit, act.name)
        IN  IF act.does = "follow" THEN <<Id(m[2].acts[1].name)>>
            ELSE IF act.does = "read" THEN <<IF m[2].kind = "data" THEN Id(act.name) ELSE 0>>
            ELSE IF act.does = "skip" THEN Tail(Outputs(j, m[1], m[2], depth - 1))
            ELSE Outputs(j, m[1], m[2], depth - 1)
  IN  IF depth = 0 THEN << >>
      ELSE <<Id(def.name)>> \o FlattenSeq([k \in DOMAIN def.acts |-> of(def.acts[k])])

Expected(j) ==
  LET m == Meaning(j, j.units[1], "main") IN Outputs(j, m[1], m[2], 6)

-----------------------------------------------------------------------------
(* The same definitions as one module of the compiler, with its startup.    *)
Hosted(x) == IF x.is = "insn" THEN [is |-> "emit", bytes |-> InsnCode(x)] ELSE x

Statement(is) == [is |-> is]

HostFunction(def) ==
  LET body == IF def.kind = "begin"
                THEN <<Statement("init_pic"), Statement("relocate_globals")>> \o Begin
                ELSE Body(def.name, def.acts)
  IN  [name |-> def.name, body |-> [k \in DOMAIN body |-> Hosted(body[k])]]

HostGlobal(def) ==
  LET of(section, align, data, relocs) ==
        [name |-> def.name, section |-> section, align |-> align, data |-> data, relocs |-> relocs]
  IN  CASE def.kind = "data" -> of("rodata", 4, <<99, Id(def.name)>>, << >>)
        [] def.kind = "bss" -> of("bss", 1, Zeros(3), << >>)
        [] def.kind = "pointer" ->
             of("data", 4, Zeros(4), <<[at |-> 0, name |-> def.acts[1].name, addend |-> 1]>>)

HostProgram(j, pic, load) ==
  LET defs == FlattenSeq([u \in DOMAIN j.units |-> j.units[u].defs])
      of(kinds) == SelectSeq(defs, LAMBDA d : d.kind \in kinds)
      code == of({"begin", "function"})
      data == of({"data", "bss", "pointer"})
  IN  [fixed |-> j.objects[1].fixed, pic |-> pic, load |-> load, ram |-> Ram,
       functions |-> [k \in DOMAIN code |-> HostFunction(code[k])],
       globals |-> [k \in DOMAIN data |-> HostGlobal(data[k])]]

(* At the start of memory, further on, and wherever it is loaded.           *)
Host ==
  /\ ~ Linking /\ job.archives = << >> /\ job.units[1].name = "crt"
  /\ \E where \in {<<FALSE, 0>>, <<FALSE, 44>>, <<TRUE, 20>>} :
       H!Generate(HostProgram(job, where[1], where[2]))

BuildInit ==
  /\ LinkInit
  /\ program = << >> /\ asm = H!Nothing /\ choices = << >>
  /\ round = [next |-> 1, changed |-> FALSE] /\ stage = "idle"

BuildNext ==
  \/ StartRound /\ UNCHANGED hostVars
  \/ ConsiderMember /\ UNCHANGED hostVars
  \/ EndRound /\ UNCHANGED hostVars
  \/ CheckWidth /\ UNCHANGED hostVars
  \/ SolveStubs /\ UNCHANGED hostVars
  \/ LayOut /\ UNCHANGED hostVars
  \/ Relocate /\ UNCHANGED hostVars
  \/ Finish /\ UNCHANGED hostVars
  \/ Host /\ UNCHANGED vars
  \/ H!Emit /\ UNCHANGED vars
  \/ H!ConsiderControl /\ UNCHANGED vars
  \/ H!EndRelax /\ UNCHANGED vars
  \/ H!Rebuild /\ UNCHANGED vars
  \/ H!Finish /\ UNCHANGED vars

(* As for Linker: sequential code takes its next step while there is one.   *)
BuildFairness ==
  []<>(~ Linking /\ ~ H!Assembling) \/ []<><<TRUE>>_<<vars, hostVars>>

BuildSpec == BuildInit /\ [][BuildNext]_<<vars, hostVars>> /\ BuildFairness

-----------------------------------------------------------------------------
(* A machine with this code at an address.                                  *)
Loaded(code, load) ==
  [memory |-> [p \in 0 .. Ram - 1 |-> IF p - load + 1 \in DOMAIN code THEN code[p - load + 1] ELSE 0],
   persistent |-> << >>, regs |-> [r \in 0 .. 15 |-> 0],
   pc |-> load, steps |-> 0, inputs |-> << >>, keys |-> << >>, outputs |-> << >>, screen |-> << >>]

Steps == 160

RECURSIVE After(_, _, _, _)
After(m, fixed, halt, n) ==
  LET c == [symphony |-> fixed, callback |-> FALSE]
  IN  IF m.pc = halt THEN m
      ELSE IF n = 0 \/ M!Raises(m) THEN [m EXCEPT !.outputs = Append(@, "lost")]
      ELSE After(M!Stepped(m, c), fixed, halt, n - 1)

LinkedOutputs ==
  LET entry == FinalTable[<<"", job.entry>>]
  IN  After([Loaded(image, 0) EXCEPT !.pc = entry], FixedWidth,
            FinalTable[<<"crt", "l">>], Steps).outputs

HostOutputs ==
  After(Loaded(asm.code, program.load), program.fixed,
        program.load + asm.labels["l"], Steps).outputs

(* The program the linker of the GCC port makes, and the one the assembler  *)
(* of the compiler makes, in both encodings, calls, jumps and reads what    *)
(* its sources name, near, far or relative to where it is loaded, and comes *)
(* back from every call (symphony_ld.py:138-144, symphony_as.py:650-664,    *)
(* assembler.py:101-125).                                                   *)
RunsAsWritten ==
  /\ phase = "done" => LinkedOutputs = Expected(job)
  /\ stage = "done" => HostOutputs = Expected(job)

(* The rounds through the archives, those of the stub area and those that   *)
(* shrink branches come to an end (symphony_ld.py:76-78, 143-144,           *)
(* assembler.py:107-120).                                                   *)
LinkEnds == <>(~ Linking) /\ <>[](~ H!Assembling)

-----------------------------------------------------------------------------
Unit(name, defs) == [name |-> name, defs |-> defs]

Fun(name, acts) == Def(name, "function", TRUE, acts)

(* What main does.                                                          *)
Mains ==
  {<<Act("callreg", "f"), Act("call", "g")>>, <<Act("call", "g"), Act("jump", "f")>>,
   <<Act("read", "d"), Act("call", "f")>>, <<Act("follow", "p"), Act("callreg", "g")>>}

Startup == Def("start", "begin", TRUE, << >>)

(* f may call g, jump to it or read the data; g may read what lies in .bss, *)
(* and there may be another g, local to the unit of f.                      *)
Fs == {<< >>, <<Act("call", "g")>>, <<Act("jump", "g")>>, <<Act("read", "d")>>}
Gs == {<< >>, <<Act("read", "b")>>}

LocalG == Def("g", "function", FALSE, << >>)

Pieces(mainActs, fActs, gActs, localG) ==
  [crt |-> Unit("crt", <<Startup>>),
   main |-> Unit("m", <<Def("b", "bss", TRUE, << >>), Fun("main", mainActs)>>),
   f |-> Unit("f", (IF localG THEN <<LocalG>> ELSE << >>) \o <<Fun("f", fActs)>>),
   g |-> Unit("g", <<Def("", "literal", FALSE, << >>), Def("p", "pointer", TRUE, <<Act("follow", "d")>>), Fun("g", gActs),
                     Def("d", "data", TRUE, << >>)>>)]

(* The units in the command line or in one or two archives, in either order.*)
Arrangements(p) ==
  {<<<<p.crt, p.main, p.f, p.g>>, << >>>>, <<<<p.crt, p.g, p.main, p.f>>, << >>>>,
   <<<<p.crt, p.main>>, <<<<p.f, p.g>>>>>>, <<<<p.crt, p.main>>, <<<<p.g, p.f>>>>>>,
   <<<<p.crt, p.main>>, <<<<p.f>>, <<p.g>>>>>>, <<<<p.crt, p.main>>, <<<<p.g>>, <<p.f>>>>>>}

Linked ==
  UNION {{Job(a[1], a[2], fixed) : a \in Arrangements(Pieces(m, f, g, l))} :
           m \in Mains, f \in Fs, g \in Gs, l \in BOOLEAN, fixed \in BOOLEAN}

(* Without f and g, without the entry, with an object of the other width,   *)
(* with an old heap, and with a second g in the archive.                    *)
Odd(fixed) ==
  LET p == Pieces(<<Act("call", "f"), Act("jump", "f")>>, <<Act("call", "g")>>, << >>, FALSE)
      whole == Job(<<p.crt, p.main, p.f, p.g>>, << >>, fixed)
      old == Unit("old", <<Def(HeapAnchor, "bss", TRUE, << >>)>>)
  IN  {Job(<<p.crt, p.main>>, << >>, fixed), Job(<<p.main, p.f, p.g>>, << >>, fixed),
       [whole EXCEPT !.objects[4] = Object(p.g, ~ fixed)],
       Job(<<p.crt, p.main, p.f, p.g, old>>, << >>, fixed),
       Job(<<p.crt, p.main>>, <<<<p.f, p.g, [p.g EXCEPT !.name = "g2"]>>>>, fixed),
       Job(<<p.crt, p.main>>, <<<<p.g>>, <<p.f>>>>, fixed)}

(* Jumps with an addend, near and by way of a stub, of instructions of one  *)
(* length; the linker of a fixed width refuses those below zero.            *)
Aside ==
  LET mains == {<<Act("call", "g"), Act("skip", "f")>>, <<Act("call", "f"), Act("below", "g")>>}
      fs == {<< >>, <<Act("skip", "g")>>}
      pieces == {Pieces(m, f, g, FALSE) : m \in mains, f \in fs, g \in Gs}
  IN  UNION {{Job(<<p.crt, p.main>>, <<<<p.f, p.g>>>>, TRUE),
              Job(<<p.crt, p.main>>, <<<<p.g, p.f>>>>, TRUE)} : p \in pieces}

EdgeLiterals == {-1, 0, 65535}

AllJobs == Linked \cup Aside \cup UNION {Odd(fixed) : fixed \in BOOLEAN}
=============================================================================
