------------------------------ MODULE Emitter -------------------------------
(***************************************************************************)
(* The code buffer of the self-hosted backend (dyn_emit_image and the       *)
(* helpers it writes with, selfhost/src/target/symphony/backend.c): bytes   *)
(* into an image of fixed capacity, in the variable-width Dynphony encoding *)
(* or in words for Symphony, with constants patched later.                  *)
(*                                                                          *)
(* A function's code is any sequence of pieces; which instructions a C      *)
(* construct becomes is left out.  The machine works on `todo`, the calls   *)
(* still to be made for the current piece:                                  *)
(*   byte     dyn_byte        raw      dyn_raw_byte                         *)
(*   align    a loop of dyn_raw_byte up to a multiple                       *)
(*   constant dyn_constant    at       dyn_constant_at                      *)
(*   restore  its last two assignments                                      *)
(* A byte of the output is marked with the piece it belongs to.  The fixup  *)
(* tables have room for one entry a node of the program and never fill up.  *)
(***************************************************************************)
EXTENDS Integers, Sequences, FiniteSets

CONSTANTS
  Capacities,  \* bytes of the image buffer
  Opcodes,     \* opcodes of the single instructions of the code
  Globals,     \* the globals there may be: [bytes, alignment, pointer], the last for
               \* one initialized with the address of a global
  MaxCode,     \* pieces of code, at most
  MaxGlobals,  \* globals, at most
  None         \* the target of what is not yet patched

ASSUME EmitterAssumption ==
  /\ Capacities \subseteq Nat /\ MaxCode \in Nat /\ MaxGlobals \in Nat \ {0}
  /\ \A g \in Globals : /\ g.bytes \in Nat /\ g.alignment \in {1, 2, 4, 8}
                        /\ g.pointer \in BOOLEAN /\ (g.pointer => g.bytes = 4)

VARIABLES
  capacity, symphony,
  position, pending, error, output,
  todo,
  pieces,  \* the pieces begun: [at, kind, own, align, link, target]
  fixups,  \* constants to patch: [at, use, target], target None until then
  stage       \* "code", "calls", "globals", "pointers", "addresses", "done"

emitVars == <<capacity, symphony, position, pending, error, output, todo, pieces, fixups, stage>>
fixed == <<capacity, symphony>>

Empty == <<"empty">>
Pad == <<"pad">>

(* dyn_instruction_size.                                                    *)
InstructionSize(opcode) ==
  CASE opcode \in {0, 8} -> 1
    [] opcode \in {1, 3} \cup 5 .. 7 -> 2
    [] \/ opcode \in {18, 20}
       \/ opcode \in 32 .. 119 /\ (opcode \div 16) % 2 = 1 -> 4
    [] OTHER -> 3

Byte(v, mark) == [op |-> "byte", value |-> v, mark |-> mark]
ConstantFor(use) == [op |-> "constant", use |-> use]
Raw(mark) == [op |-> "raw", mark |-> mark]
Align(n) == [op |-> "align", to |-> n]
At(position_, k, target) == [op |-> "at", at |-> position_, fixup |-> k, target |-> target]

(* A piece that begins here and has `own` instructions beside its constant. *)
Piece(kind, own) ==
  [kind |-> kind, at |-> position, own |-> own, align |-> 1, link |-> 0, target |-> None]

(* How many bytes the helpers emit, opcode included: console, keyboard and  *)
(* counter instructions, immediates (ALU operations and 0x58), the rest.    *)
EmittedBytes(opcode) ==
  CASE opcode \in {1, 3, 5, 6, 7} -> 2
    [] opcode \in 48 .. 63 \cup {88} -> 4
    [] OTHER -> 3

(* The backend has no instruction the table of sizes has another size for.  *)
ASSUME OpcodesAssumption ==
  \A opcode \in Opcodes : opcode \in Nat /\ EmittedBytes(opcode) = InstructionSize(opcode)

(* The bytes of one instruction; its operands are not looked at.            *)
Instruction(opcode, mark) ==
  [j \in 1 .. EmittedBytes(opcode) |-> Byte(IF j = 1 THEN opcode ELSE 0, mark)]

(* mov, lsl by 16 and or with 16 bits each.                                 *)
MoveImmediate == 49
ShiftImmediate == 55
ConstantCode(k, target) ==
  LET part(opcode, j) ==
        [b \in 1 .. 4 |-> Byte(IF b = 1 THEN opcode ELSE 0, <<"constant", k, j, target>>)]
  IN  part(MoveImmediate, 1) \o part(ShiftImmediate, 2) \o part(MoveImmediate, 3)

EmitInit ==
  /\ capacity \in Capacities
  /\ symphony \in BOOLEAN
  /\ position = 0
  /\ pending = 0
  /\ error = FALSE
  /\ output = [i \in 0 .. capacity - 1 |-> Empty]
  /\ todo = << >>
  /\ pieces = << >>
  /\ fixups = << >>
  /\ stage = "code"

-----------------------------------------------------------------------------
(* The output with n bytes from `at` on; nothing in here keeps them inside. *)
Put(at, n, mark) ==
  [i \in DOMAIN output \cup at .. at + n - 1 |-> IF i \in at .. at + n - 1 THEN mark ELSE output[i]]

(* dyn_raw_byte.                                                            *)
Write(mark) ==
  IF position >= capacity
    THEN error' = TRUE /\ UNCHANGED <<position, output>>
    ELSE /\ output' = Put(position, 1, mark)
         /\ position' = position + 1
         /\ UNCHANGED error

NextIs(op) == todo # << >> /\ Head(todo).op = op

PutByte ==
  /\ NextIs("byte")
  /\ Write(Head(todo).mark)
  /\ pending' = IF ~ symphony THEN pending
                  ELSE (IF pending = 0 THEN InstructionSize(Head(todo).value) ELSE pending) - 1
  /\ todo' = (IF symphony /\ pending' = 0 THEN <<Align(4)>> ELSE << >>) \o Tail(todo)
  /\ UNCHANGED <<fixed, pieces, fixups, stage>>

PutRaw ==
  /\ NextIs("raw")
  /\ Write(Head(todo).mark)
  /\ todo' = Tail(todo)
  /\ UNCHANGED <<fixed, pending, pieces, fixups, stage>>

(* One turn of an alignment loop.                                           *)
PutAlign ==
  /\ NextIs("align")
  /\ IF position % Head(todo).to = 0
       THEN todo' = Tail(todo) /\ UNCHANGED <<position, error, output>>
       ELSE Write(Pad) /\ UNCHANGED todo
  /\ UNCHANGED <<fixed, pending, pieces, fixups, stage>>

(* dyn_constant: the position moves past the constant before it is written. *)
Constant ==
  /\ NextIs("constant")
  /\ fixups' = Append(fixups, [at |-> position, use |-> Head(todo).use, target |-> None])
  /\ IF position + 12 > capacity
       THEN error' = TRUE /\ todo' = Tail(todo) /\ UNCHANGED position
       ELSE /\ position' = position + 12
            /\ todo' = <<At(position, Len(fixups) + 1, None)>> \o Tail(todo)
            /\ UNCHANGED error
  /\ UNCHANGED <<fixed, pending, output, pieces, stage>>

(* dyn_constant_at: back to `at`, twelve bytes, and return.                 *)
ConstantAt ==
  /\ NextIs("at")
  /\ position' = Head(todo).at
  /\ pending' = 0
  /\ todo' = ConstantCode(Head(todo).fixup, Head(todo).target)
               \o <<[op |-> "restore", position |-> position, pending |-> pending]>>
               \o Tail(todo)
  /\ UNCHANGED <<fixed, error, output, pieces, fixups, stage>>

(* Mutant: writing goes on behind the patched constant.                     *)
RestoreForgotten ==
  /\ NextIs("restore")
  /\ pending' = Head(todo).pending
  /\ todo' = Tail(todo)
  /\ UNCHANGED <<fixed, position, error, output, pieces, fixups, stage>>

Restore ==
  /\ NextIs("restore")
  /\ position' = Head(todo).position
  /\ pending' = Head(todo).pending
  /\ todo' = Tail(todo)
  /\ UNCHANGED <<fixed, error, output, pieces, fixups, stage>>

-----------------------------------------------------------------------------
Idle == todo = << >>

CodePieces == {k \in DOMAIN pieces : pieces[k].kind \notin {"global", "pointer"}}

Begin(piece, calls) ==
  /\ pieces' = Append(pieces, piece)
  /\ todo' = calls

Mark == <<"piece", Len(pieces) + 1>>

JumpOpcode == 72
CounterOpcode == 7
AddImmediate == 52
MoveOpcode == 33

(* dyn_call: what is added to the program counter its second instruction    *)
(* reads, to make the address to return to.                                 *)
LinkDistance == IF symphony THEN 12 ELSE 9

EmitInstruction ==
  \E opcode \in Opcodes :
    Begin(Piece("instruction", <<opcode>>), Instruction(opcode, Mark))

(* dyn_branch.                                                              *)
EmitBranch ==
  Begin(Piece("branch", <<JumpOpcode>>),
        <<ConstantFor("branch")>> \o Instruction(JumpOpcode, Mark))

(* dyn_call.                                                                *)
EmitCall ==
  Begin([Piece("call", <<CounterOpcode, AddImmediate, JumpOpcode>>)
           EXCEPT !.link = position + 12 + LinkDistance],
        <<ConstantFor("call")>> \o Instruction(CounterOpcode, Mark)
          \o Instruction(AddImmediate, Mark) \o Instruction(JumpOpcode, Mark))

(* dyn_global_address, to register 7 or with a move to another one.         *)
EmitAddress ==
  \/ Begin(Piece("address", << >>), <<ConstantFor("address")>>)
  \/ Begin(Piece("address", <<MoveOpcode>>),
           <<ConstantFor("address")>> \o Instruction(MoveOpcode, Mark))

EmitCode ==
  /\ stage = "code" /\ Idle
  /\ Len(pieces) < MaxCode
  /\ EmitInstruction \/ EmitBranch \/ EmitCall \/ EmitAddress
  /\ UNCHANGED <<fixed, position, pending, error, output, fixups, stage>>

Open(use) == {k \in DOMAIN fixups : fixups[k].use = use /\ fixups[k].target = None}

Patch(k, target) ==
  /\ fixups' = [fixups EXCEPT ![k].target = target]
  /\ todo' = <<At(fixups[k].at, k, target)>>

(* dyn_patch, to the label here or to one set before.                       *)
PatchBranch ==
  /\ stage = "code" /\ Idle
  /\ \E k \in Open("branch"), target \in {position} \cup {pieces[i].at : i \in CodePieces} :
       Patch(k, target)
  /\ UNCHANGED <<fixed, position, pending, error, output, pieces, stage>>

(* After the code come the calls, in the order they were emitted in, then   *)
(* the globals, the pointers among them, and the constants that are         *)
(* addresses of globals.                                                    *)
EndCode ==
  /\ stage = "code" /\ Idle
  /\ pieces # << >> /\ Open("branch") = {}
  /\ stage' = "calls"
  /\ UNCHANGED <<fixed, position, pending, error, output, todo, pieces, fixups>>

First(K) == CHOOSE k \in K : \A l \in K : k <= l

PatchCall ==
  /\ stage = "calls" /\ Idle
  /\ Open("call") # {}
  /\ \E i \in CodePieces : Patch(First(Open("call")), pieces[i].at)
  /\ UNCHANGED <<fixed, position, pending, error, output, pieces, stage>>

EndCalls ==
  /\ stage = "calls" /\ Idle
  /\ Open("call") = {}
  /\ stage' = "globals"
  /\ UNCHANGED <<fixed, position, pending, error, output, todo, pieces, fixups>>

(* Mutant: a structure is aligned as it says.                               *)
AlignmentAsked(g) == g.alignment

Alignment(g) == IF g.alignment > 4 THEN 4 ELSE g.alignment

(* The offset of a global is taken after the alignment loop.                *)
EmitGlobal ==
  /\ stage = "globals" /\ Idle
  /\ Len(pieces) - Cardinality(CodePieces) < MaxGlobals
  /\ \E g \in Globals :
       Begin([Piece(IF g.pointer THEN "pointer" ELSE "global", g.bytes)
                EXCEPT !.align = Alignment(g)],
             <<Align(Alignment(g)), [op |-> "begin"]>> \o [j \in 1 .. g.bytes |-> Raw(Mark)])
  /\ UNCHANGED <<fixed, position, pending, error, output, fixups, stage>>

GlobalBegins ==
  /\ NextIs("begin")
  /\ pieces' = [pieces EXCEPT ![Len(pieces)].at = position]
  /\ todo' = Tail(todo)
  /\ UNCHANGED <<fixed, position, pending, error, output, fixups, stage>>

EndGlobals ==
  /\ stage = "globals" /\ Idle
  /\ Open("address") = {} \/ CodePieces # DOMAIN pieces
  /\ stage' = "pointers"
  /\ UNCHANGED <<fixed, position, pending, error, output, todo, pieces, fixups>>

OpenPointers == {k \in DOMAIN pieces : pieces[k].kind = "pointer" /\ pieces[k].target = None}

(* dyn_write_u32_at, for the next global initialized with an address.       *)
WritePointer ==
  /\ stage = "pointers" /\ Idle
  /\ OpenPointers # {}
  /\ LET k == First(OpenPointers)
         at == pieces[k].at
     IN  \E i \in DOMAIN pieces \ CodePieces :
           /\ pieces' = [pieces EXCEPT ![k].target = pieces[i].at]
           /\ IF at + 4 > capacity
                THEN error' = TRUE /\ UNCHANGED output
                ELSE output' = Put(at, 4, <<"pointer", k, pieces[i].at>>) /\ UNCHANGED error
  /\ UNCHANGED <<fixed, position, pending, todo, fixups, stage>>

EndPointers ==
  /\ stage = "pointers" /\ Idle
  /\ OpenPointers = {}
  /\ stage' = "addresses"
  /\ UNCHANGED <<fixed, position, pending, error, output, todo, pieces, fixups>>

PatchAddress ==
  /\ stage = "addresses" /\ Idle
  /\ Open("address") # {}
  /\ \E i \in DOMAIN pieces \ CodePieces : Patch(First(Open("address")), pieces[i].at)
  /\ UNCHANGED <<fixed, position, pending, error, output, pieces, stage>>

Finish ==
  /\ stage = "addresses" /\ Idle
  /\ Open("address") = {}
  /\ stage' = "done"
  /\ UNCHANGED <<fixed, position, pending, error, output, todo, pieces, fixups>>

Step ==
  \/ PutByte \/ PutRaw \/ PutAlign \/ Constant \/ ConstantAt \/ Restore \/ GlobalBegins

EmitNext ==
  \/ Step
  \/ EmitCode \/ PatchBranch \/ EndCode
  \/ PatchCall \/ EndCalls \/ EmitGlobal \/ EndGlobals
  \/ WritePointer \/ EndPointers \/ PatchAddress \/ Finish

EmitSpec == EmitInit /\ [][EmitNext]_emitVars

(* The emitter is a function that runs until it returns; only what it is    *)
(* given to emit is open.                                                   *)
EmitFairSpec == EmitSpec /\ WF_emitVars(Step)

-----------------------------------------------------------------------------
(* Where the pieces would be if there were room, counting sizes only: an    *)
(* instruction of Symphony's takes four bytes, whatever is in them.         *)
OwnBytes(own) ==
  LET bytes[n \in 0 .. Len(own)] == IF n = 0 THEN 0 ELSE bytes[n-1] + InstructionSize(own[n])
  IN  bytes[Len(own)]

Lead(piece) == IF piece.kind = "instruction" THEN 0 ELSE 12

Size(piece, wide) ==
  IF piece.kind \in {"global", "pointer"} THEN piece.own
  ELSE Lead(piece) + IF wide THEN 4 * Len(piece.own) ELSE OwnBytes(piece.own)

RoundedUp(n, to) == ((n + to - 1) \div to) * to

EndsOf(list, wide) ==
  LET ends[k \in 0 .. Len(list)] ==
        IF k = 0 THEN 0 ELSE RoundedUp(ends[k-1], list[k].align) + Size(list[k], wide)
  IN  ends

Ends == EndsOf(pieces, symphony)
StartOf(k) == RoundedUp(Ends[k-1], pieces[k].align)

OwnCells(k) == {i \in DOMAIN output : output[i] = <<"piece", k>>}

InPlace(k) ==
  /\ pieces[k].at = StartOf(k)
  /\ OwnCells(k) \subseteq StartOf(k) .. Ends[k] - 1
  /\ Cardinality(OwnCells(k)) =
       CASE pieces[k].kind = "global" -> pieces[k].own
         [] pieces[k].kind = "pointer" -> 0
         [] OTHER -> OwnBytes(pieces[k].own)

PointerIs(k, target) == \A b \in 0 .. 3 : output[StartOf(k) + b] = <<"pointer", k, target>>

ConstantIs(k, target) ==
  \A b \in 0 .. 11 : output[fixups[k].at + b] = <<"constant", k, b \div 4 + 1, target>>

(* In an image that was emitted every piece stands whole where the sizes    *)
(* put it, nothing that was patched spilled over its neighbours, and every  *)
(* constant was patched with its own target (dyn_constant_at, which lends   *)
(* position and pending_bytes to the patch).                                *)
LayoutKept ==
  stage = "done" /\ ~ error =>
    /\ position = Ends[Len(pieces)]
    /\ \A k \in DOMAIN pieces : InPlace(k)
    /\ \A k \in DOMAIN pieces : pieces[k].kind = "pointer" => PointerIs(k, pieces[k].target)
    /\ \A k \in DOMAIN fixups : ConstantIs(k, fixups[k].target)

(* Every piece and every patch comes to an end, also when the buffer is     *)
(* full (dyn_byte's and dyn_emit_image's alignment loops).                  *)
Returns == todo # << >> ~> todo = << >>
=============================================================================
