------------------------------ MODULE MCEmitter -----------------------------
(***************************************************************************)
(* A byte, a structure of eight and a pointer, so that alignment pads.       *)
(***************************************************************************)
EXTENDS Emitter

SomeGlobals == {[bytes |-> 1, alignment |-> 1, pointer |-> FALSE],
                [bytes |-> 8, alignment |-> 8, pointer |-> FALSE],
                [bytes |-> 4, alignment |-> 4, pointer |-> TRUE]}
=============================================================================
