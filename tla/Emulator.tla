------------------------------ MODULE Emulator -------------------------------
(***************************************************************************)
(* The reference emulator: the loop of Machine.run, one instruction at a    *)
(* time, whatever an instruction does.  It is what the native emulator has  *)
(* to implement, which takes the four operators from Machine.               *)
(***************************************************************************)
CONSTANTS
  Raises(_),            \* the instruction at the PC raises an EmulatorError
  Stepped(_, _),        \* the machine behind it, under given settings
  StopRequested(_, _),  \* it asked the screen callback, which asks to stop
  AtHead(_, _)          \* where the head of the loop leaves the run

VARIABLES machine, settings, status

(* One iteration, up to the next test of the loop's head.                   *)
Iterate ==
  /\ status = "running"
  /\ IF Raises(machine)
       THEN status' = "raised" /\ UNCHANGED machine
       ELSE /\ machine' = Stepped(machine, settings)
            /\ status' = IF StopRequested(machine, settings) \/ machine'.pc = machine.pc
                           THEN "returned" ELSE AtHead(machine', settings)
  /\ UNCHANGED settings

Spec == status = AtHead(machine, settings) /\ [][Iterate]_<<machine, settings, status>>
=============================================================================
