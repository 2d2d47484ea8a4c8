----------------------------- MODULE MCDebugger -----------------------------
(***************************************************************************)
(* Debugger for TLC: one breakpoint id and three instructions, one of      *)
(* which trips a breakpoint that pauses and one a breakpoint that does     *)
(* not.                                                                    *)
(***************************************************************************)
EXTENDS Debugger

Instruction(pc, op) ==
  [pc |-> pc, op |-> op, operand |-> 0, short |-> FALSE, ports |-> {}]

MCSituations == {Instruction(1, "other"), Instruction(2, "STZ"), Instruction(2, "BRK")}

MCBreakpoints ==
  {[addr |-> 1, mask |-> {"EXEC", "PAUSE"}], [addr |-> 0, mask |-> {"STORE"}]}
=============================================================================
