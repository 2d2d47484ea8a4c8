-------------------------- MODULE MCDbgBreakpoints --------------------------
(***************************************************************************)
(* DbgBreakpoints for TLC: a memory of four bytes, the first two of which  *)
(* are the zero page, two ports, and every instruction there is on them.   *)
(***************************************************************************)
EXTENDS DbgBreakpoints

MCBreakpoints ==
  [addr : {0, 2}, mask : {{"EXEC"}, {"EXEC", "PAUSE"}, {"LOAD"}, {"STORE", "PAUSE"}}]
    \union [addr : {1}, mask : {{"DEV", "EXEC", "PAUSE"}, {"DEV", "LOAD", "STORE"}}]

MCSituations ==
  [pc : {0, 3}, op : ZeroPageOps \union DeviceOps, operand : {0, 1},
   short : BOOLEAN, ports : {{}, {1}}]
    \union
  [pc : {0, 3}, op : RelativeOps, operand : {-2, -1, 0, 1}, short : BOOLEAN, ports : {{}}]
    \union
  [pc : {0, 2}, op : {"LDA", "STA"}, operand : 0 .. 3, short : BOOLEAN, ports : {{}}]
    \union
  [pc : {0, 2}, op : {"BRK", "other"}, operand : {0}, short : {FALSE}, ports : SUBSET {0, 1}]
=============================================================================
