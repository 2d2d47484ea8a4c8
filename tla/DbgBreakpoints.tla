--------------------------- MODULE DbgBreakpoints ---------------------------
(***************************************************************************)
(* The breakpoints of the debugger core (src/src/dbg/core.c): the table a  *)
(* debugger fills with BRKP_SET commands, with the two summaries the hook  *)
(* reads to do no more work than it must, and the hook's search for the    *)
(* breakpoint that the next instruction trips.                             *)
(*                                                                         *)
(* The hook runs before the instruction: it decodes which addresses the    *)
(* instruction will reach, which is stated a second time here as the       *)
(* virtual machine (src/src/vm/exec.h) computes them.                      *)
(***************************************************************************)
EXTENDS Integers

CONSTANTS
  NoId,        \* BUXN_DBG_BRKP_NONE; the ids are the numbers below it
  MemSize,     \* size of the address space of the main memory
  PageSize,    \* size of the zero page and of the device page
  Breakpoints, \* the breakpoints a debugger sets
  Situations   \* the instructions the hook is called before

Addresses == 0 .. MemSize - 1
Ports == 0 .. PageSize - 1
Ids == 0 .. NoId - 1
IdsBelow(n) == 0 .. n - 1

\* BUXN_DBG_BRKP_*: a breakpoint without DEV is about the main memory.
Flags == {"DEV", "PAUSE", "EXEC", "LOAD", "STORE"}
Breakpoint == [addr : Addresses, mask : SUBSET Flags]
NoBrkp == [addr |-> 0, mask |-> {}]

ZeroPageOps == {"LDZ", "STZ"}
DeviceOps == {"DEI", "DEO"}
RelativeOps == {"LDR", "STR"}
Opcodes == ZeroPageOps \union DeviceOps \union RelativeOps
             \union {"LDA", "STA", "BRK", "other"}

\* An instruction about to run: where it is, what it is, the address on its
\* stack (an offset for a relative one), whether it is in short mode, and the
\* ports whose vector is where it is.
Situation ==
  [pc : Addresses, op : Opcodes, operand : Int, short : BOOLEAN, ports : SUBSET Ports]

ASSUME NoIdAssumption == NoId \in Nat
ASSUME SizesAssumption ==
  MemSize \in Nat /\ PageSize \in Nat \ {0} /\ PageSize <= MemSize
ASSUME BreakpointsAssumption == Breakpoints \subseteq Breakpoint
ASSUME SituationsAssumption ==
  /\ Situations \subseteq Situation
  /\ \A s \in Situations :
       /\ s.op \in ZeroPageOps \union DeviceOps => s.operand \in Ports
       /\ s.op \in {"LDA", "STA"} => s.operand \in Addresses

VARIABLES
  brkps,     \* the table, by id
  nbrkps,    \* the ids from this one on are not in use
  brkpMask   \* the flags of all the breakpoints together

table == <<brkps, nbrkps, brkpMask>>
-----------------------------------------------------------------------------
(***************************************************************************)
(* Which addresses an instruction reaches.                                 *)
(***************************************************************************)
Class(s) ==
  CASE s.op = "DEI" -> "DEV_LOAD"
    [] s.op = "DEO" -> "DEV_STORE"
    [] s.op \in {"LDZ", "LDR", "LDA"} -> "MEM_LOAD"
    [] s.op \in {"STZ", "STR", "STA"} -> "MEM_STORE"
    [] OTHER -> "OTHER"

First(s) ==
  IF s.op \in RelativeOps THEN (s.pc + 1 + s.operand) % MemSize ELSE s.operand

Width(s) == IF s.short THEN 1 ELSE 0

\* As the hook decodes it.
Targets(s) == {First(s), (First(s) + Width(s)) % MemSize}

\* As the machine does it: a short at the end of the zero page, or of the
\* device page, goes on at its beginning.
Reached(s) ==
  LET size == IF s.op \in ZeroPageOps \union DeviceOps THEN PageSize ELSE MemSize
  IN  {First(s), (First(s) + Width(s)) % size}

WrapsInPage(s) ==
  s.op \in ZeroPageOps \union DeviceOps /\ s.short /\ s.operand = PageSize - 1

-----------------------------------------------------------------------------
(***************************************************************************)
(* The hook's search.                                                      *)
(***************************************************************************)

\* A breakpoint is tripped by an instruction of a class that reaches some
\* addresses; starts: it is the first the hook sees of its vector.
Trips(brkp, s, starts, class, addresses) ==
  IF "DEV" \in brkp.mask
  THEN \/ "EXEC" \in brkp.mask /\ starts /\ brkp.addr % PageSize \in s.ports
       \/ "LOAD" \in brkp.mask /\ class = "DEV_LOAD" /\ brkp.addr \in addresses
       \/ "STORE" \in brkp.mask /\ class = "DEV_STORE" /\ brkp.addr \in addresses
  ELSE \/ "EXEC" \in brkp.mask /\ brkp.addr = s.pc
       \/ "LOAD" \in brkp.mask /\ class = "MEM_LOAD" /\ brkp.addr \in addresses
       \/ "STORE" \in brkp.mask /\ class = "MEM_STORE" /\ brkp.addr \in addresses

\* Slip: a store is not a reason to decode.
SlipDecoded(s) ==
  IF brkpMask \intersect {"LOAD"} # {}
  THEN [class |-> Class(s), targets |-> Targets(s)]
  ELSE [class |-> "OTHER", targets |-> {0}]

\* The instruction is decoded only when a breakpoint is about a memory access.
Decoded(s) ==
  IF brkpMask \intersect {"LOAD", "STORE"} # {}
  THEN [class |-> Class(s), targets |-> Targets(s)]
  ELSE [class |-> "OTHER", targets |-> {0}]

LowestOf(ids) ==
  IF ids = {} THEN NoId ELSE CHOOSE i \in ids : \A j \in ids : i <= j

\* The loop stops at the first breakpoint tripped.
Match(s, starts) ==
  LET d == Decoded(s)
  IN  IF brkpMask = {}
      THEN NoId
      ELSE LowestOf({i \in IdsBelow(nbrkps) :
                       Trips(brkps[i], s, starts, d.class, d.targets)})

-----------------------------------------------------------------------------
(***************************************************************************)
(* The table.                                                              *)
(***************************************************************************)
InitTable ==
  /\ brkps = [i \in Ids |-> NoBrkp]
  /\ nbrkps = 0
  /\ brkpMask = {}

\* Slip (a plausible mistake in the operator of that name; the specification
\* does not use it): the index of the last id in use, not the number.
SlipTrim(brkpTable, n) ==
  LET used == {i \in IdsBelow(n) : brkpTable[i].mask # {}}
  IN  IF used = {} THEN 0 ELSE CHOOSE i \in used : \A j \in used : j <= i

\* The number of ids in use when those from n on are not.
Trim(brkpTable, n) ==
  LET used == {i \in IdsBelow(n) : brkpTable[i].mask # {}}
  IN  IF used = {} THEN 0 ELSE (CHOOSE i \in used : \A j \in used : j <= i) + 1

SlipMaskOf(brkpTable, n) == brkpMask \union UNION {brkpTable[i].mask : i \in IdsBelow(n)}

MaskOf(brkpTable, n) == UNION {brkpTable[i].mask : i \in IdsBelow(n)}

\* BUXN_DBG_CMD_BRKP_SET; with an empty mask it clears the breakpoint.
BrkpSet(id, brkp) ==
  IF id = NoId
  THEN UNCHANGED table
  ELSE /\ brkps' = [brkps EXCEPT ![id] = brkp]
       /\ nbrkps' = IF brkp.mask = {} THEN Trim(brkps', nbrkps)
                    ELSE IF id >= nbrkps THEN id + 1 ELSE nbrkps
       /\ brkpMask' = MaskOf(brkps', nbrkps')

NextTable ==
  \E id \in Ids \union {NoId}, brkp \in Breakpoints \union {NoBrkp} : BrkpSet(id, brkp)

SpecTable == InitTable /\ [][NextTable]_table

-----------------------------------------------------------------------------
(***************************************************************************)
(* Properties.                                                             *)
(***************************************************************************)

\* The two summaries are exact: no breakpoint is out of the reach of the
\* search, and the hook is taken out, or the decoding skipped, when nothing
\* is set any more.
TableOK ==
  /\ brkps \in [Ids -> Breakpoint]
  /\ nbrkps \in Ids \union {NoId}
  /\ \A i \in Ids : i >= nbrkps => brkps[i].mask = {}
  /\ nbrkps > 0 => brkps[nbrkps - 1].mask # {}
  /\ brkpMask = UNION {brkps[i].mask : i \in Ids}

\* The breakpoint reported is the first that the instruction really trips,
\* whatever the search and the decoding skip, unless a short wraps around in
\* its page.
ReportsFirstTripped ==
  \A s \in Situations, starts \in BOOLEAN :
     ~WrapsInPage(s) =>
       Match(s, starts) =
         LowestOf({i \in Ids : Trips(brkps[i], s, starts, Class(s), Reached(s))})

\* src/doc/dbg.md: a breakpoint may pause "when a certain memory address is
\* read from", or "written to".
NoAccessMissed ==
  \A s \in Situations, starts \in BOOLEAN :
     Match(s, starts) = NoId =>
       \A i \in Ids : ~Trips(brkps[i], s, starts, Class(s), Reached(s))

\* src/doc/dbg.md: an execute breakpoint is to "pause execution when a certain
\* memory address is executed"; here, when it has the flag to pause at all.
PausingBrkpPauses ==
  \A s \in Situations :
     (\E i \in Ids : {"EXEC", "PAUSE"} \subseteq brkps[i].mask
                       /\ "DEV" \notin brkps[i].mask
                       /\ brkps[i].addr = s.pc)
     => /\ Match(s, FALSE) # NoId
        /\ "PAUSE" \in brkps[Match(s, FALSE)].mask
=============================================================================
