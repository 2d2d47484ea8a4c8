------------------------------ MODULE UxnWords ------------------------------
(***************************************************************************)
(* The words of the Uxn machine: its opcodes (src/include/buxn/vm/         *)
(* opcodes.h), bytes and shorts (src/include/buxn/vm/vm.h), what its       *)
(* instructions compute from them (src/src/vm/exec.h), and the memory      *)
(* operations of the system device (src/src/devices/system.c).             *)
(*                                                                         *)
(* A nibble has Nibble values, 16 in the code: a byte has Nibble^2, a      *)
(* short Nibble^4.  Everything that wraps around does so at these sizes.   *)
(***************************************************************************)
EXTENDS Integers, Sequences

CONSTANTS
  Nibble,
  And(_, _), Ora(_, _), Eor(_, _),  \* &, | and ^ of C
  Banks,          \* memory_size / BUXN_MEMORY_BANK_SIZE
  ResetVector,    \* BUXN_RESET_VECTOR, where the zero page ends
  ExpansionPort   \* the low byte of System/expansion, 0x03; wst and rst follow

Byte == Nibble * Nibble    \* also BUXN_STACK_SIZE and BUXN_DEVICE_MEM_SIZE
Short == Byte * Byte       \* also BUXN_MEMORY_BANK_SIZE
MemSize == Banks * Short

ASSUME NibbleAssumption == Nibble \in Nat /\ Nibble >= 2
ASSUME BanksAssumption == Banks \in Nat /\ Banks >= 2  \* every program has 16
ASSUME PortsAssumption == ExpansionPort \in 1 .. Byte - 3
ASSUME ResetVectorAssumption == ResetVector \in 1 .. Short - 1
ASSUME BitwiseAssumption ==
  \A a, b \in 0 .. Short - 1 : {And(a, b), Ora(a, b), Eor(a, b)} \subseteq 0 .. Short - 1

WstPort == ExpansionPort + 1
RstPort == ExpansionPort + 2
Stacks == {"ws", "rs"}

-----------------------------------------------------------------------------
(***************************************************************************)
(* Opcodes: the base, and whether it keeps its operands, works on the      *)
(* return stack, and works on shorts.                                      *)
(***************************************************************************)
Shuffles == {"INC", "POP", "NIP", "SWP", "ROT", "DUP", "OVR"}
Comparisons == {"EQU", "NEQ", "GTH", "LTH"}
Arithmetic == {"ADD", "SUB", "MUL", "DIV", "AND", "ORA", "EOR"}
Poly == Shuffles \union Comparisons \union Arithmetic \union
  {"JMP", "JCN", "JSR", "STH", "LDZ", "STZ", "LDR", "STR", "LDA", "STA", "DEI", "DEO", "SFT"}

Opcodes ==
  [base : Poly, k : BOOLEAN, r : BOOLEAN, s : BOOLEAN]
    \union [base : {"LIT"}, k : {TRUE}, r : BOOLEAN, s : BOOLEAN]
    \union [base : {"BRK", "JCI", "JMI", "JSI"}, k : {FALSE}, r : {FALSE}, s : {FALSE}]

\* The stack an instruction works on, the other one, and its operands' width.
On(op) == IF op.r THEN "rs" ELSE "ws"
Off(op) == IF op.r THEN "ws" ELSE "rs"
Width(op) == IF op.s THEN 2 ELSE 1

\* How many bytes the first n values of some widths take.
Total(widths) ==
  LET total[n \in 0 .. Len(widths)] == IF n = 0 THEN 0 ELSE total[n - 1] + widths[n]
  IN  total

-----------------------------------------------------------------------------
(***************************************************************************)
(* Values.                                                                 *)
(***************************************************************************)
Hi(v) == (v \div Byte) % Byte
Lo(v) == v % Byte

\* The value of a width at an address of something size big, which wraps.
Load(bytes, addr, width, size) ==
  IF width = 1 THEN bytes[addr % size]
  ELSE bytes[addr % size] * Byte + bytes[(addr + 1) % size]

Store(bytes, addr, width, size, v) ==
  IF width = 1 THEN [bytes EXCEPT ![addr % size] = Lo(v)]
  ELSE [bytes EXCEPT ![addr % size] = Hi(v), ![(addr + 1) % size] = Lo(v)]

\* BUXN_PC_REL: an offset is a signed byte.
Signed(v) == IF v >= Byte \div 2 THEN v - Byte ELSE v
Rel(from, v) == (from + Signed(v)) % Short

Compute(base, a, b) ==
  CASE base = "ADD" -> a + b
    [] base = "SUB" -> a - b
    [] base = "MUL" -> a * b
    [] base = "DIV" -> IF b # 0 THEN a \div b ELSE 0
    [] base = "AND" -> And(a, b)
    [] base = "ORA" -> Ora(a, b)
    [] base = "EOR" -> Eor(a, b)

Holds(base, a, b) ==
  CASE base = "EQU" -> a = b
    [] base = "NEQ" -> a # b
    [] base = "GTH" -> a > b
    [] base = "LTH" -> a < b

\* What n bits to the left multiply by, and n bits to the right divide by.
PowerOf2[n \in 0 .. Nibble - 1] == IF n = 0 THEN 1 ELSE 2 * PowerOf2[n - 1]

Shift(a, b) == ((a \div PowerOf2[b % Nibble]) * PowerOf2[b \div Nibble]) % Short

-----------------------------------------------------------------------------
(***************************************************************************)
(* System/expansion: the operation at addr and its arguments.  A place     *)
(* outside the memory is its last byte; what is left of the length is what *)
(* fits after the farther of the places.                                   *)
(***************************************************************************)
Short2(mem, addr) == Load(mem, addr, 2, Short)

Place(mem, addr) ==
  LET place == Short2(mem, addr) * Short + Short2(mem, addr + 2)
  IN  IF place < MemSize THEN place ELSE MemSize - 1

SlipFitting(place, length) ==   \* the last byte of the memory is left out
  IF place + length < MemSize THEN length ELSE MemSize - 1 - place

Fitting(place, length) == IF place + length <= MemSize THEN length ELSE MemSize - place

Farther(p, q) == IF p > q THEN p ELSE q

Fill(mem, start, length, v) ==
  [i \in DOMAIN mem |-> IF i \in start .. start + length - 1 THEN v ELSE mem[i]]

\* The copies are byte by byte, from the first or from the last: what the
\* memory is after each of them, at some offset of both places.
Copied(mem, src, dst, at) ==
  LET copied[n \in 0 .. Len(at)] ==
        IF n = 0 THEN mem
        ELSE [copied[n - 1] EXCEPT ![dst + at[n]] = copied[n - 1][src + at[n]]]
  IN  copied

CopyLeft(mem, src, dst, length) ==
  Copied(mem, src, dst, [n \in 1 .. length |-> n - 1])[length]

CopyRight(mem, src, dst, length) ==
  Copied(mem, src, dst, [n \in 1 .. length |-> length - n])[length]

Expanded(mem, addr) ==
  LET op == mem[addr]
      length == Short2(mem, addr + 1)
      first == Place(mem, addr + 3)
      second == Place(mem, addr + 7)
      fits == Fitting(Farther(first, second), length)
  IN  CASE op = 0 -> Fill(mem, first, Fitting(first, length), mem[addr + 7])
        [] op = 1 -> CopyLeft(mem, first, second, fits)
        [] op = 2 -> CopyRight(mem, first, second, fits)
        [] OTHER -> mem
=============================================================================
