---------------------------- MODULE UxnReference ----------------------------
(***************************************************************************)
(* What an instruction of the Uxn machine promises, as the signatures over *)
(* the opcodes in src/src/vm/exec.h write it: operands before the dashes,  *)
(* results after them, the top of the stack last.  There are no pointers   *)
(* into stacks here: a stack is the sequence of its bytes from the top     *)
(* down, a ring, and a height.  Keep mode leaves the operands under the    *)
(* results, return mode swaps the stacks, and short mode widens operands.  *)
(***************************************************************************)
EXTENDS UxnWords

CONSTANTS Machines, Vectors, Inputs

VARIABLES
  running, pc, mem, dev, instr,
  list,    \* of each stack, its bytes from the top down
  height   \* of each stack, how many of them a program has put there

vars == <<running, pc, mem, dev, instr, list, height>>

\* What has n bytes more on top, or fewer: the ring turns.
Turn(l, n) == [i \in 1 .. Byte |-> l[((i - 1 - n) % Byte) + 1]]

Put(l, bytes) ==
  [i \in 1 .. Byte |->
     IF i <= Len(bytes) THEN bytes[Len(bytes) + 1 - i] ELSE l[i - Len(bytes)]]

ListOf(bytes, p) == [i \in 1 .. Byte |-> bytes[(p - i) % Byte]]

Init ==
  /\ running = FALSE
  /\ pc = 0
  /\ instr = [base |-> "BRK", k |-> FALSE, r |-> FALSE, s |-> FALSE]
  /\ \E m \in Machines :
        /\ mem = m.mem /\ dev = m.dev /\ height = m.ptr
        /\ list = [s \in Stacks |-> ListOf(m.data[s], m.ptr[s])]

-----------------------------------------------------------------------------
\* The widths of the operands, as the signatures have them.
Operands(op) ==
  LET w == Width(op)
  IN  CASE op.base \in {"INC", "POP", "DUP", "JMP", "JSR", "STH"} -> <<w>>
        [] op.base = "ROT" -> <<w, w, w>>
        [] op.base = "SFT" -> <<w, 1>>
        [] op.base = "JCN" -> <<1, w>>
        [] op.base \in {"LDZ", "LDR", "DEI", "JCI"} -> <<1>>
        [] op.base \in {"STZ", "STR", "DEO"} -> <<w, 1>>
        [] op.base = "LDA" -> <<2>>
        [] op.base = "STA" -> <<w, 2>>
        [] op.base \in {"BRK", "LIT", "JMI", "JSI"} -> <<>>
        [] OTHER -> <<w, w>>

\* The value of the i-th operand, before which the widths of the others lie.
Value(l, widths, i) ==
  LET below == Total(widths)[Len(widths)] - Total(widths)[i]
      top == Turn(l, -below)
  IN  IF widths[i] = 1 THEN top[1] ELSE top[2] * Byte + top[1]

\* The bytes of some values of a width, the high one of a short first.
ByteSeq(width, values) ==
  [i \in 1 .. width * Len(values) |->
     IF width = 1 THEN Lo(values[i])
     ELSE IF i % 2 = 1 THEN Hi(values[(i + 1) \div 2]) ELSE Lo(values[i \div 2])]

\* The results of an instruction on its own stack, a, b and c its operands.
Results(op, after, h, a, b, c) ==
  LET w == Width(op)
      Bytes(values) == ByteSeq(w, values)
      port(n) == LET at == (a + n) % Byte
                 IN  CASE at = WstPort -> h["ws"] [] at = RstPort -> h["rs"] [] OTHER -> dev[at]
  IN  CASE op.base = "INC" -> Bytes(<<a + 1>>)
        [] op.base = "NIP" -> Bytes(<<b>>)
        [] op.base = "SWP" -> Bytes(<<b, a>>)
        [] op.base = "ROT" -> Bytes(<<b, c, a>>)
        [] op.base = "DUP" -> Bytes(<<a, a>>)
        [] op.base = "OVR" -> Bytes(<<a, b, a>>)
        [] op.base \in Comparisons -> <<IF Holds(op.base, a, b) THEN 1 ELSE 0>>
        [] op.base \in Arithmetic -> Bytes(<<Compute(op.base, a, b)>>)
        [] op.base = "SFT" -> Bytes(<<Shift(a, b)>>)
        [] op.base = "LDZ" -> Bytes(<<Load(mem, a, w, Byte)>>)
        [] op.base = "LDR" -> Bytes(<<Load(mem, Rel(after, a), w, Short)>>)
        [] op.base = "LDA" -> Bytes(<<Load(mem, a, w, Short)>>)
        [] op.base = "LIT" -> Bytes(<<Load(mem, after, w, Short)>>)
        [] op.base = "DEI" -> IF w = 1 THEN <<port(0)>> ELSE <<port(0), port(1)>>
        [] OTHER -> <<>>

\* What goes to the other stack.
Stashed(op, after, a) ==
  CASE op.base = "STH" -> ByteSeq(Width(op), <<a>>)
    [] op.base = "JSR" -> ByteSeq(2, <<after>>)
    [] op.base = "JSI" -> ByteSeq(2, <<after + 2>>)
    [] OTHER -> <<>>

Goes(op, after, a, b) ==
  LET onward == (after + 2) % Short
      there == (onward + Load(mem, after, 2, Short)) % Short
      to(v) == IF op.s THEN v ELSE Rel(after, v)
  IN  CASE op.base \in {"JMP", "JSR"} -> to(a)
        [] op.base = "JCN" -> IF a # 0 THEN to(b) ELSE after
        [] op.base \in {"JMI", "JSI"} -> there
        [] op.base = "JCI" -> IF a # 0 THEN there ELSE onward
        [] op.base = "LIT" -> (after + Width(op)) % Short
        [] OTHER -> after

Writes(op, after, a, b) ==
  CASE op.base = "STZ" -> Store(mem, b, Width(op), Byte, a)
    [] op.base = "STR" -> Store(mem, Rel(after, b), Width(op), Short, a)
    [] op.base = "STA" -> Store(mem, b, Width(op), Short, a)
    [] OTHER -> mem

\* A write to the port wst or rst moves the top of that stack.
Moved(s, d, ports, h) ==
  LET port == IF s = "ws" THEN WstPort ELSE RstPort
  IN  IF port \in ports THEN d[port] ELSE h

Expand(m, d, ports) ==
  IF ExpansionPort \in ports THEN Expanded(m, Load(d, ExpansionPort - 1, 2, Byte)) ELSE m

Step(op) ==
  LET after == (pc + 1) % Short
      widths == Operands(op)
      n == Total(widths)[Len(widths)]
      v(i) == IF i <= Len(widths) THEN Value(list[On(op)], widths, i) ELSE 0
      gone == IF op.k THEN 0 ELSE n
      left == [list EXCEPT ![On(op)] = Turn(@, -gone)]
      h == [height EXCEPT ![On(op)] = (@ - gone) % Byte]
      results == Results(op, after, h, v(1), v(2), v(3))
      stashed == Stashed(op, after, v(1))
      ports == IF op.base = "DEO" THEN {(v(2) + i) % Byte : i \in 0 .. Width(op) - 1} ELSE {}
      d == IF op.base = "DEO" THEN Store(dev, v(2), Width(op), Byte, v(1)) ELSE dev
      at(s) == Moved(s, d, ports, h[s])
  IN  /\ running
      /\ instr' = op
      /\ running' = (op.base # "BRK")
      /\ pc' = Goes(op, after, v(1), v(2))
      /\ list' = [s \in Stacks |->
                    Put(Turn(left[s], at(s) - h[s]), IF s = On(op) THEN results ELSE stashed)]
      /\ height' = [s \in Stacks |->
                      (at(s) + Len(IF s = On(op) THEN results ELSE stashed)) % Byte]
      /\ dev' = d
      /\ mem' = Expand(Writes(op, after, v(1), v(2)), d, ports)

Start(vector) ==
  /\ ~running
  /\ running' = TRUE
  /\ pc' = vector
  /\ UNCHANGED <<mem, dev, instr, list, height>>

Reset(all) ==
  /\ ~running
  /\ list' = [s \in Stacks |-> [i \in 1 .. Byte |-> 0]]
  /\ height' = [s \in Stacks |-> 0]
  /\ dev' = IF all THEN [i \in 0 .. Byte - 1 |-> 0] ELSE dev
  /\ mem' = [i \in 0 .. MemSize - 1 |-> IF all \/ i >= ResetVector THEN 0 ELSE mem[i]]
  /\ UNCHANGED <<running, pc, instr>>

\* The debugger writes to devices; it never moves the stacks of a program.
DevWrite(port, v) ==
  /\ running
  /\ dev' = [dev EXCEPT ![port] = v]
  /\ mem' = Expand(mem, dev', {port})
  /\ UNCHANGED <<running, pc, instr, list, height>>

Next ==
  \/ \E op \in Opcodes : Step(op)
  \/ \E vector \in Vectors : Start(vector)
  \/ \E all \in BOOLEAN : Reset(all)
  \/ \E port \in 0 .. Byte - 1, v \in Inputs : DevWrite(port, v)

Spec == Init /\ [][Next]_vars
=============================================================================
