------------------------------- MODULE UxnCpu -------------------------------
(***************************************************************************)
(* The Uxn machine: the interpreter (src/src/vm/exec.h), what its hosts do *)
(* with it between vectors (src/src/vm/vm.c), and the system device        *)
(* (src/src/devices/system.c), the one device whose ports reach back into  *)
(* the machine.                                                            *)
(*                                                                         *)
(* While a vector runs, the interpreter has stack pointers of its own;     *)
(* the machine's are what the devices and the debugger see, and are only   *)
(* brought in line around an access to a device, before the hook, and at   *)
(* the end of the vector.                                                  *)
(*                                                                         *)
(* Which opcode comes next is not read from the memory: any may.  An       *)
(* operator named Slip... is the next one as a plausible mistake would     *)
(* leave it; the specification does not use it.                            *)
(***************************************************************************)
EXTENDS UxnWords

CONSTANTS
  Machines,  \* bound of the model: how the machine may be at first
  Vectors,   \* bound of the model: the vectors
  Inputs     \* bound of the model: bytes the debugger writes to a device

ASSUME MachinesAssumption ==
  \A m \in Machines :
     /\ m.data \in [Stacks -> [0 .. Byte - 1 -> 0 .. Byte - 1]]
     /\ m.ptr \in [Stacks -> 0 .. Byte - 1]
     /\ m.mem \in [0 .. MemSize - 1 -> 0 .. Byte - 1]
     /\ m.dev \in [0 .. Byte - 1 -> 0 .. Byte - 1]
     /\ m.fuel \in Nat
ASSUME VectorsAssumption == Vectors \subseteq 0 .. Short - 1
ASSUME InputsAssumption == Inputs \subseteq 0 .. Byte - 1

VARIABLES
  running,  \* a vector runs
  pc,
  data,     \* ws and rs: the bytes of the stacks
  ptr,      \* wsp and rsp, the interpreter's
  saved,    \* wsp and rsp, the machine's
  mem, dev,
  instr,    \* history: the last instruction
  fuel      \* bound of the model: how many more steps

vars == <<running, pc, data, ptr, saved, mem, dev, instr, fuel>>

Brk == [base |-> "BRK", k |-> FALSE, r |-> FALSE, s |-> FALSE]

Init ==
  /\ running = FALSE
  /\ pc = 0
  /\ \E m \in Machines :
        /\ data = m.data /\ saved = m.ptr /\ mem = m.mem /\ dev = m.dev /\ fuel = m.fuel
  /\ ptr = [s \in Stacks |-> 0]
  /\ instr = Brk

Burn == fuel > 0 /\ fuel' = fuel - 1

-----------------------------------------------------------------------------
(***************************************************************************)
(* Stacks.  A stack is a ring: pointers wrap, nothing over- or underflows. *)
(***************************************************************************)

\* BUXN_POLY_POP, as often as there are widths, the first on top, from the
\* pointer or, in keep mode, from a copy of it.
Popped(s, widths) ==
  [n \in 1 .. Len(widths) |->
     Load(data[s], ptr[s] - Total(widths)[n], widths[n], Byte)]

SlipAfter(op, widths) ==   \* a copy of the pointer that does not wrap
  IF op.k THEN ptr[On(op)] ELSE ptr[On(op)] - Total(widths)[Len(widths)]

After(op, widths) ==
  IF op.k THEN ptr[On(op)] ELSE (ptr[On(op)] - Total(widths)[Len(widths)]) % Byte

\* BUXN_POLY_PUSH of some values, the last of which comes to the top.
PushedFirst(bytes, p, width, values) ==   \* what the stack is after the first n
  LET stack[n \in 0 .. Len(values)] ==
        IF n = 0 THEN bytes
        ELSE Store(stack[n - 1], p + (n - 1) * width, width, Byte, values[n])
  IN  stack

Pushed(bytes, p, width, values) == PushedFirst(bytes, p, width, values)[Len(values)]

\* An instruction that takes operands from its stack and puts results there.
Replace(op, taken, width, values) ==
  LET p == After(op, taken)
  IN  /\ data' = [data EXCEPT ![On(op)] = Pushed(@, p, width, values)]
      /\ ptr' = [ptr EXCEPT ![On(op)] = (p + Len(values) * width) % Byte]

-----------------------------------------------------------------------------
(***************************************************************************)
(* Instructions.  Where one says next, it is the place after its opcode.   *)
(***************************************************************************)
next == (pc + 1) % Short

Fetch(op) ==
  /\ running
  /\ Burn
  /\ instr' = op

Same(op, n) == [i \in 1 .. n |-> Width(op)]

Shuffle(op) ==
  LET arity == IF op.base \in {"INC", "POP", "DUP"} THEN 1 ELSE IF op.base = "ROT" THEN 3 ELSE 2
      x == Popped(On(op), Same(op, arity))
      results == CASE op.base = "INC" -> <<x[1] + 1>>
                   [] op.base = "POP" -> <<>>
                   [] op.base = "NIP" -> <<x[1]>>
                   [] op.base = "SWP" -> <<x[1], x[2]>>
                   [] op.base = "ROT" -> <<x[2], x[1], x[3]>>
                   [] op.base = "DUP" -> <<x[1], x[1]>>
                   [] op.base = "OVR" -> <<x[2], x[1], x[2]>>
  IN  /\ op.base \in Shuffles
      /\ Replace(op, Same(op, arity), Width(op), results)
      /\ pc' = next
      /\ UNCHANGED <<running, saved, mem, dev>>

Calculate(op) ==
  LET x == Popped(On(op), Same(op, 2))
  IN  /\ op.base \in Comparisons \union Arithmetic
      /\ IF op.base \in Comparisons
         THEN Replace(op, Same(op, 2), 1, <<IF Holds(op.base, x[2], x[1]) THEN 1 ELSE 0>>)
         ELSE Replace(op, Same(op, 2), Width(op), <<Compute(op.base, x[2], x[1])>>)
      /\ pc' = next
      /\ UNCHANGED <<running, saved, mem, dev>>

ShiftBits(op) ==
  LET x == Popped(On(op), <<1, Width(op)>>)
  IN  /\ op.base = "SFT"
      /\ Replace(op, <<1, Width(op)>>, Width(op), <<Shift(x[2], x[1])>>)
      /\ pc' = next
      /\ UNCHANGED <<running, saved, mem, dev>>

Target(op, v) == IF op.s THEN v ELSE Rel(next, v)

Jump(op) ==
  LET widths == IF op.base = "JCN" THEN <<Width(op), 1>> ELSE <<Width(op)>>
      x == Popped(On(op), widths)
  IN  /\ op.base \in {"JMP", "JCN"}
      /\ Replace(op, widths, 1, <<>>)
      /\ pc' = IF op.base = "JCN" /\ x[2] = 0 THEN next ELSE Target(op, x[1])
      /\ UNCHANGED <<running, saved, mem, dev>>

\* JSR and STH: what one stack loses the other gets, or the place to return to.
Stash(op) ==
  LET x == Popped(On(op), <<Width(op)>>)
      width == IF op.base = "JSR" THEN 2 ELSE Width(op)
      v == IF op.base = "JSR" THEN next ELSE x[1]
      p == ptr[Off(op)]
  IN  /\ op.base \in {"JSR", "STH"}
      /\ data' = [data EXCEPT ![Off(op)] = Pushed(@, p, width, <<v>>)]
      /\ ptr' = [ptr EXCEPT ![On(op)] = After(op, <<Width(op)>>),
                            ![Off(op)] = (p + width) % Byte]
      /\ pc' = IF op.base = "JSR" THEN Target(op, x[1]) ELSE next
      /\ UNCHANGED <<running, saved, mem, dev>>

AddrWidth(op) == IF op.base \in {"LDA", "STA"} THEN 2 ELSE 1

\* Where a memory access goes, and where addresses wrap around.
Reached(op, a) == IF op.base \in {"LDR", "STR"} THEN Rel(next, a) ELSE a

Wraps(op) == IF op.base \in {"LDZ", "STZ"} THEN Byte ELSE Short

LoadMemory(op) ==
  LET a == Popped(On(op), <<AddrWidth(op)>>)[1]
  IN  /\ op.base \in {"LDZ", "LDR", "LDA"}
      /\ Replace(op, <<AddrWidth(op)>>, Width(op),
                 <<Load(mem, Reached(op, a), Width(op), Wraps(op))>>)
      /\ pc' = next
      /\ UNCHANGED <<running, saved, mem, dev>>

StoreMemory(op) ==
  LET x == Popped(On(op), <<AddrWidth(op), Width(op)>>)
  IN  /\ op.base \in {"STZ", "STR", "STA"}
      /\ Replace(op, <<AddrWidth(op), Width(op)>>, 1, <<>>)
      /\ mem' = Store(mem, Reached(op, x[1]), Width(op), Wraps(op), x[2])
      /\ pc' = next
      /\ UNCHANGED <<running, saved, dev>>

Immediate(op) ==
  LET where == Load(mem, next, 2, Short)
      onward == (next + 2) % Short
      cond == Popped("ws", <<1>>)[1]
  IN  /\ \/ /\ op.base = "LIT"
            /\ Replace(op, <<>>, Width(op), <<Load(mem, next, Width(op), Short)>>)
            /\ pc' = (next + Width(op)) % Short
         \/ /\ op.base = "JMI"
            /\ pc' = (onward + where) % Short
            /\ UNCHANGED <<data, ptr>>
         \/ /\ op.base = "JCI"
            /\ Replace(op, <<1>>, 1, <<>>)
            /\ pc' = IF cond # 0 THEN (onward + where) % Short ELSE onward
         \/ /\ op.base = "JSI"
            /\ data' = [data EXCEPT !["rs"] = Pushed(@, ptr["rs"], 2, <<onward>>)]
            /\ ptr' = [ptr EXCEPT !["rs"] = (@ + 2) % Byte]
            /\ pc' = (onward + where) % Short
      /\ UNCHANGED <<running, saved, mem, dev>>

-----------------------------------------------------------------------------
(***************************************************************************)
(* Devices: the handlers of the system device, on the machine's pointers.  *)
(***************************************************************************)
Dei(p, port) ==
  CASE port = WstPort -> p["ws"]
    [] port = RstPort -> p["rs"]
    [] OTHER -> dev[port]

\* What a write to a port leaves of the pointers and of the memory.
DeoPtr(p, port, d) ==
  CASE port = WstPort -> [p EXCEPT !["ws"] = d[port]]
    [] port = RstPort -> [p EXCEPT !["rs"] = d[port]]
    [] OTHER -> p

DeoMem(m, port, d) == IF port = ExpansionPort THEN Expanded(m, Load(d, port - 1, 2, Byte)) ELSE m

SlipInput(op) ==   \* the machine's pointers are not brought in line
  LET a == Popped(On(op), <<1>>)[1]
      hi == Dei(saved, a)
      v == IF op.s THEN hi * Byte + Dei(saved, (a + 1) % Byte) ELSE hi
  IN  /\ op.base = "DEI"
      /\ saved' = [ptr EXCEPT ![On(op)] = After(op, <<1>>)]
      /\ Replace(op, <<1>>, Width(op), <<v>>)
      /\ pc' = next
      /\ UNCHANGED <<running, mem, dev>>

Input(op) ==
  LET a == Popped(On(op), <<1>>)[1]
      inLine == [ptr EXCEPT ![On(op)] = After(op, <<1>>)]
      hi == Dei(inLine, a)
      v == IF op.s THEN hi * Byte + Dei(inLine, (a + 1) % Byte) ELSE hi
  IN  /\ op.base = "DEI"
      /\ saved' = inLine
      /\ Replace(op, <<1>>, Width(op), <<v>>)
      /\ pc' = next
      /\ UNCHANGED <<running, mem, dev>>

Output(op) ==
  LET x == Popped(On(op), <<1, Width(op)>>)
      port == x[1]
      after == (port + 1) % Byte
      d == Store(dev, port, Width(op), Byte, x[2])
      inLine == [ptr EXCEPT ![On(op)] = After(op, <<1, Width(op)>>)]
      p == DeoPtr(inLine, port, d)
      m == DeoMem(mem, port, d)
  IN  /\ op.base = "DEO"
      /\ dev' = d
      /\ saved' = IF op.s THEN DeoPtr(p, after, d) ELSE p
      /\ mem' = IF op.s THEN DeoMem(m, after, d) ELSE m
      /\ ptr' = saved'
      /\ pc' = next
      /\ UNCHANGED <<running, data>>

Break(op) ==
  /\ op.base = "BRK"
  /\ running' = FALSE
  /\ saved' = ptr
  /\ pc' = next
  /\ UNCHANGED <<data, ptr, mem, dev>>

Step ==
  \E op \in Opcodes :
     /\ Fetch(op)
     /\ \/ Shuffle(op) \/ Calculate(op) \/ ShiftBits(op) \/ Jump(op) \/ Stash(op)
        \/ LoadMemory(op) \/ StoreMemory(op) \/ Immediate(op)
        \/ Input(op) \/ Output(op) \/ Break(op)

-----------------------------------------------------------------------------
(***************************************************************************)
(* The hosts, and the debugger.                                            *)
(***************************************************************************)
Start(vector) ==
  /\ ~running
  /\ Burn
  /\ vector # 0
  /\ running' = TRUE
  /\ pc' = vector
  /\ ptr' = saved
  /\ UNCHANGED <<data, saved, mem, dev, instr>>

\* buxn_vm_reset(), with all flags or for the next ROM of a REPL.
Reset(all) ==
  /\ ~running
  /\ Burn
  /\ saved' = [s \in Stacks |-> 0]
  /\ data' = [s \in Stacks |-> [i \in 0 .. Byte - 1 |-> 0]]
  /\ dev' = IF all THEN [i \in 0 .. Byte - 1 |-> 0] ELSE dev
  /\ mem' = [i \in 0 .. MemSize - 1 |-> IF all \/ i >= ResetVector THEN 0 ELSE mem[i]]
  /\ UNCHANGED <<running, pc, ptr, instr>>

\* DEV_WRITE of a debugger while the hook holds the machine.
DevWrite(port, v) ==
  /\ running
  /\ Burn
  /\ dev' = [dev EXCEPT ![port] = v]
  /\ saved' = DeoPtr(ptr, port, dev')
  /\ mem' = DeoMem(mem, port, dev')
  /\ UNCHANGED <<running, pc, data, ptr, instr>>

Next ==
  \/ Step
  \/ \E vector \in Vectors : Start(vector)
  \/ \E all \in BOOLEAN : Reset(all)
  \/ \E port \in 0 .. Byte - 1, v \in Inputs : DevWrite(port, v)

Spec == Init /\ [][Next]_vars
-----------------------------------------------------------------------------
(***************************************************************************)
(* Properties.                                                             *)
(***************************************************************************)
Bytes == 0 .. Byte - 1

\* Every variable has its type: whatever a program does, pointers and bytes
\* stay in their eight bits and pc in its sixteen.
TypeOK ==
  /\ running \in BOOLEAN
  /\ pc \in 0 .. Short - 1
  /\ data \in [Stacks -> [Bytes -> Bytes]]
  /\ ptr \in [Stacks -> Bytes]
  /\ saved \in [Stacks -> Bytes]
  /\ mem \in [0 .. MemSize - 1 -> Bytes]
  /\ dev \in [Bytes -> Bytes]
  /\ instr \in Opcodes
  /\ fuel \in Nat

\* The interpreter does what the signatures of the opcodes say, in all their
\* modes, wherever the stacks, the memory or the pages wrap around, and
\* whatever moves the machine's stack pointers meanwhile.
Pointer(s) == IF running THEN ptr[s] ELSE saved[s]
Reference == INSTANCE UxnReference WITH
  list <- [s \in Stacks |-> [i \in 1 .. Byte |-> data[s][(Pointer(s) - i) % Byte]]],
  height <- [s \in Stacks |-> Pointer(s)]
IsUxn == Reference!Spec

\* An operation of System/expansion changes what it is about and nothing else:
\* a fill all of its bytes, as far as the memory goes; a copy to a lower place
\* from the left, to a higher one from the right, or between places that do not
\* overlap, all that fits, as if at once.  With a place that is not in the
\* memory, one byte at most.
ExpansionExact ==
  LET addr == Load(dev, ExpansionPort - 1, 2, Byte)
      op == mem[addr]
      length == Short2(mem, addr + 1)
      raw(at) == Short2(mem, addr + at) * Short + Short2(mem, addr + at + 2)
      src == raw(3)
      dst == raw(7)
      n == CHOOSE k \in 0 .. length :
             /\ src + k <= MemSize /\ dst + k <= MemSize
             /\ k = length \/ src + k = MemSize \/ dst + k = MemSize
      after == Expanded(mem, addr)
      changed == {i \in DOMAIN mem : after[i] # mem[i]}
      apart == src + n <= dst \/ dst + n <= src
  IN  CASE op = 0 /\ src < MemSize ->
             /\ \A i \in DOMAIN mem :
                  i >= src /\ i < src + length => after[i] = mem[addr + 7]
             /\ \A i \in changed : i >= src /\ i < src + length
        [] op \in {1, 2} /\ src < MemSize /\ dst < MemSize ->
             /\ apart \/ (op = 1 /\ dst <= src) \/ (op = 2 /\ dst >= src) =>
                  \A i \in dst .. dst + n - 1 : after[i] = mem[src + i - dst]
             /\ changed \subseteq dst .. dst + n - 1
        [] OTHER -> \A i, j \in changed : i = j
=============================================================================
