------------------------------ MODULE MCUxnCpu ------------------------------
(***************************************************************************)
(* UxnCpu for TLC: nibbles of one bit, so that bytes are 0 .. 3 and shorts *)
(* 0 .. 15, stacks of four bytes, in which most instructions wrap, and two *)
(* banks of memory.  Some machines run programs, one of them longer ones;  *)
(* the others only have an expansion operation, some of whose places are   *)
(* outside the memory.                                                     *)
(***************************************************************************)
EXTENDS UxnCpu

Bits == INSTANCE Bitwise
MCAnd(a, b) == Bits!&(a, b)
MCOra(a, b) == Bits!|(a, b)
MCEor(a, b) == Bits!^^(a, b)

Machine(ws, rs, wsp, rsp, seed, steps) ==
  [data |-> [s \in Stacks |-> [i \in 0 .. 3 |-> IF s = "ws" THEN ws[i + 1] ELSE rs[i + 1]]],
   ptr |-> [s \in Stacks |-> IF s = "ws" THEN wsp ELSE rsp],
   mem |-> [i \in 0 .. MemSize - 1 |-> (i * i + seed * i + seed) % 4],
   dev |-> [i \in 0 .. 3 |-> (i + seed) % 4],
   fuel |-> steps]

Contents == {<<0, 1, 2, 3>>, <<3, 2, 0, 1>>, <<1, 3, 3, 2>>}

Programs ==
  {Machine(ws, <<2, 3, 1, 0>>, wsp, 3, seed, 2) :
     ws \in Contents, wsp \in 0 .. 3, seed \in {1, 2}}
  \union {Machine(<<0, 1, 2, 3>>, <<3, 2, 0, 1>>, 3, 1, 1, 3)}

\* Where the operation is, what it is, for how much, and about which places.
Command(op, length, src, dst) ==
  <<op, length \div 4, length % 4>>
    \o <<src[1] \div 4, src[1] % 4, src[2] \div 4, src[2] % 4>>
    \o <<dst[1] \div 4, dst[1] % 4, dst[2] \div 4, dst[2] % 4>>

Places == {<<0, 2>>, <<0, 13>>, <<1, 0>>, <<1, 3>>, <<1, 13>>, <<1, 15>>, <<2, 1>>}

Expansions ==
  {[Machine(<<0, 0, 0, 0>>, <<0, 0, 0, 0>>, 0, 0, 1, 0) EXCEPT
      !.mem = [i \in DOMAIN @ |->
                 IF (i - addr) % 16 < 11 /\ i < 16
                 THEN Command(op, length, src, dst)[((i - addr) % 16) + 1] ELSE @[i]],
      !.dev = [@ EXCEPT ![0] = addr \div 4, ![1] = addr % 4]] :
     addr \in {0, 10}, op \in 0 .. 3, length \in {0, 1, 3, 4, 15},
     src \in Places, dst \in Places}

MCMachines == Programs \union Expansions
=============================================================================
