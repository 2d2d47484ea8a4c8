--------------------------- MODULE ChessReference ---------------------------
(***************************************************************************)
(* What chess promises.  A program that is accepted is safe: on whatever   *)
(* path the machine takes from a routine that was verified, with whatever  *)
(* inputs, it takes from the stacks only what is there, executes nothing   *)
(* but instructions, and leaves what the signature says.  The machine here *)
(* runs the code of the routines it calls; only a sealed signature         *)
(* replaces its code.  A byte is a number, or -1 if it may be anything; -2 *)
(* and -3 are the address the routine returns to.  The machine neither     *)
(* writes to its code nor moves the tops of its stacks through the system  *)
(* device.                                                                 *)
(***************************************************************************)
EXTENDS ChessComments

CONSTANT Deep   \* bound of the model: the bytes on a stack of the machine

-----------------------------------------------------------------------------
(***************************************************************************)
(* The machine.  Its state is a place and two stacks, the top last.  By    *)
(* contract it takes any call of a routine with a signature to return, and *)
(* any condition to be able to hold and to fail.                           *)
(***************************************************************************)
Wrong == [pc |-> -1, st |-> Empty]
Fine == [pc |-> -2, st |-> Empty]

Unknown(n) == [i \in 1 .. n |-> -1]
ReturnAddress == <<-2, -3>>

IsKnown(bytes) == \A i \in DOMAIN bytes : bytes[i] >= 0
Number(bytes) == IF Len(bytes) = 1 THEN bytes[1] ELSE bytes[1] * Byte + bytes[2]
Written(n, w) == IF w = 1 THEN <<n % Byte>> ELSE <<Hi(n), Lo(n)>>

Lower(stack, n) == SubSeq(stack, 1, Len(stack) - n)
Upper(stack, n) == SubSeq(stack, Len(stack) - n + 1, Len(stack))

StartOf(r) ==
  [pc |-> r,
   st |-> [ws |-> Unknown(Bytes(infos[r].sig.in["ws"])),
           rs |-> (IF infos[r].sig.type = "subroutine" THEN ReturnAddress ELSE <<>>)
                    \o Unknown(Bytes(infos[r].sig.in["rs"]))]]

Leaves(st, r, how) ==
  IF infos[r].sig.type = how /\ \A s \in Stacks : Len(st[s]) = Bytes(infos[r].sig.out[s])
  THEN Fine ELSE Wrong

Arrives(st, r, bytes) ==
  IF bytes = ReturnAddress THEN Leaves(st, r, "subroutine")
  ELSE IF IsKnown(bytes) THEN [pc |-> Number(bytes), st |-> st]
  ELSE Wrong

\* A routine whose signature is trusted takes what it needs, returns, and
\* leaves what it gives.  To jump into oneself is not to end.
Trusted(s, r) ==
  LET sig == infos[s.pc].sig
      takes == [t \in Stacks |->
                  Bytes(sig.in[t]) + (IF t = "rs" /\ sig.type = "subroutine" THEN 2 ELSE 0)]
      gives == [t \in Stacks |-> Lower(s.st[t], takes[t]) \o Unknown(Bytes(sig.out[t]))]
      back == SubSeq(Upper(s.st["rs"], takes["rs"]), 1, 2)
      end == IF sig.type = "vector" THEN Leaves(gives, r, "vector") ELSE Arrives(gives, r, back)
  IN  IF \E t \in Stacks : Len(s.st[t]) < takes[t] THEN {Wrong}
      ELSE IF s.pc = r /\ end = Fine THEN {}
      ELSE {end}

\* The bytes an instruction takes, as the signatures in src/src/vm/exec.h have
\* its operands, the lowest first.
Takes(op) ==
  LET w == Width(op)
  IN  CASE op.base \in {"BRK", "LIT", "JMI", "JSI"} -> <<>>
        [] op.base \in {"INC", "POP", "DUP", "JMP", "JSR", "STH"} -> <<w>>
        [] op.base \in {"LDZ", "LDR", "DEI", "JCI"} -> <<1>>
        [] op.base = "LDA" -> <<2>>
        [] op.base \in {"STZ", "STR", "DEO", "SFT"} -> <<w, 1>>
        [] op.base = "STA" -> <<w, 2>>
        [] op.base = "JCN" -> <<1, w>>
        [] op.base = "ROT" -> <<w, w, w>>
        [] OTHER -> <<w, w>>

\* How many bytes values of some widths take together.
DepthOf(widths) == Total(widths)[Len(widths)]

Operand(stack, widths, i) ==
  Lower(Upper(stack, DepthOf(SubSeq(widths, i, Len(widths)))),
        DepthOf(SubSeq(widths, i + 1, Len(widths))))

Calculated(op, a, b) ==
  IF ~IsKnown(a \o b) THEN Unknown(Width(op))
  ELSE Written(IF op.base = "SFT" THEN Shift(Number(a), Number(b))
               ELSE Compute(op.base, Number(a), Number(b)) % Short, Width(op))

\* A return address may be moved past data that follows the call.
Incremented(a) ==
  IF a = ReturnAddress THEN a
  ELSE IF IsKnown(a) THEN Written(Number(a) + 1, Len(a))
  ELSE Unknown(Len(a))

CodeByte(addr) ==
  IF addr \in DOMAIN infos THEN -1 ELSE RomAt(addr)

CodeBytes(addr, w) == [i \in 1 .. w |-> CodeByte((addr + i - 1) % Short)]

Outcomes(op, a, b) ==
  IF IsKnown(a \o b) THEN {IF Holds(op.base, Number(a), Number(b)) THEN <<1>> ELSE <<0>>}
  ELSE {<<0>>, <<1>>}

\* What it leaves in place of its operands: it may depend on what they are.
Gives(op, after, a, b, c) ==
  CASE op.base = "INC" -> {Incremented(a)}
    [] op.base = "NIP" -> {b}
    [] op.base = "SWP" -> {b \o a}
    [] op.base = "ROT" -> {b \o c \o a}
    [] op.base = "DUP" -> {a \o a}
    [] op.base = "OVR" -> {a \o b \o a}
    [] op.base \in Comparisons -> Outcomes(op, a, b)
    [] op.base \in Arithmetic \union {"SFT"} -> {Calculated(op, a, b)}
    [] op.base \in {"LDZ", "LDR", "LDA", "DEI"} -> {Unknown(Width(op))}
    [] op.base = "LIT" -> {CodeBytes(after, Width(op))}
    [] OTHER -> {<<>>}

Stashes(op, after, a) ==
  CASE op.base = "STH" -> a
    [] op.base = "JSR" -> Written(after, 2)
    [] op.base = "JSI" -> Written((after + 2) % Short, 2)
    [] OTHER -> <<>>

Onward(op, after) ==
  (after + (CASE op.base = "LIT" -> Width(op)
              [] op.base \in {"JCI", "JMI", "JSI"} -> 2
              [] OTHER -> 0)) % Short

\* The bytes of the address it jumps to.
Target(op, after, to) ==
  IF op.base \in {"JCI", "JMI", "JSI"}
  THEN LET there == CodeBytes(after, 2)
       IN  IF IsKnown(there) THEN Written((after + 2 + Number(there)) % Short, 2) ELSE Unknown(2)
  ELSE IF Len(to) = 2 THEN to
  ELSE IF IsKnown(to) THEN Written(Rel(after, Number(to)), 2)
  ELSE Unknown(2)

Jumps == {"JMP", "JSR", "JMI", "JSI"}
Conditions == {"JCN", "JCI"}

Moves(s, r, byContract, op) ==
  LET after == (s.pc + 1) % Short
      widths == Takes(op)
      x(i) == IF i <= Len(widths) THEN Operand(s.st[On(op)], widths, i) ELSE <<>>
      left == IF op.k THEN s.st[On(op)] ELSE Lower(s.st[On(op)], DepthOf(widths))
      stacks == {[s.st EXCEPT ![On(op)] = left \o given,
                              ![Off(op)] = @ \o Stashes(op, after, x(1))] :
                   given \in Gives(op, after, x(1), x(2), x(3))}
      free == byContract \/ x(1) = Unknown(1)
      to == Target(op, after, x(Len(widths)))
      jumped == {Arrives(st, r, to) : st \in stacks}
      passed == {[pc |-> Onward(op, after), st |-> st] : st \in stacks}
  IN  CASE op.base = "BRK" -> {Leaves(s.st, r, "vector")}
        [] op.base \in Jumps -> jumped
        [] op.base \in Conditions ->
             (IF free \/ x(1) # <<0>> THEN jumped ELSE {})
               \union (IF free \/ x(1) = <<0>> THEN passed ELSE {})
        [] OTHER -> passed

IsTrusted(s, r, byContract) ==
  /\ s.pc \in DOMAIN infos /\ infos[s.pc].routine
  /\ IF byContract THEN s # StartOf(r) ELSE ~infos[s.pc].marked

Successors(s, r, byContract) ==
  IF IsTrusted(s, r, byContract) THEN Trusted(s, r)
  ELSE IF s.pc < ResetVector \/ SymbolAt(s.pc).t # "opcode" THEN {Wrong}
  ELSE IF Len(s.st[On(rom[s.pc])]) < DepthOf(Takes(rom[s.pc])) THEN {Wrong}
  ELSE Moves(s, r, byContract, rom[s.pc])

GoesOn(s) == s.pc >= 0 /\ \A t \in Stacks : Len(s.st[t]) <= Deep

RECURSIVE Reachable(_, _, _, _)
Reachable(seen, fresh, r, byContract) ==
  LET next == UNION {Successors(s, r, byContract) : s \in {f \in fresh : GoesOn(f)}}
  IN  IF fresh = {} THEN seen
      ELSE Reachable(seen \union next, next \ seen, r, byContract)

Reached(r, byContract) == Reachable({StartOf(r)}, {StartOf(r)}, r, byContract)

-----------------------------------------------------------------------------
(***************************************************************************)
(* What is accepted is safe, as described above, unless a jump was not     *)
(* followed with stacks the first time did not cover, a half was joined to *)
(* that of another value, a constant outgrew its byte or a stack was full. *)
(***************************************************************************)
Sound ==
  phase = "done" /\ success /\ doubts \intersect {"cut", "recycled", "wide", "full"} = {} =>
    \A r \in Verified : Wrong \notin Reached(r, FALSE)

(***************************************************************************)
(* In what is accepted, every routine that was verified has a path to its  *)
(* end, if those it calls return and any condition may hold or fail.       *)
(***************************************************************************)
EndsSomewhere ==
  phase = "done" /\ success /\ doubts \intersect {"recycled", "wide", "full"} = {} =>
    \A r \in Verified : Fine \in Reached(r, TRUE)

\* What is rejected for other reasons than what the machine would do: a type
\* that is not assignable, a cast, a call that leaves something on the return
\* stack, above the address it returns to, and an immediate jump by a number.
HasTypes(vals) == \E i \in DOMAIN vals : "nominal" \in vals[i].sem

Untyped ==
  /\ casts = <<>>
  /\ \A a \in DOMAIN infos :
       LET sig == infos[a].sig
       IN  sig.out["rs"] = <<>> /\ \A s \in Stacks : ~HasTypes(sig.in[s]) /\ ~HasTypes(sig.out[s])
  /\ \A a \in DOMAIN rom :
       symbols[a].t = "opcode" /\ rom[a].base \in {"JCI", "JMI", "JSI"}
         => SymbolAt(a + 1).t = "ref"

(***************************************************************************)
(* What is reported is real: a routine with an error has a path on which   *)
(* it goes wrong, if those it calls keep to their signatures and any       *)
(* condition may hold or fail; and one that is reported not to terminate   *)
(* has no path to its end, unless a jump was not followed or the end that  *)
(* had been found was forgotten when it was seen to call itself.           *)
(***************************************************************************)
ReportsAreReal ==
  phase = "done" =>
    \A r \in Verified :
      /\ infos[r].error /\ Untyped /\ doubts \intersect {"full"} = {} => Wrong \in Reached(r, TRUE)
      /\ NeverEnds(infos[r]) /\ doubts \intersect {"cut", "forgotten"} = {}
           => Fine \notin Reached(r, FALSE)

(***************************************************************************)
(* Every program is accepted or rejected in the end: no path is followed   *)
(* for ever, unless a routine was called so that it returns to where the   *)
(* run already was, which is not remembered as a jump.                     *)
(***************************************************************************)
Decides == <>(phase = "done" \/ "back" \in doubts)
=============================================================================
