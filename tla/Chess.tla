------------------------------- MODULE Chess -------------------------------
(***************************************************************************)
(* How chess (src/src/asm/chess.c) verifies the routines that have a       *)
(* signature.  It runs each on stacks of which it knows only what the      *)
(* signature says: a jump to a routine with a signature is replaced by     *)
(* that signature, a comparison and a condition fork the run, and a jump   *)
(* that some run has made already ends it.                                 *)
(*                                                                         *)
(* Reading a symbol, an instruction and its cast, falling into a routine,  *)
(* and beginning and ending a run are one step each.  An instruction is a  *)
(* function from one record to another: "m" has the variables and, while   *)
(* it runs, the operands it has got.                                       *)
(***************************************************************************)
EXTENDS ChessAnnotations, SequencesExt

CONSTANT Encoded(_)   \* the byte of an instruction

ASSUME EncodedAssumption == \A op \in Opcodes : Encoded(op) \in 0 .. Byte - 1

StackMax == Byte   \* 256: one more than what the size of a stack can be

ASSUME StackMaxAssumption == StackMax > 2 * MaxArgs + 2

VARIABLES
  phase,    \* "pass", "verify" or "done"
  run,      \* the run under way, if any
  arcs,     \* jump_map: the jumps made, with the run and the stacks of the first
  nodes,    \* the values that were split, the free nodes, the splits so far
  success,
  doubts    \* history: why what was accepted may still be wrong

verification == <<phase, run, arcs, nodes, success, doubts>>
vars == <<source, assembled, parsing, tables, verification>>

NoRun == [info |-> -1]

Init ==
  /\ InitAnnotations
  /\ phase = "pass" /\ run = NoRun /\ arcs = <<>>
  /\ nodes = [heap |-> <<>>, pool |-> <<>>, splits |-> 0]
  /\ success = TRUE /\ doubts = {}

Reading == phase = "pass" /\ HandleSymbol /\ UNCHANGED verification

IsRoutine(m, addr) == addr \in DOMAIN m.infos /\ m.infos[addr].routine

-----------------------------------------------------------------------------
(***************************************************************************)
(* Stacks.  The size of a stack is a byte: when all its 256 bytes are in   *)
(* use, it is 0.                                                           *)
(***************************************************************************)
Size(vals) == Bytes(vals) % StackMax

Fail(m) == [m EXCEPT !.done = TRUE, !.success = FALSE, !.infos[m.info].error = TRUE]

FailIf(m, wrong) == IF wrong THEN Fail(m) ELSE m

Got(m, val) == [m EXCEPT !.got = Append(@, val)]

Doubt(m, why, holds) == IF holds THEN [m EXCEPT !.doubts = @ \union {why}] ELSE m

\* A half keeps what is known of the bytes of the whole, but not what it means.
Half(which, top, v, node, split) ==
  [sem |-> {which} \union (top.sem \intersect {"const", "forked"}),
   v |-> IF "const" \in top.sem THEN v ELSE 0,
   type |-> <<>>, whole |-> node, split |-> split]

SlipRest(pool) == pool   \* a node that is taken stays free

Rest(pool) == IF pool = <<>> THEN pool ELSE Tail(pool)

Split(m, place, side) ==
  LET top == Last(m[place][side])
      node == IF m.nodes.pool = <<>> THEN Len(m.nodes.heap) + 1 ELSE Head(m.nodes.pool)
      n == m.nodes.splits + 1
      kept == [val |-> top, split |-> n]
  IN  Got([m EXCEPT
             ![place][side] = Append(Front(@), Half("hi", top, top.v \div Byte, node, n)),
             !.nodes.heap = IF node > Len(@) THEN Append(@, kept) ELSE [@ EXCEPT ![node] = kept],
             !.nodes.pool = Rest(@),
             !.nodes.splits = n,
             !.used = <<node>> \o @],
          Half("lo", top, top.v % Byte, node, n))

PopByteOrWhole(m, place, side, n) ==
  LET top == Last(m[place][side])
  IN  IF ValueSize(top) = n THEN Got([m EXCEPT ![place][side] = Front(@)], top)
      ELSE Split(m, place, side)

\* Two bytes make a constant, or an address, if both are one.
Merged(hi, lo) ==
  [Val({"short"} \union (hi.sem \intersect lo.sem \intersect {"const", "forked", "address"}), 0)
   EXCEPT !.v = IF "const" \in hi.sem \intersect lo.sem
                THEN Ora((hi.v * Byte) % Short, lo.v) ELSE 0]

MergeGot(m) ==
  LET n == Len(m.got)
  IN  [m EXCEPT !.got = Append(SubSeq(@, 1, n - 2), Merged(@[n], @[n - 1]))]

PopFrom(m, place, side, n) ==
  IF n > Size(m[place][side]) THEN Got(Fail(m), ValueError)
  ELSE IF ValueSize(Last(m[place][side])) >= n THEN PopByteOrWhole(m, place, side, n)
  ELSE MergeGot(PopByteOrWhole(PopByteOrWhole(m, place, side, 1), place, side, 1))

\* Keep mode pops from copies of the stacks, and pushes on the stacks.
PopOperand(m, side, n) ==
  IF m.done THEN Got(m, ValueError)
  ELSE PopFrom(m, IF m.keeps THEN "shadow" ELSE "st", side, n)

Popped(m, side, widths) ==
  LET after[i \in 0 .. Len(widths)] ==
        IF i = 0 THEN m ELSE PopOperand(after[i - 1], side, widths[i])
  IN  after[Len(widths)]

SlipJoins(top, val) == "lo" \in val.sem /\ "hi" \in top.sem   \* of whatever wholes

Joins(top, val) == "lo" \in val.sem /\ "hi" \in top.sem /\ top.whole = val.whole

Push(m, side, val) ==
  LET s == m.st[side]
  IN  IF m.done THEN m
      ELSE IF Size(s) + ValueSize(val) > StackMax THEN Fail(m)
      ELSE IF s # <<>> /\ Joins(Last(s), val)
      THEN Doubt([m EXCEPT !.st[side] = Append(Front(s), m.nodes.heap[val.whole].val)],
                 "recycled",
                 /\ Last(s).whole = val.whole
                 /\ {m.nodes.heap[val.whole].split, Last(s).split} # {val.split})
      ELSE Doubt(Doubt([m EXCEPT !.st[side] = Append(s, val)],
                       "full", Bytes(s) + ValueSize(val) >= StackMax),
                 "wide", "const" \in val.sem /\ val.v >= Byte ^ ValueSize(val))

PushAll(m, side, vals) ==
  LET after[i \in 0 .. Len(vals)] == IF i = 0 THEN m ELSE Push(after[i - 1], side, vals[i])
  IN  after[Len(vals)]

-----------------------------------------------------------------------------
(***************************************************************************)
(* Signatures.                                                             *)
(***************************************************************************)
\* A type is assignable to what its characters begin with, wherever its slashes
\* are, and what has none to any when it is returned.
Assignable(sig, val, dir) ==
  \/ "nominal" \notin sig.sem
  \/ "nominal" \in val.sem /\ IsPrefix(sig.type, val.type)
  \/ dir = "out" /\ "nominal" \notin val.sem

CheckElement(m, dir, side, sig) ==
  LET x == PopFrom(m, "st", side, ValueSize(sig))
  IN  FailIf(x, ~Assignable(sig, Last(x.got), dir))

\* The top, which is the last of a signature, is the first to be checked.
CheckElements(m, dir, side, sig) ==
  LET after[i \in 0 .. Len(sig)] ==
        IF i = 0 THEN m ELSE CheckElement(after[i - 1], dir, side, Reverse(sig)[i])
  IN  after[Len(sig)]

Fits(m, dir, side, sig) ==
  IF dir = "out" THEN Size(m.st[side]) = Bytes(sig) ELSE Size(m.st[side]) >= Bytes(sig)

CheckStack(m, dir, side, sig) ==
  IF m.done THEN m
  ELSE IF ~Fits(m, dir, side, sig) THEN Fail(m)
  ELSE CheckElements(m, dir, side, sig)

CheckStacks(m, dir, sig) == CheckStack(CheckStack(m, dir, "ws", sig["ws"]), dir, "rs", sig["rs"])

Own(m) == m.infos[m.info].sig

CheckReturn(m) == CheckStacks(m, "out", Own(m).out)

Terminate(m) == [m EXCEPT !.done = TRUE]

SlipEnded(m, ends) == [m EXCEPT !.infos[m.info].terminated = TRUE]

\* It was found to end, unless by falling or jumping into itself.
Ended(m, ends) ==
  Doubt([m EXCEPT !.infos[m.info].terminated = ends],
        "forgotten", ~ends /\ m.infos[m.info].terminated)

BRK(m) ==
  Terminate(CheckReturn(Ended(FailIf(m, Own(m).type = "subroutine"), TRUE)))

Returns(addr) == {"address", "return"} \subseteq addr.sem

AbsJmp(m, addr, ends) ==
  IF Returns(addr)
  THEN Terminate(CheckReturn(Ended(FailIf(m, Own(m).type = "vector"), ends)))
  ELSE IF "const" \in addr.sem THEN [m EXCEPT !.pc = addr.v]
  ELSE Fail(m)

\* What a routine with a signature does, instead of what its code does.  A
\* subroutine returns with what is then on the return stack.
Simulate(m, sig) ==
  PushAll(PushAll(CheckStacks(m, "in", sig.in), "ws", sig.out["ws"]), "rs", sig.out["rs"])

JumpBack(m, to, ends) ==
  Doubt(AbsJmp(m, to, ends), "back", "const" \in to.sem /\ to.v <= m.at)

GoBack(m, ends) ==
  IF Size(m.st["rs"]) < 2 THEN Fail(m)
  ELSE LET back == PopFrom(m, "st", "rs", 2) IN JumpBack(back, Last(back.got), ends)

ShortCircuit(m, target) ==
  LET sig == m.infos[target].sig
      ends == target # m.info
  IN  IF sig.type = "subroutine" THEN GoBack(Simulate(m, sig), ends)
      ELSE IF Own(m).type = "subroutine" THEN Fail(m)
      ELSE Ended(Terminate(CheckReturn(Simulate(m, sig))), ends)

-----------------------------------------------------------------------------
(***************************************************************************)
(* Jumps.  One that was made before, by whatever run, is not made again.   *)
(* The first is remembered with the stacks it had, and a later one is in   *)
(* doubt unless those covered its own.                                     *)
(***************************************************************************)
\* What is known of the bytes of a stack, -1 for nothing and less for halves
\* of the return address.
KnownBytes(val) ==
  LET n == ValueSize(val)
  IN  IF "const" \in val.sem
      THEN IF n = 2 THEN <<Hi(val.v), Lo(val.v)>> ELSE <<val.v>>
      ELSE IF "return" \in val.sem /\ n = 2 THEN <<-2, -3>>
      ELSE [i \in 1 .. n |-> -1]

BytesOf(vals) == FoldLeft(LAMBDA bytes, val : bytes \o KnownBytes(val), <<>>, vals)

Image(m) == [info |-> m.info, st |-> [s \in Stacks |-> BytesOf(m.st[s])]]

Covers(first, later) ==
  /\ first.info = later.info
  /\ \A s \in Stacks :
        /\ Len(first.st[s]) = Len(later.st[s])
        /\ \A i \in 1 .. Len(first.st[s]) : first.st[s][i] \in {-1, later.st[s][i]}

Arc(m, from) ==
  IF <<from, m.pc>> \in DOMAIN m.arcs
  THEN Terminate(Doubt(m, "cut", ~Covers(m.arcs[<<from, m.pc>>], Image(m))))
  ELSE [m EXCEPT !.arcs = [a \in DOMAIN @ \union {<<from, m.pc>>} |->
                             IF a \in DOMAIN @ THEN @[a] ELSE Image(m)]]

Relative(m, addr) ==
  IF "const" \in addr.sem THEN [m EXCEPT !.pc = Rel(m.pc, addr.v % Byte)] ELSE Fail(m)

Land(m, from) ==
  IF m.done THEN m
  ELSE IF IsRoutine(m, m.pc) THEN ShortCircuit(m, m.pc)
  ELSE Arc(m, from)

Jump(m, addr) ==
  IF m.done THEN m
  ELSE Land(IF "short" \in addr.sem THEN AbsJmp(m, addr, TRUE) ELSE Relative(m, addr), m.pc)

JumpStash(m, side, addr) ==
  Jump(Push(m, side, Val({"short", "address", "const"}, m.pc)), addr)

Forked(m, st) == [m EXCEPT !.list = <<[info |-> m.info, at |-> m.pc, st |-> st]>> \o @]

\* The false branch is the fork.
JumpConditional(m, cond, addr) ==
  LET decided == {"const", "forked"} \subseteq cond.sem
  IN  IF decided /\ cond.v = 0 THEN m
      ELSE Jump(IF decided THEN m ELSE Forked(m, m.st), addr)

-----------------------------------------------------------------------------
(***************************************************************************)
(* Instructions.                                                           *)
(***************************************************************************)
\* The widths of the operands, the top first.
Operands(op) ==
  CASE op.base \in {"INC", "POP", "DUP", "JMP", "JSR", "STH"} -> <<Width(op)>>
    [] op.base = "JCI" -> <<1>>
    [] op.base = "ROT" -> <<Width(op), Width(op), Width(op)>>
    [] op.base = "JCN" -> <<Width(op), 1>>
    [] op.base \in {"SFT", "STZ", "STR", "DEO"} -> <<1, Width(op)>>
    [] op.base \in {"LDZ", "LDR", "DEI"} -> <<1>>
    [] op.base = "LDA" -> <<2>>
    [] op.base = "STA" -> <<2, Width(op)>>
    [] op.base \in {"BRK", "LIT", "JMI", "JSI"} -> <<>>
    [] OTHER -> <<Width(op), Width(op)>>

\* Which of the operands are pushed, the top being the first.
Shuffled(base) ==
  CASE base = "POP" -> <<>>
    [] base = "NIP" -> <<1>>
    [] base = "SWP" -> <<1, 2>>
    [] base = "ROT" -> <<2, 1, 3>>
    [] base = "DUP" -> <<1, 1>>
    [] base = "OVR" -> <<2, 1, 2>>

INC(val) ==
  [val EXCEPT !.sem = @ \ {"nominal", "hi", "lo"}, !.type = <<>>, !.whole = 0, !.split = 0,
              !.v = IF "const" \in val.sem THEN (@ + 1) % Short ELSE @]

\* The low nibble shifts to the right, the high one then to the left.
BinOp(op, a, b) ==
  LET const == "const" \in a.sem \intersect b.sem
      v == IF op.base = "SFT" THEN Shift(a.v, b.v % Byte) ELSE Compute(op.base, a.v, b.v) % Short
      points == op.base \in {"ADD", "SUB"} /\ "address" \in a.sem \union b.sem
  IN  Val(Sized(Width(op)) \union (IF const THEN {"const"} ELSE {})
            \union (IF points THEN {"address"} ELSE {}),
          IF const THEN v ELSE 0)

\* Both outcomes are followed, unless the operands were such outcomes.
Truth(holds) == Val({"const", "forked"}, IF holds THEN 1 ELSE 0)

BooleanOp(m, op, a, b) ==
  IF {"const", "forked"} \subseteq a.sem \intersect b.sem
  THEN Push(m, On(op), Truth(Holds(op.base, a.v, b.v)))
  ELSE Push(Forked(m, [m.st EXCEPT ![On(op)] = Append(@, Truth(FALSE))]), On(op), Truth(TRUE))

\* What a label stands for is all that is known of the value at its address.
Labelled(m, addr) == IF m.infos[addr].routine THEN {"routine"} ELSE {}

Loaded(m, op, addr) ==
  LET target == IF op.base = "LDR" THEN Rel(m.pc, addr.v % Byte) ELSE addr.v
      known == "const" \in addr.sem /\ target \in DOMAIN m.infos
  IN  Val(Sized(Width(op)) \union (IF known THEN Labelled(m, target) ELSE {}), 0)

DEI(m, op) == Push(m, On(op), Val(Sized(Width(op)), 0))

SymbolAt(addr) == IF addr \in DOMAIN symbols THEN symbols[addr] ELSE NoSymbol

\* An instruction may be quoted: taken for the byte it is.
RomAt(addr) ==
  IF addr \notin DOMAIN rom THEN 0
  ELSE IF symbols[addr].t = "opcode" THEN Encoded(rom[addr])
  ELSE rom[addr]

\* A reference that fits into a byte has the type of its label.
LitByte(addr) ==
  CASE SymbolAt(addr) = NoSymbol -> Val({}, 0)
    [] SymbolAt(addr).t = "ref" ->
         [Val({"address", "const", "nominal"}, RomAt(addr)) EXCEPT !.type = SymbolAt(addr).name]
    [] OTHER -> Val({"const"}, RomAt(addr))

\* A label among the bytes of a literal makes it a variable.
Door(m, addr, w) == Val(Labelled(m, addr) \union Sized(w), 0)

LitValues(m, w) ==
  LET hi == m.pc
      lo == (m.pc + 1) % Short
      isDoor(addr) == addr \in DOMAIN m.infos
      byte(addr) == IF isDoor(addr) THEN Door(m, addr, 1) ELSE LitByte(addr)
      known == SymbolAt(hi) # NoSymbol
  IN  IF w = 1 THEN <<byte(hi)>>
      ELSE IF isDoor(hi)
      THEN IF ~isDoor(lo) /\ SymbolAt(lo) = NoSymbol THEN <<Door(m, hi, 2)>>
           ELSE <<byte(hi), byte(lo)>>
      ELSE IF SymbolAt(hi) # SymbolAt(lo) THEN <<LitByte(hi), LitByte(lo)>>
      ELSE <<Val({"short"} \union (IF known THEN {"const"} ELSE {})
                   \union (IF SymbolAt(hi).t = "ref" THEN {"address"} ELSE {}),
                 IF known THEN RomAt(hi) * Byte + RomAt(lo) ELSE 0)>>

LIT(m, op) ==
  PushAll([m EXCEPT !.pc = (@ + Width(op)) % Short], On(op), LitValues(m, Width(op)))

\* A jump whose target follows it: both bytes must be of one reference.
PopImmediate(m) ==
  LET lo == (m.pc + 1) % Short
      next == (m.pc + 2) % Short
      sound == SymbolAt(m.pc).t = "ref" /\ SymbolAt(m.pc) = SymbolAt(lo)
  IN  Got(FailIf([m EXCEPT !.pc = next], ~sound),
          IF sound
          THEN Val({"short", "address", "const"}, (next + RomAt(m.pc) * Byte + RomAt(lo)) % Short)
          ELSE ValueError)

\* What follows the instruction is read before what is on the stacks, which is
\* left there if that was no target.
PopOperands(m, op) ==
  Popped(IF op.base \in {"JCI", "JMI", "JSI"} THEN PopImmediate(m) ELSE m, On(op), Operands(op))

Executed(x, op) ==
  LET top == x.got[1]
      next == x.got[2]
  IN  CASE op.base = "BRK" -> BRK(x)
        [] op.base = "INC" -> Push(x, On(op), INC(top))
        [] op.base \in Shuffles \ {"INC"} ->
             PushAll(x, On(op), [i \in DOMAIN Shuffled(op.base) |-> x.got[Shuffled(op.base)[i]]])
        [] op.base \in Comparisons -> BooleanOp(x, op, next, top)
        [] op.base \in Arithmetic \union {"SFT"} -> Push(x, On(op), BinOp(op, next, top))
        [] op.base \in {"JMP", "JMI"} -> Jump(x, top)
        [] op.base \in {"JCN", "JCI"} -> JumpConditional(x, next, top)
        [] op.base \in {"JSR", "JSI"} -> JumpStash(x, Off(op), top)
        [] op.base = "STH" -> Push(x, Off(op), top)
        [] op.base \in {"LDZ", "LDR", "LDA"} -> Push(x, On(op), Loaded(x, op, top))
        [] op.base = "DEI" -> DEI(x, op)
        [] op.base \in {"STZ", "STR", "STA", "DEO"} -> x
        [] op.base = "LIT" -> LIT(x, op)

\* A cast changes what values are taken for, not what is known of them.
Recast(input, output) ==
  [output EXCEPT !.sem = @ \union (input.sem \intersect {"const", "forked", "hi", "lo"}),
                 !.v = input.v, !.whole = input.whole, !.split = input.split]

PopCast(m, side, cast) ==
  LET after[i \in 0 .. Len(cast)] ==
        IF i = 0 THEN [m EXCEPT !.got = <<>>]
        ELSE PopFrom(after[i - 1], "st", side, ValueSize(Reverse(cast)[i]))
  IN  after[Len(cast)]

ApplyCast(m, side, cast) ==
  LET x == PopCast(m, side, cast)
  IN  IF Bytes(cast) > Size(m.st[side]) THEN Fail(m)
      ELSE [x EXCEPT !.st[side] =
              @ \o [i \in DOMAIN cast |-> Recast(x.got[Len(cast) + 1 - i], cast[i])]]

CastAt(addr, m) ==
  IF addr \notin DOMAIN casts THEN m
  ELSE ApplyCast(ApplyCast(m, "ws", casts[addr]["ws"]), "rs", casts[addr]["rs"])

-----------------------------------------------------------------------------
(***************************************************************************)
(* The runs.                                                               *)
(***************************************************************************)
Record(op) ==
  [info |-> run.info, at |-> run.pc, pc |-> run.pc, done |-> FALSE, st |-> run.st,
   shadow |-> run.st, keeps |-> op.k, used |-> run.used, got |-> <<>>,
   infos |-> infos, list |-> list, arcs |-> arcs, nodes |-> nodes, success |-> success,
   doubts |-> doubts]

NoOp == [base |-> "BRK", k |-> FALSE, r |-> FALSE, s |-> FALSE]

Becomes(m, falling) ==
  /\ run' = [info |-> m.info, pc |-> m.pc, done |-> m.done, st |-> m.st, used |-> m.used,
             falling |-> falling]
  /\ infos' = m.infos /\ list' = m.list /\ arcs' = m.arcs /\ nodes' = m.nodes
  /\ success' = m.success /\ doubts' = m.doubts
  /\ UNCHANGED <<source, assembled, parsing, casts, phase>>

\* What is at the reset vector is a routine, even if it has no signature.
EnsureReset ==
  LET known == Known(ResetVector)
      signed == [known EXCEPT ![ResetVector].routine = TRUE]
      queued == Enqueued(signed, list, ResetVector, NoSignature)
  IN  IF known[ResetVector].routine THEN [infos |-> known, list |-> list] ELSE queued

BeginVerification ==
  /\ phase = "pass" /\ pos > Len(program)
  /\ phase' = "verify"
  /\ infos' = EnsureReset.infos /\ list' = EnsureReset.list
  /\ UNCHANGED <<source, assembled, parsing, casts, run, arcs, nodes, success, doubts>>

SlipOthers(pending) == pending   \* the entry that is taken stays

Others(pending) == Tail(pending)

Start ==
  /\ phase = "verify" /\ run = NoRun /\ list # <<>>
  /\ LET entry == Head(list)
         missing == SymbolAt(entry.at) = NoSymbol
     IN  /\ run' = IF missing THEN NoRun
                   ELSE [info |-> entry.info, pc |-> entry.at, done |-> FALSE, st |-> entry.st,
                         used |-> <<>>, falling |-> FALSE]
         /\ success' = (success /\ ~missing)
         /\ infos' = IF missing THEN [infos EXCEPT ![entry.info].error = TRUE] ELSE infos
  /\ list' = Others(list)
  /\ UNCHANGED <<source, assembled, parsing, casts, phase, arcs, nodes, doubts>>

Running == phase = "verify" /\ run # NoRun /\ ~run.done

InZeroPage == run.pc < ResetVector /\ ~run.falling
Falls == run.pc # run.info /\ IsRoutine([infos |-> infos], run.pc)

ReachZeroPage ==
  /\ Running /\ InZeroPage
  /\ Becomes(Fail(Record(NoOp)), FALSE)

FallThrough ==
  /\ Running /\ ~InZeroPage /\ Falls
  /\ Becomes(ShortCircuit(Record(NoOp), run.pc), TRUE)

ReachNonOpcode ==
  /\ Running /\ ~InZeroPage /\ ~Falls
  /\ SymbolAt(run.pc).t # "opcode"
  /\ Becomes(Fail(Record(NoOp)), FALSE)

Execute ==
  /\ Running /\ ~InZeroPage /\ ~Falls
  /\ SymbolAt(run.pc).t = "opcode"
  /\ LET op == rom[run.pc]
         m == [Record(op) EXCEPT !.pc = (@ + 1) % Short]
     IN  Becomes(CastAt(run.pc, Executed(PopOperands(m, op), op)), FALSE)

\* The nodes of the run are free again, even if a fork still has halves of theirs.
Finish ==
  /\ phase = "verify" /\ run # NoRun /\ run.done
  /\ run' = NoRun
  /\ nodes' = [nodes EXCEPT !.pool = Reverse(run.used) \o @]
  /\ UNCHANGED <<source, assembled, parsing, tables, phase, arcs, success, doubts>>

\* Errors may have kept the others from being seen to end.
NeverEnds(info) == info.marked /\ ~info.error /\ ~info.terminated

Conclude ==
  /\ phase = "verify" /\ run = NoRun /\ list = <<>>
  /\ phase' = "done"
  /\ success' = (success /\ \A a \in DOMAIN infos : ~NeverEnds(infos[a]))
  /\ UNCHANGED <<source, assembled, parsing, tables, run, arcs, nodes, doubts>>

Done == phase = "done" /\ UNCHANGED vars

Verify == BeginVerification \/ Start \/ ReachZeroPage \/ FallThrough \/ ReachNonOpcode
  \/ Execute \/ Finish \/ Conclude

Next == Reading \/ Verify \/ Done

\* The checker is a loop of one thread: this is WF_vars(Reading \/ Verify), with
\* what TLC would be long to find out, that one of them is enabled until the end.
Fairness == []<>(phase = "done") \/ []<><<Next>>_vars

Spec == Init /\ [][Next]_vars /\ Fairness
-----------------------------------------------------------------------------
(***************************************************************************)
(* What the variables range over, of which this is not plain: that a node  *)
(* is never both free and in use, or twice either; that what is run, and   *)
(* waits to be run, has been marked; and that the half of a short has a    *)
(* node with the whole.                                                    *)
(***************************************************************************)
Verified == {r \in DOMAIN infos : infos[r].marked}

TypeOK ==
  /\ phase \in {"pass", "verify", "done"} /\ success \in BOOLEAN
  /\ doubts \subseteq {"cut", "recycled", "wide", "full", "forgotten", "back"}
  /\ \A i \in DOMAIN nodes.pool : nodes.pool[i] \in DOMAIN nodes.heap
  /\ \A i, j \in DOMAIN nodes.pool : i # j => nodes.pool[i] # nodes.pool[j]
  /\ Verified \subseteq {r \in DOMAIN infos : infos[r].routine}
  /\ \A i \in DOMAIN list : list[i].info \in Verified
  /\ run # NoRun =>
       /\ run.info \in Verified
       /\ run.pc \in 0 .. Short - 1
       /\ \A i \in DOMAIN run.used :
            /\ run.used[i] \in DOMAIN nodes.heap
            /\ \A j \in DOMAIN nodes.pool : run.used[i] # nodes.pool[j]
       /\ \A s \in Stacks : \A i \in DOMAIN run.st[s] :
            LET val == run.st[s][i]
            IN  /\ val.sem \subseteq Semantics
                /\ val.v \in (IF "const" \in val.sem THEN 0 .. Short - 1 ELSE {0})
                /\ val.whole \in (IF val.sem \intersect {"hi", "lo"} # {}
                                  THEN DOMAIN nodes.heap ELSE {0})
=============================================================================
