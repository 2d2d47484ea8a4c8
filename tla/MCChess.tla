------------------------------ MODULE MCChess ------------------------------
(***************************************************************************)
(* The programs TLC checks: bytes of four bits, sixteen of which are the   *)
(* zero page.  A program is a list of items, which is assembled here into  *)
(* the symbols chess is given: comments after labels and instructions,     *)
(* bodies of routines of a few instructions, and bodies with jumps.        *)
(***************************************************************************)
EXTENDS ChessReference

\* The operations on shorts, from those on bytes.
Bits == INSTANCE Bitwise
Tables ==
  [op \in {"AND", "ORA", "EOR"} |->
     [a, b \in 0 .. Byte - 1 |->
        CASE op = "AND" -> Bits!&(a, b)
          [] op = "ORA" -> Bits!|(a, b)
          [] op = "EOR" -> Bits!^^(a, b)]]
Bytewise(op, a, b) == Tables[op][Hi(a), Hi(b)] * Byte + Tables[op][Lo(a), Lo(b)]
MCAnd(a, b) == Bytewise("AND", a, b)
MCOra(a, b) == Bytewise("ORA", a, b)
MCEor(a, b) == Bytewise("EOR", a, b)

\* Some byte for each instruction, with the modes as in the code.
MCEncoded(op) ==
  (IF op.k THEN 8 ELSE 0) + (IF op.r THEN 4 ELSE 0) + (IF op.s THEN 2 ELSE 0)
    + (IF op.base = "BRK" THEN 0 ELSE 1)

-----------------------------------------------------------------------------
(***************************************************************************)
(* Items.                                                                  *)
(***************************************************************************)
Lab(name) == [k |-> "label", size |-> 0, name |-> <<name>>]
Com(toks) == [k |-> "comment", size |-> 0, toks |-> toks]
Other(t) == [k |-> t, size |-> 0]      \* "macro" and "other"
Num(bytes) == [k |-> "number", size |-> Len(bytes), bytes |-> bytes]
Ref(how, name) == [k |-> "ref", size |-> IF how = "rel" THEN 1 ELSE 2, how |-> how, to |-> <<name>>]
I(base) == [k |-> "opcode", size |-> 1, op |-> [base |-> base, k |-> base = "LIT", r |-> FALSE, s |-> FALSE]]
I2(base) == [k |-> "opcode", size |-> 1, op |-> [base |-> base, k |-> base = "LIT", r |-> FALSE, s |-> TRUE]]
Keep(item) == [item EXCEPT !.op.k = TRUE]
Onr(item) == [item EXCEPT !.op.r = TRUE]

\* Where each item begins.
Places(items) ==
  LET place[i \in DOMAIN items] ==
        IF i = 1 THEN ResetVector ELSE place[i - 1] + items[i - 1].size
  IN  [i \in DOMAIN items |-> place[i]]

AddressOf(items, places, name) ==
  LET is == {i \in DOMAIN items : items[i].k = "label" /\ items[i].name = name}
  IN  places[CHOOSE i \in is : TRUE]

RefBytes(items, places, i) ==
  LET to == AddressOf(items, places, items[i].to)
      far == (to - places[i] - 2) % Short
  IN  CASE items[i].how = "rel" -> <<far % Byte>>
        [] items[i].how = "abs" -> Written(to, 2)
        [] items[i].how = "imm" -> Written(far, 2)

\* The tokens of a comment that is opened in it are deeper.
Depths(toks) ==
  [i \in DOMAIN toks |->
     1 + Cardinality({j \in 1 .. i - 1 : toks[j].mark = "("})
       - Cardinality({j \in 1 .. i - 1 : toks[j].mark = ")"})]

Word(id, tok) == [t |-> "comment", id |-> id, tok |-> tok]

Assembled(items, places, i) ==
  LET item == items[i]
      addr == places[i]
      are(t, name, bytes) ==
        [j \in DOMAIN bytes |->
           [t |-> t, addr |-> addr + j - 1, src |-> <<i>>, name |-> name, byte |-> bytes[j]]]
  IN  CASE item.k = "label" -> <<[t |-> "label", addr |-> addr, name |-> item.name]>>
        [] item.k = "comment" ->
             <<Word(0, Mark("("))>>
               \o [j \in DOMAIN item.toks |-> Word(Depths(item.toks)[j], item.toks[j])]
               \o <<Word(1, Mark(")"))>>
        [] item.k = "opcode" -> are("opcode", <<>>, <<item.op>>)
        [] item.k = "number" -> are("number", <<>>, item.bytes)
        [] item.k = "ref" -> are("ref", item.to, RefBytes(items, places, i))
        [] OTHER -> <<[t |-> item.k]>>

Program(items) ==
  LET places == Places(items)
  IN  FlattenSeq([i \in DOMAIN items |-> Assembled(items, places, i)])

-----------------------------------------------------------------------------
(***************************************************************************)
(* Comments.                                                               *)
(***************************************************************************)
Value(name, len, short) ==
  [mark |-> "", name |-> name, len |-> len, short |-> short, address |-> FALSE, upper |-> FALSE]
v == Value(<<"v">>, 1, FALSE)
w == Value(<<"w">>, 2, TRUE)
Pointer == [Value(<<"w">>, 4, TRUE) EXCEPT !.address = TRUE]
Suit == [Value(<<"Suit">>, 4, FALSE) EXCEPT !.upper = TRUE]
Heart == [Value(<<"Suit", "/heart">>, 10, FALSE) EXCEPT !.upper = TRUE]
Yourself == [Value(<<"Suit", "-yourself">>, 13, FALSE) EXCEPT !.upper = TRUE]
Wordy == Value(<<"wordy-argument">>, 14, FALSE)

sub == Mark("--")
vec == Mark("->")
dot == Mark(".")
seal == Mark("!")
open == Mark("(")
close == Mark(")")

UpTo(n, S) == UNION {[1 .. i -> S] : i \in 0 .. n}

Texts ==
  UpTo(4, {w, sub, dot, seal})
    \union {<<a>> \o t : a \in {vec, Suit}, t \in UpTo(3, {v, sub, vec, dot, seal})}
    \union {<<v, dot, w, w, sub>> \o t : t \in UpTo(4, {Pointer, dot, seal})}
    \union {<<v>> \o t \o <<sub>> : t \in {<<open, v, close>>, <<open, close, seal>>}}
    \union {<<a, b, dot, Wordy, c, mark>> : a, b, c \in {v, w, Wordy}, mark \in {sub, seal}}

SignatureItems(texts) == {<<Lab("fn"), Com(t), I("BRK")>> : t \in texts}
CastItems(texts) == {<<Lab("fn"), I("BRK"), Com(t)>> : t \in texts}

\* Several comments, and what may lie between.
CommentItems(texts) ==
  {<<Lab("fn"), m, Com(t), Com(<<v, v, sub>>), I("BRK"), Com(<<w>>), Com(u),
     Com(<<v, seal>>)>> :
     m \in {Other("macro"), Other("other"), Lab("x"), Num(<<1>>)},
     t \in texts,
     u \in {<<seal, v>>, <<w, seal>>, <<sub, seal>>}}

-----------------------------------------------------------------------------
(***************************************************************************)
(* Routines.                                                               *)
(***************************************************************************)
Lit(n) == <<I("LIT"), Num(<<n>>)>>
Lit2(n) == <<I2("LIT"), Num(Written(n, 2))>>
ToLabel(name) == <<I2("LIT"), Ref("abs", name)>>
To(base, name) == <<I(base), Ref("imm", name)>>
Ret == <<Onr(I2("JMP"))>>
Brk == <<I("BRK")>>

Routine(name, sig, body) == <<Lab(name), Com(sig)>> \o body
Joined(n, S) == {FlattenSeq(blocks) : blocks \in UpTo(n, S)}

\* What is left of the halves of shorts when they have been moved about.
ShuffleItems(n) ==
  {Brk \o Routine("fn", <<v, w, sub, w, v>>, body \o Ret) :
     body \in Joined(n, {<<I("SWP")>>, <<I2("SWP")>>, <<I("ROT")>>, <<I("POP")>>, <<I("DUP")>>,
                         <<I("OVR")>>, <<I("STH")>>, <<Onr(I2("STH"))>>})}

\* A return address that has been moved about.
ReturnItems(n) ==
  {Brk \o Routine("fn", <<w, sub>>, body \o <<I2("JMP")>>) :
     body \in Joined(n, {<<I("SWP")>>, <<I("NIP")>>, <<I("ROT")>>, <<I("POP")>>, <<I2("INC")>>,
                         <<Onr(I2("STH"))>>, <<I2("NIP")>>})}

\* Every instruction in every mode, of what nothing is known and of constants,
\* and after it as many bytes are popped as should be left, or one more or less.
Plain == {op \in Opcodes : op.base \notin {"BRK", "LIT", "JCI", "JMI", "JSI", "JMP", "JCN", "JSR"}}
Code(op) == [k |-> "opcode", size |-> 1, op |-> op]
Pops(item, n) == [i \in 1 .. n |-> item]

Left(op) ==
  LET given == CHOOSE bytes \in Gives(op, 0, Unknown(Width(op)), Unknown(Width(op)), Unknown(Width(op))) : TRUE
  IN  Len(given) + (IF op.k THEN DepthOf(Takes(op)) ELSE 0)

Operate(op, consts, d) ==
  LET stash == IF op.base = "STH" THEN Width(op) ELSE 0
      n == 6 - DepthOf(Takes(op)) + Left(op) + d
      ops == IF consts THEN Lit2(19) \o Lit2(38) \o Lit2(2) ELSE Lit2(1)
  IN  [i \in DOMAIN ops |-> IF op.r /\ ops[i].k = "opcode" THEN Onr(ops[i]) ELSE ops[i]]
        \o <<Code(op)>>
        \o Pops(IF op.r THEN Onr(I("POP")) ELSE I("POP"), n)
        \o Pops(IF op.r THEN I("POP") ELSE Onr(I("POP")), stash)

InstructionItems(consts) ==
  {Brk \o Routine("fn", IF consts THEN <<sub>> ELSE IF op.r THEN <<dot, w, w, sub>> ELSE <<w, w, sub>>,
                  Operate(op, consts, d) \o Ret) :
     op \in Plain, d \in {-1, 0, 1}}

\* Bodies of three parts, with labels between them and routines to call.
Helpers ==
  Routine("g", <<v, sub, v, v>>, <<I("DUP")>> \o Ret)
    \o Routine("h", <<v, sub, seal>>, <<I("INC")>>)
    \o Routine("vec", <<v, vec>>, <<I("POP")>> \o Brk)
    \o <<Lab("u"), I("DUP")>> \o Ret

Jumping ==
  {To(j[1], j[2]) : j \in {"JCI", "JMI"} \X {"a", "c"} \union {<<"JSI", "b">>}}
    \union {To("JSI", name) : name \in {"fn", "g", "h", "vec", "u"}}
    \union {ToLabel("b") \o <<I2(base)>> : base \in {"JMP", "JSR"}}
    \union {<<I("LIT"), Ref("rel", "b"), I("JCN")>>}
    \union {<<>>, <<I("DUP")>>, <<I("POP")>>, <<I("EQU")>>}

Frames ==
  {<<<<v, sub, v>>, Ret>>, <<<<sub, v>>, Ret>>, <<<<v, vec>>, Brk>>,
   <<<<v, vec>>, To("JMI", "vec")>>}

JumpItems(first, frames) ==
  {Brk \o Routine("fn", f[1], first \o <<Lab("a")>> \o second \o <<Lab("b")>> \o third
         \o <<Lab("c")>> \o f[2])
       \o Helpers :
     f \in frames, second, third \in Jumping}

\* A routine that calls, jumps to, or falls into one whose signature is sealed.
Ways ==
  {To("JSI", "g") \o Ret, To("JMI", "g"), Lit(1) \o <<I("POP")>>,
   ToLabel("g") \o <<I2("JSR")>> \o Ret, ToLabel("g") \o <<Onr(I2("STH")), I2("JMP")>>}

CallItems(arrow) ==
  {Brk \o Routine("fn", a \o arrow \o b, way) \o Routine("g", c \o called \o d \o <<seal>>, <<>>) :
     a, b, c, d \in {<<>>, <<v>>, <<dot, v>>}, called \in {<<sub>>, <<vec>>},
     way \in Ways}

NominalItems(types) ==
  {Brk \o Routine("fn", <<a, sub, b>>, To("JSI", "g") \o Ret) \o Routine("g", <<c, sub, d, seal>>, <<>>) :
     a, b, c, d \in types}

\* What an instruction leaves is cast, and then something is done with it.
RecastItems(types) ==
  {Brk \o Routine("fn", <<a, sub, b>>, before \o <<Com(cast \o <<seal>>)>> \o after \o Ret) :
     a, b \in types,
     cast \in {<<v, v>>, <<w>>, <<v, Suit>>, <<Pointer>>, <<dot, w>>, <<dot, v, v>>, <<w, w>>, <<v, v, dot, w>>},
     before \in {<<I2("DUP")>>, <<I("SWP")>>, <<Onr(I2("DUP"))>>, <<Keep(I("EQU"))>>, ToLabel("fn")},
     after \in {<<>>, <<I("SWP")>>, <<I2("POP")>>, <<I("POP")>>, <<Onr(I2("POP"))>>, <<I2("NIP")>>}}

\* Addresses from constants, from labels and from nothing known.
Far(base) == {Lit2(n) \o <<I2(base)>> : n \in {3, 17, 23}} \union {<<I2(base)>>}
Near(base) == {Lit(n) \o <<I(base)>> : n \in {0, 1, 14}} \union {<<I(base)>>,
                 <<I("LIT"), Ref("rel", "x"), I(base)>>}
AddressItems(bases) ==
  {Brk \o Routine("fn", <<v, w, sub, v, w>>, jump \o <<I("INC"), Lab("x")>> \o after \o Ret) :
     jump \in UNION {Far(base) \union Near(base) : base \in bases}
                \union {<<I(base), Num(<<0, 1>>)>> : base \in {"JCI", "JMI", "JSI"}}
                \union {<<Keep(j[1])>> \o Tail(j) : j \in UNION {{<<I2(base)>>, <<I(base)>>} : base \in bases}},
     after \in {<<>>, <<Num(<<0>>)>>, <<I("SWP")>>, <<Onr(I2("POP"))>>}}

\* Literals that are not one token, or have a label inside, and what is loaded
\* from where there is a label.
Literals ==
  {<<I2("LIT"), Num(<<1, 2>>)>>, <<I2("LIT"), Num(<<1>>), Num(<<2>>)>>,
   <<I2("LIT"), Num(<<1>>), Lab("x"), Num(<<2>>)>>, <<I2("LIT"), Lab("x"), Num(<<1, 2>>)>>,
   <<I2("LIT"), Lab("x"), Num(<<1>>), Num(<<2>>)>>, <<I2("LIT"), Lab("x"), Lab("y"), Num(<<1, 2>>)>>,
   <<I2("LIT"), Lab("x"), Com(<<sub>>), Num(<<1, 2>>)>>, <<I2("LIT"), Ref("rel", "fn"), Num(<<2>>)>>,
   <<I2("LIT"), Ref("rel", "fn"), Ref("rel", "fn")>>, <<I("LIT"), I("INC")>>,
   <<I2("LIT"), I("INC"), Ref("rel", "fn")>>}
    \union {ToLabel("fn") \o <<I2("LDA")>>, <<I("LIT"), Ref("rel", "fn"), I2("LDR")>>,
            Lit(3) \o <<I2("LDZ")>>, Lit(15) \o Lit(15) \o <<I("INC"), I("MUL"), I("DUP")>>}

LiteralItems(literals) ==
  {Brk \o Routine("fn", sig, lit \o after) :
     sig \in {<<sub>>, <<sub, w>>, <<sub, v, v>>, <<sub, Pointer>>}, lit \in literals,
     after \in {<<>>, Ret, <<I("SWP")>> \o Ret, <<I("SWP"), I("SWP")>> \o Ret, <<I2("JMP")>>,
                <<I("POP")>> \o To("JCI", "fn") \o Ret}}

Times(n, block) == FlattenSeq([i \in 1 .. n |-> block])

\* What it takes several parts to do: nothing at the reset vector, full
\* stacks, a half whose whole has been forgotten, a call that returns to where
\* the caller was, and a call of itself.
MCSpecial ==
  {<<>>, <<Lab("x")>>, <<Num(<<0>>)>>, Brk}
    \union {Brk \o Routine("fn", <<sub>>, Times(n, Lit2(1)) \o Pops(I2("POP"), n) \o Ret) : n \in 7 .. 9}
    \union {Brk \o Routine("fn", <<sub>>, Times(n, Lit2(1)) \o Ret) : n \in 7 .. 9}
    \union {Brk \o Routine("fn", <<w, sub>>,
              <<I("POP")>> \o Lit(0) \o To("JCI", "x") \o <<Onr(I2("STH")), I("NIP"), I2("JMP")>>
                \o <<Lab("x"), I("POP")>> \o Ret)}
    \union {Brk \o Routine("fn", <<sub>>, Lit(0) \o Lit(15) \o Lit(10) \o <<I("ADD"), I2("JMP")>> \o Ret)}
    \union {Brk \o Routine("fn", <<sub, w>>, <<I2("LIT"), Num(<<1>>)>>)}
    \union {<<Lab("x")>> \o ToLabel("x") \o <<I2("STH")>> \o To("JMI", "fn") \o Routine("fn", <<sub>>, Ret)}
    \union {Brk \o Routine("fn", <<v, sub>>,
              <<I("DUP")>> \o Lit(0) \o <<I("EQU")>> \o To("JCI", "x") \o To("JMI", "fn")
                \o <<Lab("x"), I("POP")>> \o Ret)}

MCPrograms ==
  {{Program(items) : items \in family} : family \in
     {SignatureItems(Texts), CastItems(Texts), CommentItems({<<>>, <<v>>, <<sub>>, <<sub, seal>>,
        <<open, close, sub>>}), ShuffleItems(3), ReturnItems(3),
      NominalItems({v, Suit, Heart, Yourself}), RecastItems({w, Pointer}),
      AddressItems({"JMP", "JCN", "JSR"}), LiteralItems(Literals), MCSpecial}
       \union {InstructionItems(consts) : consts \in BOOLEAN}
       \union {JumpItems(first, Frames) : first \in {<<>>, To("JCI", "b")}}
       \union {JumpItems(Lit(1), {<<<<sub, v>>, Ret>>}),
               JumpItems(<<I("DUP"), I("DUP"), I("EQU")>>, {<<<<v, sub, v>>, Ret>>})}
       \union {CallItems(arrow) : arrow \in {<<sub>>, <<vec>>}}}
=============================================================================
