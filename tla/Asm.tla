-------------------------------- MODULE Asm --------------------------------
(***************************************************************************)
(* The assembler (src/src/asm/asm.c): one pass over the tokens of a file,  *)
(* of the macros it expands and of the files it includes.  A reference to  *)
(* what is not yet known is a placeholder, kept in a list until a label or *)
(* the end of a lambda fills it in.                                        *)
(*                                                                         *)
(* A token is a record of what it means: its characters, and with them the *)
(* limits on its length, are left out.  So is what a token that fails has  *)
(* done by then, as nothing is assembled after it.  Comments and the       *)
(* definitions of macros are read token by token; every other token is one *)
(* step.  Of the symbols only those of bytes and labels are kept, and of   *)
(* the warnings only those of what nothing refers to.                      *)
(*                                                                         *)
(* An operator named Slip... is the next one as a plausible mistake would  *)
(* leave it; the specification does not use it.                            *)
(***************************************************************************)
EXTENDS Integers, Sequences, FiniteSets

CONSTANTS
  Page,       \* how many values a byte has, and BUXN_ASM_RESET_VECTOR
  MaxDepth,   \* BUXN_ASM_MAX_PREPROCESSOR_DEPTH
  Main,       \* the file to assemble
  Programs,   \* bound of the model: the files there may be, by name
  TakesArg,   \* the names that end with a colon
  Uppercased  \* the names that begin with a capital

ASSUME PageAssumption == Page \in Nat /\ Page >= 4 /\ Page % 2 = 0
ASSUME MaxDepthAssumption == MaxDepth \in Nat

MemSize == Page * Page

(***************************************************************************)
(* Tokens.  A name is the sequence of its parts, of which a slash makes    *)
(* two; the empty one stands for all that no symbol may have: no character *)
(* at all, a rune, an opcode or a number.                                  *)
(***************************************************************************)
Named(name) == [k |-> "name", name |-> name]    \* a, a/x
Local(name) == [k |-> "local", name |-> name]   \* &x, /x
At == [k |-> "at", name |-> <<>>]               \* @
Lambda == [k |-> "lambda", name |-> <<>>]       \* {
Arg == <<"^">>                                  \* what an argument replaces

Plain(kind) == [kind |-> kind]
Close == Plain("}")
EndComment == Plain(")")
Mark == Plain("[")
NoArg == Plain("")

Data(bytes) == [kind |-> "data", bytes |-> bytes]         \* opcode, number, text
Ref(rune, to) == [kind |-> "ref", rune |-> rune, to |-> to]
Word(name) == [kind |-> "word", name |-> name]
Label(to) == [kind |-> "label", to |-> to]                \* @a, @@, &x
Pad(rune, n) == [kind |-> "pad", rune |-> rune, n |-> n]  \* |10, $2
PadTo(rune, to) == [kind |-> "padTo", rune |-> rune, to |-> to]
MacroDef(name) == [kind |-> "macro", name |-> name]       \* %m
Include(file, later) == [kind |-> "include", file |-> file, later |-> later]
Comment(nests) == [kind |-> "comment", nests |-> nests]   \* ( or (word

\* A brace that stands alone, and a word or a /x, are calls: they have no rune.
Brace == Ref("", Lambda)

Byte(n) == <<"#", n>>

Opcode(rune) ==
  CASE rune \in {".", ","} -> <<<<"LIT", 0>>>>
    [] rune = ";" -> <<<<"LIT2", 0>>>>
    [] rune = "!" -> <<<<"JMI", 0>>>>
    [] rune = "?" -> <<<<"JCI", 0>>>>
    [] rune = "" -> <<<<"JSI", 0>>>>
    [] OTHER -> <<>>

Type(rune) ==
  IF rune \in {".", "-"} THEN "ZERO" ELSE IF rune \in {";", "="} THEN "ABS" ELSE "REL"

Size(rune) == IF rune \in {".", "-", ",", "_"} THEN 1 ELSE 2

\* A token of a macro, with its argument; of what may follow a rune, only a
\* word is a name (programs have no @, { or &x there).
Filled(t, arg) ==
  IF arg = NoArg THEN t
  ELSE IF t = Word(Arg) THEN arg
  ELSE IF t.kind \in {"ref", "label"} /\ t.to = Named(Arg)
  THEN [t EXCEPT !.to = Named(IF arg.kind = "word" THEN arg.name ELSE <<>>)]
  ELSE t

Runes == {"", "!", "?", ".", "-", ",", "_", ";", "="}

\* What the reader gives: a reference has one of the runes, and a number fits.
IsToken(t) ==
  /\ t.kind = "data" => Len(t.bytes) \in Nat
  /\ t.kind = "ref" => t = Ref(t.rune, t.to) /\ t.rune \in Runes
  /\ t.kind = "label" => t = Label(t.to)
  /\ t.kind = "pad" => t.n \in 0 .. MemSize - 1

ASSUME ProgramsAssumption ==
  \A program \in Programs :
    /\ Main \in DOMAIN program
    /\ \A file \in DOMAIN program :
         \A i \in 1 .. Len(program[file]) : IsToken(program[file][i])

\* The braces that the end of a macro's body has to match: one alone has none.
SlipOpensInBody(t) == t.kind = "ref" /\ t.to = Lambda
OpensInBody(t) == t.kind = "ref" /\ t.to = Lambda /\ t # Brace
-----------------------------------------------------------------------------
VARIABLES
  files,      \* what is in the files
  phase,      \* "pass", "resolve" or "done"
  success,
  units,      \* what is being read, the innermost first
  comment,    \* how deep in comments
  defining,   \* the macro being defined and how deep in its body, if any
  writeAddr, scope, numLabels,
  symtab,     \* by name
  lambdas, atLabels,   \* the last one first
  pool,       \* the references that were released
  nodes,      \* how many references were ever allocated
  includes, deferred,
  rom, symbols, warned   \* what the assembler's user is given

input == <<files, phase>>
reading == <<units, comment, defining>>
layout == <<writeAddr, scope, numLabels>>
lists == <<lambdas, atLabels, pool, nodes>>
including == <<includes, deferred>>
output == <<rom, symbols, warned>>
vars == <<input, success, reading, layout, symtab, lists, including, output>>

NoMacro == [name |-> <<>>, depth |-> 0]
Unit(kind, of, arg) == [kind |-> kind, of |-> of, pos |-> 1, arg |-> arg]
File(of) == Unit("file", of, NoArg)
Unknown ==
  [type |-> "unknown", id |-> 0, addr |-> 0, refs |-> <<>>, body |-> <<>>, referenced |-> FALSE]

Init ==
  /\ files \in Programs
  /\ phase = "pass" /\ success = TRUE
  /\ units = <<File(Main)>> /\ comment = 0 /\ defining = NoMacro
  /\ writeAddr = Page /\ scope = "RESET" /\ numLabels = 0
  /\ symtab = <<>>
  /\ lambdas = <<>> /\ atLabels = <<>> /\ pool = <<>> /\ nodes = 0
  /\ includes = {} /\ deferred = <<>>
  /\ rom = <<>> /\ symbols = {} /\ warned = {}
-----------------------------------------------------------------------------
(***************************************************************************)
(* Reading.                                                                *)
(***************************************************************************)
Tokens(u) == IF u.kind = "file" THEN files[u.of] ELSE symtab[u.of].body

HasToken(k) == Head(units).pos + k <= Len(Tokens(Head(units)))
Token(k) == Filled(Tokens(Head(units))[Head(units).pos + k], Head(units).arg)

\* The unit read from, with n of its tokens behind.
Past(n) == <<[Head(units) EXCEPT !.pos = @ + n]>> \o Tail(units)

\* Of the files there may be, and of the macros.
Depth == IF phase = "pass" THEN Len(units) - 1 ELSE Len(units)
Expanding(name) == \E i \in DOMAIN units : units[i].kind = "macro" /\ units[i].of = name

\* A token of this kind is to be assembled.
Reads(kind) ==
  /\ phase # "done" /\ units # <<>> /\ HasToken(0)
  /\ comment = 0 /\ defining = NoMacro
  /\ Token(0).kind = kind

Fail ==
  /\ phase' = "done" /\ success' = FALSE
  /\ UNCHANGED <<files, reading, layout, symtab, lists, including, output>>

\* Everything but what the step of a token that is assembled may change.
Consume ==
  /\ units' = Past(1)
  /\ UNCHANGED <<input, comment, defining, including, warned>>
-----------------------------------------------------------------------------
(***************************************************************************)
(* Writing.                                                                *)
(***************************************************************************)
SlipAfter(n) == writeAddr + n
After(n) == (writeAddr + n) % MemSize

\* Nothing is written to the zero page, where the address goes after the last.
Fits(n) == \A i \in 0 .. n - 1 : After(i) >= Page

Put(mem, at, bytes) ==
  [a \in DOMAIN mem \union (at .. at + Len(bytes) - 1) |->
     IF a \in at .. at + Len(bytes) - 1 THEN bytes[a - at + 1] ELSE mem[a]]

\* The same symbol for each of n bytes.
SlipSymbol(type, at, n, id) == {<<type, at, id>>}
Symbol(type, at, n, id) == {<<type, a, id>> : a \in at .. at + n - 1}

Emit(bytes, syms) ==
  /\ rom' = Put(rom, writeAddr, bytes)
  /\ symbols' = symbols \union syms
  /\ writeAddr' = After(Len(bytes))

Value(rune, from, to) ==
  LET v == CASE Type(rune) = "ZERO" -> to % Page
             [] Type(rune) = "ABS" -> to
             [] OTHER -> to - (from + 2)
  IN  IF Size(rune) = 1 THEN <<Byte(v % Page)>>
      ELSE <<Byte((v % MemSize) \div Page), Byte(v % Page)>>

SlipReaches(rune, from, to) ==
  Type(rune) = "REL" /\ Size(rune) = 1 => to - (from + 2) \in -(Page \div 2) .. Page \div 2
Reaches(rune, from, to) ==
  Type(rune) = "REL" /\ Size(rune) = 1 => to - (from + 2) \in -(Page \div 2) .. Page \div 2 - 1

Placeholder(rune) == IF Size(rune) = 1 THEN <<Byte(1)>> ELSE <<Byte(0), Byte(1)>>

\* An opcode, unless the rune has none, and what it refers to.
RefAddr(rune) == writeAddr + Len(Opcode(rune))
EmitRef(rune, bytes, id) ==
  Emit(Opcode(rune) \o bytes,
       Symbol("opcode", writeAddr, Len(Opcode(rune)), 0)
         \union Symbol("ref", RefAddr(rune), Size(rune), id))
RefFits(rune) == Fits(Len(Opcode(rune)) + Size(rune))

(***************************************************************************)
(* Symbols and the references that wait for them.                          *)
(***************************************************************************)
FullName(to) == IF to.k = "local" THEN <<scope>> \o to.name ELSE to.name

Entry(name) == IF name \in DOMAIN symtab THEN symtab[name] ELSE Unknown
With(name, e) ==
  [n \in DOMAIN symtab \union {name} |-> IF n = name THEN e ELSE symtab[n]]
Referenced(name) == With(name, [Entry(name) EXCEPT !.referenced = TRUE])

NewNode == IF pool = <<>> THEN nodes + 1 ELSE Head(pool)
Alloc ==
  IF pool = <<>> THEN nodes' = nodes + 1 /\ pool' = pool
                 ELSE nodes' = nodes /\ pool' = Tail(pool)
SlipReleased(refs) == pool
Released(refs) == [i \in 1 .. Len(refs) |-> refs[Len(refs) + 1 - i].node] \o pool

SlipIdFor(e) == numLabels + 1
IdFor(e) == IF e.type = "unknown" THEN numLabels + 1 ELSE e.id

(***************************************************************************)
(* Opcodes, numbers, text and references.                                  *)
(***************************************************************************)
Bytes ==
  /\ Reads("data")
  /\ LET bytes == Token(0).bytes
     IN  /\ Fits(Len(bytes))
         /\ Emit(bytes, Symbol("data", writeAddr, Len(bytes), 0))
  /\ Consume
  /\ UNCHANGED <<success, scope, numLabels, symtab, lists>>

\* A word that is no macro's name is a call.
ReadsRef ==
  \/ Reads("ref")
  \/ Reads("word") /\ Entry(Token(0).name).type # "macro"
Rune == IF Token(0).kind = "word" THEN "" ELSE Token(0).rune
RefTo == IF Token(0).kind = "word" THEN Named(Token(0).name) ELSE Token(0).to

Waiting(addr, rune, id) == [node |-> NewNode, addr |-> addr, rune |-> rune, id |-> id]

CanRefer(to) == RefFits(Rune) /\ Reaches(Rune, RefAddr(Rune), to)
Refer(label) ==
  /\ CanRefer(label.addr)
  /\ EmitRef(Rune, Value(Rune, RefAddr(Rune), label.addr), label.id)

LambdaRef ==
  /\ ReadsRef /\ RefTo = Lambda /\ RefFits(Rune)
  /\ EmitRef(Rune, Placeholder(Rune), numLabels + 1)
  /\ numLabels' = numLabels + 1
  /\ lambdas' = <<Waiting(RefAddr(Rune), Rune, numLabels')>> \o lambdas
  /\ Alloc /\ Consume
  /\ UNCHANGED <<success, scope, symtab, atLabels>>

PopAtLabel ==
  /\ atLabels' = Tail(atLabels)
  /\ pool' = Released(<<Head(atLabels)>>)
  /\ UNCHANGED <<lambdas, nodes>>

AtRef ==
  /\ ReadsRef /\ RefTo = At /\ atLabels # <<>>
  /\ Refer(Head(atLabels))
  /\ PopAtLabel /\ Consume
  /\ UNCHANGED <<success, scope, numLabels, symtab>>

BackwardRef ==
  /\ ReadsRef /\ RefTo.k \in {"name", "local"}
  /\ LET name == FullName(RefTo)
     IN  /\ Entry(name).type = "label"
         /\ Refer(Entry(name))
         /\ symtab' = Referenced(name)
  /\ Consume
  /\ UNCHANGED <<success, scope, numLabels, lists>>

SlipForward(e, r) == [e EXCEPT !.type = "forward", !.id = r.id, !.refs = <<r>>]
Forward(e, r) == [e EXCEPT !.type = "forward", !.id = r.id, !.refs = <<r>> \o @]

ForwardRef ==
  /\ ReadsRef /\ RefTo.k \in {"name", "local"} /\ RefFits(Rune)
  /\ LET name == FullName(RefTo)
         e == Entry(name)
     IN  /\ name # <<>> /\ e.type \in {"unknown", "forward"}
         /\ EmitRef(Rune, Placeholder(Rune), IdFor(e))
         /\ numLabels' = IF e.type = "unknown" THEN numLabels + 1 ELSE numLabels
         /\ symtab' = With(name, Forward(e, Waiting(RefAddr(Rune), Rune, IdFor(e))))
  /\ Alloc /\ Consume
  /\ UNCHANGED <<success, scope, lambdas, atLabels>>
-----------------------------------------------------------------------------
(***************************************************************************)
(* Labels, the ends of lambdas and padding.                                *)
(***************************************************************************)
CanRegister(name) == name # <<>> /\ Entry(name).type \in {"unknown", "forward"}

SlipDefined(e) ==
  [e EXCEPT !.type = "label", !.id = IdFor(e), !.addr = writeAddr, !.refs = <<>>]
Defined(e) ==
  [e EXCEPT !.type = "label", !.id = IdFor(e), !.addr = writeAddr, !.refs = <<>>,
            !.referenced = e.refs # <<>>]

\* What waits for the label is filled in, one after the other, except what is too
\* far from it: an error, but one that reading goes on after.
Near(r) == Reaches(r.rune, r.addr, writeAddr)
FillIn(mem, r) ==
  IF Near(r) THEN Put(mem, r.addr, Value(r.rune, r.addr, writeAddr)) ELSE mem
FilledIn(refs) ==
  LET first[n \in 0 .. Len(refs)] == IF n = 0 THEN rom ELSE FillIn(first[n - 1], refs[n])
  IN  first[Len(refs)]

Register(name) ==
  LET e == Entry(name)
  IN  /\ CanRegister(name)
      /\ symtab' = With(name, Defined(e))
      /\ numLabels' = IF e.type = "unknown" THEN numLabels + 1 ELSE numLabels
      /\ success' = (success /\ \A i \in DOMAIN e.refs : Near(e.refs[i]))
      /\ rom' = FilledIn(e.refs)
      /\ symbols' = symbols \union Symbol("label", writeAddr, 1, IdFor(e))
      /\ pool' = Released(e.refs)
      /\ Consume
      /\ UNCHANGED <<writeAddr, lambdas, atLabels, nodes>>

GlobalLabel ==
  /\ Reads("label") /\ Token(0).to.k = "name"
  /\ Register(Token(0).to.name)
  /\ scope' = Head(Token(0).to.name)

LocalLabel ==
  /\ Reads("label") /\ Token(0).to.k = "local"
  /\ Register(FullName(Token(0).to))
  /\ UNCHANGED scope

AtLabel ==
  /\ Reads("label") /\ Token(0).to = At
  /\ numLabels' = numLabels + 1
  /\ atLabels' = <<Waiting(writeAddr, "", numLabels')>> \o atLabels
  /\ symbols' = symbols \union Symbol("label", writeAddr, 1, numLabels')
  /\ Alloc /\ Consume
  /\ UNCHANGED <<success, writeAddr, scope, symtab, lambdas, rom>>

CanClose ==
  lambdas # <<>> /\ Reaches(Head(lambdas).rune, Head(lambdas).addr, writeAddr)

LambdaClose ==
  /\ Reads("}") /\ CanClose
  /\ LET r == Head(lambdas)
     IN  /\ rom' = Put(rom, r.addr, Value(r.rune, r.addr, writeAddr))
         /\ symbols' = symbols \union Symbol("label", writeAddr, 1, r.id)
         /\ pool' = Released(<<r>>)
  /\ lambdas' = Tail(lambdas)
  /\ Consume
  /\ UNCHANGED <<success, layout, symtab, atLabels, nodes>>

Padded(n) == IF Token(0).rune = "|" THEN n ELSE After(n)

Padding ==
  /\ Reads("pad")
  /\ writeAddr' = Padded(Token(0).n)
  /\ Consume
  /\ UNCHANGED <<success, scope, numLabels, symtab, lists, rom, symbols>>

PaddingToAt ==
  /\ Reads("padTo") /\ Token(0).to = At /\ atLabels # <<>>
  /\ writeAddr' = Padded(Head(atLabels).addr)
  /\ PopAtLabel /\ Consume
  /\ UNCHANGED <<success, scope, numLabels, symtab, rom, symbols>>

PaddingTo ==
  /\ Reads("padTo") /\ Token(0).to # At
  /\ LET name == FullName(Token(0).to)
     IN  /\ Entry(name).type = "label"
         /\ writeAddr' = Padded(Entry(name).addr)
         /\ symtab' = Referenced(name)
  /\ Consume
  /\ UNCHANGED <<success, scope, numLabels, lists, rom, symbols>>
-----------------------------------------------------------------------------
(***************************************************************************)
(* Comments, macros and files.                                             *)
(***************************************************************************)
Skip ==
  /\ Reads("[")
  /\ units' = Past(1)
  /\ UNCHANGED <<input, success, comment, defining, layout, symtab, lists, including, output>>

\* A comment is read where a token is, before the body of a macro or in a
\* comment; in a body it is part of the body.
BeginComment ==
  /\ phase # "done" /\ units # <<>> /\ HasToken(0)
  /\ comment = 0 /\ defining.depth = 0
  /\ Token(0).kind = "comment"
  /\ units' = Past(1) /\ comment' = 1
  /\ UNCHANGED <<input, success, defining, layout, symtab, lists, including, output>>

InComment ==
  /\ comment > 0 /\ phase # "done" /\ HasToken(0)
  /\ units' = Past(1)
  /\ comment' = CASE Token(0) = Comment(TRUE) -> comment + 1
                  [] Token(0) = EndComment -> comment - 1
                  [] OTHER -> comment
  /\ UNCHANGED <<input, success, defining, layout, symtab, lists, including, output>>

CanDefine(name) == name # <<>> /\ Entry(name).type = "unknown"

Define ==
  /\ Reads("macro") /\ CanDefine(Token(0).name)
  /\ defining' = [name |-> Token(0).name, depth |-> 0]
  /\ symtab' = With(Token(0).name, Unknown)
  /\ units' = Past(1)
  /\ UNCHANGED <<input, success, comment, layout, lists, including, output>>

\* Of the definition of a macro: what may come before its body.
ReadsDefinition == defining # NoMacro /\ comment = 0 /\ phase # "done" /\ HasToken(0)
CanHead == Token(0) \in {Mark, Brace} \/ Token(0).kind = "comment"

DefinitionHead ==
  /\ ReadsDefinition /\ defining.depth = 0
  /\ \/ Token(0) = Mark /\ UNCHANGED <<defining, symtab>>
     \/ /\ Token(0) = Brace
        /\ defining' = [defining EXCEPT !.depth = 1]
        /\ symtab' = With(defining.name, [Unknown EXCEPT !.type = "macro"])
  /\ units' = Past(1)
  /\ UNCHANGED <<input, success, comment, layout, lists, including, output>>

DefinitionBody ==
  /\ ReadsDefinition /\ defining.depth > 0 /\ Token(0).kind # "macro"
  /\ LET depth == CASE Token(0) = Close -> defining.depth - 1
                    [] OpensInBody(Token(0)) -> defining.depth + 1
                    [] OTHER -> defining.depth
     IN  IF depth = 0
         THEN defining' = NoMacro /\ UNCHANGED symtab
         ELSE /\ defining' = [defining EXCEPT !.depth = depth]
              /\ symtab' = [symtab EXCEPT ![defining.name].body = Append(@, Token(0))]
  /\ units' = Past(1)
  /\ UNCHANGED <<input, success, comment, layout, lists, including, output>>

\* One that takes an argument takes the next token of the unit it is named in.
CanExpand(name) ==
  Depth < MaxDepth /\ ~Expanding(name) /\ (name \in TakesArg => HasToken(1))

Expand ==
  /\ Reads("word")
  /\ LET name == Token(0).name
     IN  /\ Entry(name).type = "macro" /\ CanExpand(name)
         /\ symtab' = Referenced(name)
         /\ units' = IF name \in TakesArg
                     THEN <<Unit("macro", name, Token(1))>> \o Past(2)
                     ELSE <<Unit("macro", name, NoArg)>> \o Past(1)
  /\ UNCHANGED <<input, success, comment, defining, layout, lists, including, output>>

\* A file is read once, unless it is the main one, which is not in the set.
CanOpen(file) == file \in includes \/ file \in DOMAIN files
ReadFile(file, after) ==
  /\ CanOpen(file)
  /\ includes' = includes \union {file}
  /\ units' = IF file \in includes THEN after ELSE <<File(file)>> \o after

ProcessInclude ==
  /\ Reads("include") /\ Depth < MaxDepth
  /\ LET file == Token(0).file
     IN  IF Token(0).later
         THEN /\ deferred' = IF file \in includes THEN deferred ELSE Append(deferred, file)
              /\ units' = Past(1) /\ UNCHANGED includes
         ELSE ReadFile(file, Past(1)) /\ UNCHANGED deferred
  /\ UNCHANGED <<input, success, comment, defining, layout, symtab, lists, output>>
-----------------------------------------------------------------------------
(***************************************************************************)
(* The end of a unit, errors and what is left for the end.                 *)
(***************************************************************************)
EndUnit ==
  /\ phase # "done" /\ units # <<>> /\ ~HasToken(0)
  /\ comment = 0 /\ defining = NoMacro /\ success
  /\ units' = Tail(units)
  /\ phase' = IF Tail(units) = <<>> THEN "resolve" ELSE phase
  /\ UNCHANGED <<files, success, comment, defining, layout, symtab, lists, including, output>>

\* In the middle of a comment or of a macro, or after an error.
EndUnitBadly ==
  /\ phase # "done" /\ units # <<>> /\ ~HasToken(0)
  /\ comment > 0 \/ defining # NoMacro \/ ~success
  /\ Fail

CanPadTo(to) == IF to = At THEN atLabels # <<>> ELSE Entry(FullName(to)).type = "label"

CanReferTo(to) ==
  CASE to = Lambda -> RefFits(Rune)
    [] to = At -> atLabels # <<>> /\ CanRefer(Head(atLabels).addr)
    [] OTHER ->
         LET name == FullName(to)
         IN  /\ name # <<>> /\ RefFits(Rune)
             /\ \/ Entry(name).type \in {"unknown", "forward"}
                \/ Entry(name).type = "label" /\ CanRefer(Entry(name).addr)

Refuse ==
  /\ \/ Reads(")")
     \/ Reads("data") /\ ~Fits(Len(Token(0).bytes))
     \/ ReadsRef /\ ~CanReferTo(RefTo)
     \/ Reads("label") /\ Token(0).to # At /\ ~CanRegister(FullName(Token(0).to))
     \/ Reads("}") /\ ~CanClose
     \/ Reads("padTo") /\ ~CanPadTo(Token(0).to)
     \/ Reads("macro") /\ ~CanDefine(Token(0).name)
     \/ ReadsDefinition /\ defining.depth = 0 /\ ~CanHead
     \/ ReadsDefinition /\ defining.depth > 0 /\ Token(0).kind = "macro"
     \/ Reads("word") /\ ~ReadsRef /\ ~CanExpand(Token(0).name)
     \/ /\ Reads("include")
        /\ Depth < MaxDepth => ~Token(0).later /\ ~CanOpen(Token(0).file)
  /\ Fail

ReadDeferred ==
  /\ phase = "resolve" /\ units = <<>> /\ deferred # <<>>
  /\ ReadFile(Head(deferred), <<>>)
  /\ deferred' = Tail(deferred)
  /\ UNCHANGED <<input, success, comment, defining, layout, symtab, lists, output>>

MissDeferred ==
  /\ phase = "resolve" /\ units = <<>> /\ deferred # <<>>
  /\ ~CanOpen(Head(deferred))
  /\ Fail

Unreferenced ==
  {name \in DOMAIN symtab :
     /\ symtab[name].type # "forward" /\ ~symtab[name].referenced
     /\ name \notin Uppercased
     /\ ~(symtab[name].type = "label" /\ symtab[name].addr = Page)}

Finish ==
  /\ phase = "resolve" /\ units = <<>> /\ deferred = <<>>
  /\ phase' = "done"
  /\ success' = (success /\ lambdas = <<>>
                   /\ \A name \in DOMAIN symtab : symtab[name].type \in {"macro", "label"})
  /\ warned' = Unreferenced
  /\ UNCHANGED <<files, reading, layout, symtab, lists, including, rom, symbols>>

Done == phase = "done" /\ UNCHANGED vars

Next ==
  \/ Bytes \/ LambdaRef \/ AtRef \/ BackwardRef \/ ForwardRef
  \/ GlobalLabel \/ LocalLabel \/ AtLabel \/ LambdaClose
  \/ Padding \/ PaddingToAt \/ PaddingTo
  \/ Skip \/ BeginComment \/ InComment
  \/ Define \/ DefinitionHead \/ DefinitionBody \/ Expand \/ ProcessInclude
  \/ EndUnit \/ EndUnitBadly \/ Refuse
  \/ ReadDeferred \/ MissDeferred \/ Finish \/ Done

Spec == Init /\ [][Next]_vars
-----------------------------------------------------------------------------
(***************************************************************************)
(* Properties; what the whole ought to be is in AsmLayout.                 *)
(***************************************************************************)
Pending ==
  [node : Nat \ {0}, addr : 0 .. MemSize - 1, rune : Runes, id : Nat \ {0}]

\* Every variable has its type.
TypeOK ==
  /\ phase \in {"pass", "resolve", "done"}
  /\ {success} \subseteq BOOLEAN
  /\ comment \in Nat
  /\ writeAddr \in 0 .. MemSize - 1
  /\ {numLabels, nodes} \subseteq Nat
  /\ \A i \in DOMAIN units : units[i].kind \in {"file", "macro"} /\ units[i].pos \in Nat \ {0}
  /\ \A name \in DOMAIN symtab :
       /\ symtab[name].type \in {"unknown", "macro", "label", "forward"}
       /\ symtab[name].addr \in 0 .. MemSize - 1
       /\ symtab[name].refs \in Seq(Pending)
  /\ lambdas \in Seq(Pending) /\ atLabels \in Seq(Pending)
  /\ DOMAIN rom \subseteq Page .. MemSize - 1

\* The lists of references by node, and where in them a node is.
In(refs) == [i \in 1 .. Len(refs) |-> refs[i].node]
Lists ==
  {<<<<"lambda">>, In(lambdas)>>, <<<<"at">>, In(atLabels)>>, <<<<"pool">>, pool>>}
    \union {<<<<"refs", name>>, In(symtab[name].refs)>> : name \in DOMAIN symtab}
Places(n) == UNION {{<<l[1], i>> : i \in {j \in DOMAIN l[2] : l[2][j] = n}} : l \in Lists}

\* A reference that was allocated is in one place of one list or is free: never
\* lost, and never given out while something still waits in it.
NodesOwned == \A n \in 1 .. nodes : Cardinality(Places(n)) = 1

\* Every byte of the image has a symbol (doc/asm.md:24), whatever padding and
\* what is filled in later do.
EveryByteMapped ==
  \A a \in DOMAIN rom : \E s \in symbols : s[1] # "label" /\ s[2] = a

\* A number is that of one label; a name that is defined has the number and the
\* address of its label; and in a program that is accepted, every reference has
\* the number of a label, whether it came before the label or after.
NumbersAgree ==
  LET labels == {s \in symbols : s[1] = "label"}
  IN  /\ \A s, t \in labels : s[3] = t[3] => s = t
      /\ \A name \in DOMAIN symtab :
           symtab[name].type = "label" =>
             <<"label", symtab[name].addr, symtab[name].id>> \in labels
      /\ phase = "done" /\ success =>
           \A s \in symbols : s[1] = "ref" => \E label \in labels : label[3] = s[3]
=============================================================================
