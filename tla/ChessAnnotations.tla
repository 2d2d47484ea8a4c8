-------------------------- MODULE ChessAnnotations --------------------------
(***************************************************************************)
(* How chess, the static checker (src/src/asm/chess.c), reads what the     *)
(* assembler tells it: the symbols of a program, one after the other, in   *)
(* which the comments are symbols too.  A comment with an arrow after a    *)
(* label gives a routine its signature, one with an exclamation mark after *)
(* an instruction casts what that leaves on the stacks, and any other is   *)
(* prose: what it is shows only when some of it was read, so its tokens    *)
(* are kept until then.                                                    *)
(*                                                                         *)
(* A token is a record of what it means and of how many characters it has; *)
(* reports, which stop nothing, are left out.  An operator named Slip...   *)
(* is the next one as a plausible mistake would leave it; the              *)
(* specification does not use it.                                          *)
(***************************************************************************)
EXTENDS UxnWords, FiniteSets

CONSTANTS
  MaxArgs,     \* BUXN_CHESS_MAX_ARGS, of one stack on one side of a signature
  MaxArgLen,   \* BUXN_CHESS_MAX_ARG_LEN, for which tmp_buf has room in each token
  Programs     \* bound of the model: sets of programs, which are sequences of symbols

ASSUME MaxArgsAssumption == MaxArgs \in Nat /\ MaxArgLen \in Nat

MaxTokens == MaxArgs * 4 + 1
MaxChars == MaxArgLen * MaxTokens

(***************************************************************************)
(* Values: what is known of one, as a set of the bits of semantics; its    *)
(* value if it is a constant; its nominal type, the characters of which    *)
(* may begin with those of another; and, for half of a short, the node     *)
(* that has the whole.                                                     *)
(***************************************************************************)
Semantics == {"short", "const", "address", "return", "routine", "nominal", "forked", "hi", "lo"}

Val(semantics, v) ==
  [sem |-> semantics, v |-> v, type |-> <<>>, whole |-> 0, split |-> 0]

ValueError == Val({}, 0)

Sized(w) == IF w = 2 THEN {"short"} ELSE {}

ValueSize(val) == IF "short" \in val.sem THEN 2 ELSE 1

Bytes(vals) == Total([i \in DOMAIN vals |-> ValueSize(vals[i])])[Len(vals)]

Empty == [s \in Stacks |-> <<>>]

(***************************************************************************)
(* Tokens of comments: what has a mark of its own, or the name of a value, *)
(* perhaps with a star or in brackets.                                     *)
(***************************************************************************)
Arrows == {"--", "->"}

Mark(text) ==
  [mark |-> text, name |-> <<>>, len |-> IF text \in Arrows THEN 2 ELSE 1,
   short |-> FALSE, address |-> FALSE, upper |-> FALSE]

\* The characters of a name, or longer pieces of it none of which begins another.
Names == Seq(STRING)

Tokens ==
  [mark : Arrows \union {"", "(", ")", ".", "!"}, name : Names, len : Nat,
   short : BOOLEAN, address : BOOLEAN, upper : BOOLEAN]

\* What the assembler reports: src is where in the source a symbol is.
CodeOf(types, bytes) ==
  [t : types, addr : 0 .. Short - 1, src : Seq(Nat), name : Names, byte : bytes]
Reported ==
  [t : {"comment"}, id : Nat, tok : Tokens]
    \union [t : {"label"}, addr : 0 .. Short - 1, name : Names]
    \union [t : {"macro", "other"}]
    \union CodeOf({"opcode"}, Opcodes)
    \union CodeOf({"ref", "number", "text"}, 0 .. Byte - 1)

Closes(sym) == sym.t = "comment" /\ sym.id = 1 /\ sym.tok.mark = ")"

\* A comment goes on until it is closed.  In a program where one is not, the
\* assembler fails and buxn_chess_end is not called.
Continues(prog, i) ==
  prog[i].t = "comment" /\ ~Closes(prog[i]) =>
    i < Len(prog) /\ prog[i + 1].t = "comment" /\ prog[i + 1].id > 0

ASSUME ProgramsAssumption ==
  \A family \in Programs :
     family \subseteq {prog \in Seq(Reported) : \A i \in 1 .. Len(prog) : Continues(prog, i)}

ParseValue(tok) ==
  LET nominal == tok.upper /\ ~tok.address
  IN  [Val((IF tok.short THEN {"short"} ELSE {})
             \union (IF tok.address THEN {"address"} ELSE {})
             \union (IF nominal THEN {"nominal"} ELSE {}), 0)
       EXCEPT !.type = IF nominal THEN tok.name ELSE <<>>]

NoSignature == [type |-> "vector", in |-> Empty, out |-> Empty]

NoInfo ==
  [routine |-> FALSE, sig |-> NoSignature, marked |-> FALSE, terminated |-> FALSE, error |-> FALSE]
-----------------------------------------------------------------------------
VARIABLES
  program, pos,   \* what the assembler reports, and the next of it
  rom, symbols,   \* by address
  last,           \* the symbol the last byte belongs to
  current,        \* what a comment is about: has_current_symbol, its type, addr
  anno,           \* the comment being read
  infos,          \* by address: what is known of labels
  casts,          \* by address: what an instruction leaves is cast to
  list            \* verification_list

source == <<program, pos>>
assembled == <<rom, symbols, last>>
parsing == <<current, anno>>
tables == <<infos, casts, list>>

NoSymbol == [id |-> 0, t |-> "", src |-> <<>>, name |-> <<>>]
Nothing == [has |-> FALSE, t |-> "", addr |-> 0]
NoComment == [handler |-> "none", tokens |-> <<>>, place |-> <<"in", "ws">>, sealed |-> FALSE,
              found |-> NoSignature]

InitAnnotations ==
  /\ \E family \in Programs : program \in family
  /\ pos = 1
  /\ rom = <<>> /\ symbols = <<>> /\ last = NoSymbol
  /\ current = Nothing /\ anno = NoComment
  /\ infos = <<>> /\ casts = <<>> /\ list = <<>>

-----------------------------------------------------------------------------
(***************************************************************************)
(* A routine that has to be verified: what it finds on the stacks.         *)
(***************************************************************************)
Return == Val({"short", "address", "return"}, 0)

SlipEntry(addr, sig) ==   \* the return address is on top of what is passed
  [info |-> addr, at |-> addr,
   st |-> [ws |-> sig.in["ws"],
           rs |-> sig.in["rs"] \o (IF sig.type = "subroutine" THEN <<Return>> ELSE <<>>)]]

Entry(addr, sig) ==
  [info |-> addr, at |-> addr,
   st |-> [ws |-> sig.in["ws"],
           rs |-> (IF sig.type = "subroutine" THEN <<Return>> ELSE <<>>) \o sig.in["rs"]]]

Enqueued(known, pending, addr, sig) ==
  [infos |-> [known EXCEPT ![addr].marked = TRUE], list |-> <<Entry(addr, sig)>> \o pending]

-----------------------------------------------------------------------------
(***************************************************************************)
(* The second stage: what has been found to be a signature or a cast.  An  *)
(* argument after the seal is a mistake, but still becomes part of it.     *)
(***************************************************************************)
Killed(a) == [a EXCEPT !.handler = "none"]

SlipSealed(a) == a

Sealed(a) == IF a.sealed THEN Killed(a) ELSE a

AddArgument(a, tok) ==
  IF Len(a.found[a.place[1]][a.place[2]]) < MaxArgs
  THEN [a EXCEPT !.found[a.place[1]][a.place[2]] = Append(@, ParseValue(tok))]
  ELSE Killed(a)

ToReturnStack(a) ==
  IF a.place[2] = "ws" THEN [a EXCEPT !.place[2] = "rs"] ELSE Killed(a)

ParseSignature2(a, tok) ==
  LET b == Sealed(a)
  IN  CASE tok.mark = "." -> ToReturnStack(b)
        [] tok.mark = "!" -> [b EXCEPT !.sealed = TRUE]
        [] tok.mark \in Arrows ->
             IF b.place[1] = "in"
             THEN [b EXCEPT !.place = <<"out", "ws">>,
                            !.found.type = IF tok.mark = "--" THEN "subroutine" ELSE "vector"]
             ELSE Killed(b)
        [] OTHER -> AddArgument(b, tok)

ParseCast2(a, tok) ==
  LET b == Sealed(a)
  IN  CASE tok.mark = "." -> ToReturnStack(b)
        [] tok.mark = "!" -> [b EXCEPT !.sealed = TRUE]
        [] tok.mark \in Arrows -> Killed(b)
        [] OTHER -> AddArgument(b, tok)

Stage2(a, tok) ==
  CASE a.handler = "signature2" -> ParseSignature2(a, tok)
    [] a.handler = "cast2" -> ParseCast2(a, tok)
    [] OTHER -> a

(***************************************************************************)
(* The first stage: the tokens before the one that says what the comment   *)
(* is are kept, and replayed with it.                                      *)
(***************************************************************************)
Replayed(a, stage2, tok) ==
  LET all == Append(a.tokens, tok)
      after[n \in 0 .. Len(all)] ==
        IF n = 0
        THEN [a EXCEPT !.handler = stage2, !.place = <<"in", "ws">>, !.sealed = FALSE,
                       !.found = NoSignature]
        ELSE Stage2(after[n - 1], all[n])
  IN  after[Len(all)]

\* There is room for the first n tokens, each with a character that ends it.
HasRoom(toks, n) ==
  n <= MaxTokens /\ Total([i \in DOMAIN toks |-> toks[i].len + 1])[n] <= MaxChars

Parse(a, tok, triggers, stage2) ==
  IF triggers THEN Replayed(a, stage2, tok)
  ELSE IF HasRoom(Append(a.tokens, tok), Len(a.tokens) + 1) THEN [a EXCEPT !.tokens = Append(@, tok)]
  ELSE Killed(a)

ParseSignature(a, tok) == Parse(a, tok, tok.mark \in Arrows, "signature2")

ParseCast(a, tok) == Parse(a, tok, tok.mark = "!", "cast2")

Handled(a, tok) ==
  CASE a.handler = "signature" -> ParseSignature(a, tok)
    [] a.handler = "cast" -> ParseCast(a, tok)
    [] OTHER -> Stage2(a, tok)

-----------------------------------------------------------------------------
(***************************************************************************)
(* One action per kind of symbol.                                          *)
(***************************************************************************)
Reads(t) ==
  /\ pos <= Len(program) /\ program[pos].t = t
  /\ pos' = pos + 1 /\ UNCHANGED program

OpenComment ==
  /\ Reads("comment") /\ program[pos].id = 0
  /\ anno' = IF program[pos].tok.mark = "(" /\ current.has
             THEN [NoComment EXCEPT !.handler =
                     IF current.t = "label" THEN "signature" ELSE "cast"]
             ELSE anno
  /\ UNCHANGED <<assembled, current, tables>>

\* What follows a comment inside a comment is no longer read.
InComment ==
  /\ Reads("comment") /\ program[pos].id > 0 /\ ~Closes(program[pos])
  /\ anno' = IF program[pos].id = 1 THEN Handled(anno, program[pos].tok) ELSE Killed(anno)
  /\ UNCHANGED <<assembled, current, tables>>

\* The first signature an address has, and the first cast, is the one it keeps.
Signed2 == anno.handler = "signature2" /\ ~infos[current.addr].routine

Cast2 == anno.handler = "cast2" /\ current.addr \notin DOMAIN casts

CloseComment ==
  /\ Reads("comment") /\ Closes(program[pos])
  /\ anno' = Killed(anno)
  /\ LET known == [infos EXCEPT ![current.addr].routine = TRUE, ![current.addr].sig = anno.found]
         queued == Enqueued(known, list, current.addr, anno.found)
     IN  /\ infos' = IF ~Signed2 THEN infos ELSE IF anno.sealed THEN known ELSE queued.infos
         /\ list' = IF Signed2 /\ ~anno.sealed THEN queued.list ELSE list
  /\ casts' = IF Cast2
              THEN [a \in DOMAIN casts \union {current.addr} |->
                      IF a = current.addr THEN anno.found.in ELSE casts[a]]
              ELSE casts
  /\ UNCHANGED <<assembled, current>>

Known(addr) ==
  [a \in DOMAIN infos \union {addr} |-> IF a \in DOMAIN infos THEN infos[a] ELSE NoInfo]

ReadLabel ==
  /\ Reads("label")
  /\ current' = [has |-> TRUE, t |-> "label", addr |-> program[pos].addr]
  /\ anno' = Killed(anno)
  /\ infos' = Known(program[pos].addr)
  /\ UNCHANGED <<assembled, casts, list>>

\* A label with a generated name, and a use of a macro.
ReadOther ==
  /\ Reads("other")
  /\ UNCHANGED <<assembled, parsing, tables>>

\* The bytes of one token are one symbol, unless something of another type is
\* between them.
Symbol(sym) ==
  IF sym.t = last.t /\ sym.src = last.src THEN last
  ELSE [id |-> last.id + 1, t |-> sym.t, src |-> sym.src, name |-> sym.name]

ReadCode(t) ==
  /\ Reads(t)
  /\ LET sym == program[pos]
         set(f, v) == [a \in DOMAIN f \union {sym.addr} |-> IF a = sym.addr THEN v ELSE f[a]]
     IN  /\ last' = Symbol(sym)
         /\ symbols' = set(symbols, last')
         /\ rom' = set(rom, sym.byte)
         /\ IF t = "opcode"
            THEN /\ current' = [has |-> TRUE, t |-> "opcode", addr |-> sym.addr]
                 /\ anno' = Killed(anno)
            ELSE UNCHANGED parsing
  /\ UNCHANGED tables

ReadMacro ==
  /\ Reads("macro")
  /\ current' = [current EXCEPT !.has = FALSE]
  /\ UNCHANGED <<assembled, anno, tables>>

HandleSymbol ==
  \/ OpenComment \/ InComment \/ CloseComment
  \/ ReadLabel \/ ReadMacro \/ ReadOther
  \/ \E t \in {"opcode", "ref", "number", "text"} : ReadCode(t)
=============================================================================
