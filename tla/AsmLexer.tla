------------------------------ MODULE AsmLexer -----------------------------
(***************************************************************************)
(* The tokenizer of the assembler (src/src/asm/asm.c:302-612): the tokens  *)
(* of a file and where in it they are.  Characters are read one at a time, *)
(* with one that may be held back; a step reads a character, or the two of *)
(* a line end, or a quote and the space after it.                          *)
(*                                                                         *)
(* A read of the file may fail, at any time.                               *)
(*                                                                         *)
(* An operator named Slip... is the next one as a plausible mistake would  *)
(* leave it; the specification does not use it.                            *)
(***************************************************************************)
EXTENDS Integers, Sequences, FiniteSets

CONSTANTS
  Inputs,       \* bound of the model: what may be in the file
  MaxTokenLen,  \* BUXN_ASM_MAX_TOKEN_LEN
  MaxTextLen,   \* BUXN_ASM_MAX_LONG_STRING_LEN
  MaxFailures   \* bound of the model: how many reads fail

Separators == {"space", "CR", "LF"}
Chars == Separators \union {"quote", "x", "NUL"}

ASSUME InputsAssumption == \A input \in Inputs : input \in Seq(Chars)
ASSUME LengthAssumption == {MaxTokenLen, MaxTextLen} \subseteq Nat \ {0}

VARIABLES
  file,
  io,       \* how much was read of it, the character held back, how many reads failed
  pos,
  mode,     \* "between" tokens, in a "token", in a "text", "done"
  success,
  text, start,   \* the token being read
  tokens

vars == <<file, io, pos, mode, success, text, start, tokens>>

Init ==
  /\ file \in Inputs
  /\ io = [next |-> 1, held |-> <<>>, failures |-> 0]
  /\ pos = [line |-> 1, col |-> 1, byte |-> 0] /\ start = pos
  /\ mode = "between" /\ success = TRUE
  /\ text = <<>> /\ tokens = <<>>

\* A failure is held back as one, and the caller given a character it is not.
Peek(i, fails) ==
  IF i.held # <<>> THEN [ch |-> Head(i.held), io |-> i]
  ELSE IF fails /\ i.failures < MaxFailures
  THEN [ch |-> "NUL", io |-> [i EXCEPT !.held = <<"ERROR">>, !.failures = @ + 1]]
  ELSE IF i.next > Len(file) THEN [ch |-> "EOF", io |-> [i EXCEPT !.held = <<"EOF">>]]
  ELSE [ch |-> file[i.next],
        io |-> [i EXCEPT !.held = <<file[i.next]>>, !.next = @ + 1]]

Consumed(i) == [i EXCEPT !.held = <<>>]
SlipNextLine(p) == [p EXCEPT !.line = @ + 1, !.col = 2]
NextLine(p) == [p EXCEPT !.line = @ + 1, !.col = 1]

\* fails says which of the reads this takes fail.
Get(fails) ==
  LET first == Peek(io, fails[1])
      rest == Consumed(first.io)
      second == Peek(rest, fails[2])
      there == [pos EXCEPT !.byte = @ + 1, !.col = @ + 1]
  IN  CASE first.ch = "LF" -> [ch |-> "LF", io |-> rest, pos |-> NextLine(there)]
        [] first.ch = "CR" ->
             [ch |-> second.ch, pos |-> NextLine(there),
              io |-> IF second.ch = "LF" THEN Consumed(second.io) ELSE second.io]
        [] OTHER -> [ch |-> first.ch, io |-> rest, pos |-> there]

Reads(i, p) == io' = i /\ pos' = p

Stop(i, p, ok) ==
  /\ mode' = "done" /\ success' = (ok /\ i.failures = 0) /\ Reads(i, p)
  /\ UNCHANGED <<file, text, start, tokens>>

Between(fails) ==
  LET g == Get(fails)
      after == Peek(g.io, fails[3])
  IN  /\ mode = "between"
      /\ CASE g.ch \in {"ERROR", "EOF"} -> Stop(g.io, g.pos, TRUE)
           [] g.ch \in Separators ->
                Reads(g.io, g.pos) /\ UNCHANGED <<file, mode, success, text, start, tokens>>
           [] g.ch = "quote" /\ after.ch = "space" ->
                /\ mode' = "text" /\ text' = <<"quote">> /\ start' = pos
                /\ Reads(Consumed(after.io),
                         [g.pos EXCEPT !.byte = @ + 1, !.col = @ + 1])
                /\ UNCHANGED <<file, success, tokens>>
           [] OTHER ->
                /\ mode' = "token" /\ text' = <<g.ch>> /\ start' = pos
                /\ Reads(IF g.ch = "quote" THEN after.io ELSE g.io, g.pos)
                /\ UNCHANGED <<file, success, tokens>>

EndToken(g) ==
  /\ mode' = "between"
  /\ tokens' = Append(tokens, [text |-> text, start |-> start, end |-> pos])
  /\ Reads(g.io, g.pos)
  /\ UNCHANGED <<file, success, text, start>>

Limit(kind) == IF kind = "token" THEN MaxTokenLen ELSE MaxTextLen

\* Another character of the token or text; one too many is an error.
More(g) ==
  IF Len(text) < Limit(mode)
  THEN /\ text' = Append(text, g.ch) /\ Reads(g.io, g.pos)
       /\ UNCHANGED <<file, mode, success, start, tokens>>
  ELSE Stop(g.io, g.pos, FALSE)

InToken(fails) ==
  LET g == Get(fails)
  IN  /\ mode = "token"
      /\ CASE g.ch = "ERROR" -> Stop(g.io, g.pos, TRUE)
           [] g.ch \in Separators \union {"EOF"} -> EndToken(g)
           [] OTHER -> More(g)

InText(fails) ==
  LET g == Get(fails)
  IN  /\ mode = "text"
      /\ CASE g.ch \in {"ERROR", "EOF"} -> Stop(g.io, g.pos, FALSE)
           [] g.ch = "quote" -> EndToken(g)
           [] OTHER -> More(g)

Done == mode = "done" /\ UNCHANGED vars

Next ==
  \/ \E fails \in [1 .. 3 -> BOOLEAN] : Between(fails) \/ InToken(fails) \/ InText(fails)
  \/ Done

Spec == Init /\ [][Next]_vars
-----------------------------------------------------------------------------
(***************************************************************************)
(* Properties.                                                             *)
(***************************************************************************)

NoLoneCR == \A i \in DOMAIN file : file[i] = "CR" => i < Len(file) /\ file[i + 1] = "LF"

\* Where the token that begins at i ends, what is after its last character and
\* its text; a text begins with a quote and a space and goes on to a quote.
Ends(i, S) == {j \in i .. Len(file) + 1 : j = Len(file) + 1 \/ file[j] \in S}
First(S) == CHOOSE j \in S : \A k \in S : j <= k
IsText(i) == file[i] = "quote" /\ i < Len(file) /\ file[i + 1] = "space"
TokenEnd(i) == First(IF IsText(i) THEN Ends(i + 2, {"quote"}) ELSE Ends(i, Separators))

\* In a text the end of a line is one character; so much of it there is up to n.
Joined(i) ==
  LET upTo[n \in 0 .. Len(file)] ==
        IF n <= i + 1 THEN <<"quote">>
        ELSE IF file[n] = "CR" THEN upTo[n - 1] ELSE Append(upTo[n - 1], file[n])
  IN  upTo
TokenText(i) ==
  IF IsText(i) THEN Joined(i)[TokenEnd(i) - 1] ELSE SubSeq(file, i, TokenEnd(i) - 1)
TokenOK(i) ==
  /\ IsText(i) => TokenEnd(i) <= Len(file)
  /\ Len(TokenText(i)) <= IF IsText(i) THEN MaxTextLen ELSE MaxTokenLen

\* Lines and columns are counted from 1.
LineEnds(i) == {j \in 1 .. i - 1 : file[j] = "LF"}
Line(i) == 1 + Cardinality(LineEnds(i))
Column(i) == i - CHOOSE j \in LineEnds(i) \union {0} : \A k \in LineEnds(i) : k <= j

\* Where the tokens from each character on begin.
Starts ==
  LET from[i \in 1 .. Len(file) + 2] ==
        IF i > Len(file) THEN <<>>
        ELSE IF file[i] \in Separators THEN from[i + 1]
        ELSE <<i>> \o from[TokenEnd(i) + 1]
  IN  from

\* The tokens of a file are what its separators separate, texts aside, each at
\* its line and column, and only what is too long or does not end is an error;
\* unless a line ends with a lone CR.  A read that fails is never taken for the
\* end of the file.
TokensExact ==
  mode = "done" /\ NoLoneCR =>
    LET starts == Starts[1]
    IN  /\ success = (io.failures = 0 /\ \A k \in DOMAIN starts : TokenOK(starts[k]))
        /\ success =>
             /\ Len(tokens) = Len(starts)
             /\ \A k \in DOMAIN starts :
                  /\ tokens[k].text = TokenText(starts[k])
                  /\ tokens[k].start.line = Line(starts[k])
                  /\ tokens[k].start.col = Column(starts[k])
                  /\ tokens[k].end.line = Line(TokenEnd(starts[k]))
                  /\ tokens[k].end.col = Column(TokenEnd(starts[k]))

\* The byte offset of a token is where it is in the file: doc/asm.md:23 says
\* "precise source location (line, column and byte offset)".
ByteOffsets ==
  mode = "done" /\ success /\ NoLoneCR =>
    LET starts == Starts[1]
    IN  \A k \in DOMAIN tokens : tokens[k].start.byte = starts[k] - 1
=============================================================================
