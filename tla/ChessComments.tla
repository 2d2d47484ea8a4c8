---------------------------- MODULE ChessComments ----------------------------
(***************************************************************************)
(* What the comments of a program mean.  One that opens with a lone        *)
(* parenthesis is read as a whole, up to the one that closes it: as the    *)
(* signature of the label it is about, as the cast of an instruction, or   *)
(* as prose.  The code finds this out token by token, while symbols of     *)
(* other kinds come between the comments.                                  *)
(***************************************************************************)
EXTENDS Chess

Opens(i) == program[i].t = "comment" /\ program[i].id = 0 /\ program[i].tok.mark = "("

\* Where a comment closes, what it says until there, and whether there is
\* another comment in it.
CommentEnd(i) ==
  CHOOSE j \in i + 1 .. Len(program) :
    Closes(program[j]) /\ \A k \in i + 1 .. j - 1 : ~Closes(program[k])

Inside(i) == [k \in 1 .. CommentEnd(i) - i - 1 |-> program[i + k].tok]

Nests(i) == \E k \in i + 1 .. CommentEnd(i) - 1 : program[k].id # 1

\* The symbol a comment is about: no other one lies between that could be.
IsAbout(i, j) ==
  /\ j < i /\ program[j].t \in {"label", "opcode"}
  /\ \A k \in j + 1 .. i - 1 : program[k].t \notin {"label", "opcode", "macro"}

-----------------------------------------------------------------------------
(***************************************************************************)
(* What a comment says.                                                    *)
(***************************************************************************)
\* Where the tokens of a mark are, and the values of the others.
At(toks, marks) == {i \in DOMAIN toks : toks[i].mark \in marks}
Values(toks) == [i \in DOMAIN toks |-> ParseValue(toks[i])]

\* One side of a signature or a cast: at most one dot, between the stacks.
Sides(toks) ==
  {sides \in {<<SubSeq(toks, 1, i - 1), SubSeq(toks, i + 1, Len(toks))>> :
                i \in At(toks, {"."})} \union {<<toks, <<>>>>} :
     \A s \in {1, 2} : At(sides[s], {".", "!", "--", "->"}) = {} /\ Len(sides[s]) <= MaxArgs}

OnStacks(sides) == [ws |-> Values(sides[1]), rs |-> Values(sides[2])]

\* The signatures a text is: without or with a seal at its end.  There has to be
\* room for what is before the arrow.
Signatures(toks) ==
  LET sealed == toks # <<>> /\ Last(toks).mark = "!"
      text == IF sealed THEN Front(toks) ELSE toks
  IN  UNION {{[sealed |-> sealed,
               sig |-> [type |-> IF text[i].mark = "--" THEN "subroutine" ELSE "vector",
                        in |-> OnStacks(in), out |-> OnStacks(out)]] :
                in \in Sides(SubSeq(text, 1, i - 1)),
                out \in Sides(SubSeq(text, i + 1, Len(text)))} :
               i \in {k \in At(text, Arrows) : HasRoom(toks, k - 1)}}

Casts(toks) ==
  IF toks = <<>> \/ Last(toks).mark # "!" \/ ~HasRoom(toks, Len(toks) - 1) THEN {}
  ELSE {OnStacks(sides) : sides \in Sides(Front(toks))}

\* After a label a comment may be its signature, after an instruction a cast.
Meanings(t, toks) == IF t = "label" THEN Signatures(toks) ELSE Casts(toks)

\* What the comments about the symbols of a type at an address say, in order.
Readings(t, addr) ==
  LET is == {i \in DOMAIN program :
               /\ Opens(i) /\ ~Nests(i) /\ Meanings(t, Inside(i)) # {}
               /\ \E j \in DOMAIN program :
                    IsAbout(i, j) /\ program[j].t = t /\ program[j].addr = addr}
  IN  [said |-> is # {},
       first |-> IF is = {} THEN {}
                 ELSE Meanings(t, Inside(CHOOSE i \in is : \A j \in is : i <= j))]

Addresses(t) == {program[i].addr : i \in {j \in DOMAIN program : program[j].t = t}}

(***************************************************************************)
(* An address has the signature, or the cast, of the first comment about a *)
(* symbol there that is one as a whole, whatever came before it, and is to *)
(* be verified unless it is sealed.  The code finds this out token by      *)
(* token, having kept those it did not understand yet                      *)
(* (buxn_chess_parse, chess.c).                                            *)
(***************************************************************************)
AnnotationsExact ==
  phase = "pass" /\ pos > Len(program) =>
    /\ \A a \in Addresses("label") :
         LET r == Readings("label", a)
         IN  /\ infos[a].routine = r.said
             /\ r.said => r.first = {[sealed |-> ~infos[a].marked, sig |-> infos[a].sig]}
             /\ infos[a].marked = \E i \in DOMAIN list : list[i].info = a
    /\ \A a \in Addresses("opcode") :
         LET r == Readings("opcode", a)
         IN  /\ (a \in DOMAIN casts) = r.said
             /\ r.said => r.first = {casts[a]}
=============================================================================
