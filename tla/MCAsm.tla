------------------------------- MODULE MCAsm -------------------------------
(***************************************************************************)
(* The programs TLC assembles: every sequence, up to a length, of the      *)
(* tokens that make one part of the assembler interesting.  Page is 8: a   *)
(* one-byte relative reference reaches 4 back and 3 on.                    *)
(***************************************************************************)
EXTENDS AsmLayout, SequencesExt

a == <<"a">>
Ax == <<"A", "x">>
m == <<"m">>
n == <<"n">>
taking == <<"m:">>
f == <<"f.tal">>
g == <<"g.tal">>
main == <<"main.tal">>

toA == Named(a)
toX == Local(<<"x">>)
one == Data(<<Byte(1)>>)
two == Data(<<Byte(1), Byte(2)>>)

UpTo(k, S) == UNION {[1 .. i -> S] : i \in 0 .. k}
Joined(k, S) == {FlattenSeq(blocks) : blocks \in [1 .. k -> S]}
Alone(S) == {main :> p : p \in S}

\* Labels before and after what refers to them, in scopes, near and far.
References ==
  {Label(toA), Label(Named(Ax)), Label(toX), Ref(";", toA), Ref(",", toA), Ref("_", toX),
   Ref("", toX), Word(a), Pad("$", 3), PadTo("|", toA), two}

\* The zero page, the end of the memory and every other kind of reference.
Placements ==
  {Label(toA), Label(Named(<<>>)), Ref("=", toA), Ref("-", toA), Ref("!", toA), Ref(".", toX),
   Pad("|", 2), Pad("|", 61), PadTo("$", toA), one}

Lambdas ==
  {Brace, Ref(",", Lambda), Ref(";", Lambda), Close, Label(At), Ref("?", At), PadTo("|", At),
   Ref("_", At), two}

\* Definitions of macros, good and bad, and what may be around them.
Define_(name, body) == <<MacroDef(name), Brace>> \o body \o <<Close>>
Bodies ==
  {<<>>, <<Label(toA)>>, <<Word(n)>>, <<Word(m)>>, <<Brace, one>>,
   <<Comment(TRUE), Close>>, <<Mark, Ref("?", Lambda), two, Close>>}
Takings == {<<Word(Arg)>>, <<Ref(";", Named(Arg)), Label(Named(Arg))>>, <<Word(n), Word(Arg)>>}
Calls ==
  {<<Word(m)>>, <<Word(taking)>>, <<Word(taking), Word(a)>>, <<Word(taking), two>>,
   <<Word(taking), Word(m)>>, <<Ref("_", Named(m))>>, <<Label(Named(m))>>, <<Label(toA)>>,
   <<Close>>, <<EndComment>>, <<Word(Arg)>>}
Heads ==
  {<<Mark, Comment(FALSE), Comment(TRUE), EndComment, EndComment, Brace, one, Close>>,
   <<Comment(FALSE)>>, <<one>>, <<Brace>>, <<Brace, MacroDef(n), Close>>, <<>>}
Macros ==
  {Define_(m, b) \o c \o d : b \in Bodies, c \in Calls, d \in Calls}
    \union {Define_(n, b) \o Define_(taking, t) \o c :
              b \in Bodies, t \in Takings, c \in Joined(2, Calls)}
    \union {Define_(n, <<one>>) \o Define_(m, b) \o c \o d : b \in Bodies, c, d \in Calls}
    \union {<<MacroDef(m)>> \o h \o c : h \in Heads, c \in Calls}

\* Files that include each other, themselves and the main one.
Includes ==
  {Include(f, FALSE), Include(f, TRUE), Include(g, TRUE), Include(main, FALSE),
   Include(<<"missing">>, TRUE), Label(toA), Word(m)}
Included ==
  {<<two, Label(toX)>>, <<Label(toA)>>, <<Include(g, FALSE), Word(a)>>, <<Include(f, FALSE)>>,
   <<Include(f, TRUE), one>>, <<Ref(",", toA), Include(main, TRUE)>>, <<Comment(FALSE)>>,
   Define_(m, <<Include(g, FALSE)>>), <<Include(<<"missing">>, FALSE)>>}
Files ==
  {main :> p @@ f :> q @@ g :> r :
     p \in UpTo(3, Includes), q \in Included, r \in {<<Ref(";", toX)>>, <<Include(f, FALSE), one>>}}

MCPrograms ==
  Alone(UpTo(4, References) \union UpTo(4, Placements) \union UpTo(4, Lambdas)
          \union UpTo(5, {Brace, Ref(",", Lambda), Close, Label(At), Ref("_", At), two})
          \union UpTo(5, {Label(toA), Label(toX), Ref(",", toA), Ref("_", toX), Pad("$", 3), two})
          \union Macros)
    \union Files
MCMain == main
MCTakesArg == {taking}
MCUppercased == {Ax}
=============================================================================
