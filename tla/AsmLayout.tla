----------------------------- MODULE AsmLayout -----------------------------
(***************************************************************************)
(* What a program means, without an order in which to assemble it: its     *)
(* macros and files written out in one sequence of tokens, an address for  *)
(* each of them, and then every byte; and that this is what Asm produces.  *)
(*                                                                         *)
(* Nothing here says how: there is no list of what waits, nothing is       *)
(* filled in later, and the two ends of a lambda find each other as        *)
(* brackets do.                                                            *)
(***************************************************************************)
EXTENDS Asm

LOCAL INSTANCE SequencesExt
LOCAL INSTANCE FiniteSetsExt
LOCAL INSTANCE Functions

(***************************************************************************)
(* Macros and files written out.                                           *)
(***************************************************************************)

\* Where what was opened before ts is closed, or 0.
ClosedAt(ts, Opens(_), Closes(_)) ==
  LET Count(n, P(_)) == Cardinality({i \in 1 .. n : P(ts[i])})
      Ends == {n \in DOMAIN ts : Count(n, Closes) = Count(n, Opens) + 1}
  IN  IF Ends = {} THEN 0 ELSE Min(Ends)

From(ts, n) == SubSeq(ts, n, Len(ts))

CommentEnd(ts) ==
  ClosedAt(ts, LAMBDA t : t = Comment(TRUE), LAMBDA t : t = EndComment)

BodyEnd(ts) ==
  ClosedAt(ts, LAMBDA t : t.kind = "ref" /\ t.to = Lambda /\ t.rune # "",
               LAMBDA t : t = Close)

RECURSIVE Body(_)   \* what follows the brace after a macro's name
Body(ts) ==
  IF ts = <<>> THEN <<>>
  ELSE IF Head(ts) = Brace THEN Tail(ts)
  ELSE IF Head(ts) = Mark THEN Body(Tail(ts))
  ELSE IF Head(ts).kind = "comment" /\ CommentEnd(Tail(ts)) > 0
  THEN Body(From(ts, CommentEnd(Tail(ts)) + 2))
  ELSE <<>>

Start == [ok |-> TRUE, out |-> <<>>, macros |-> <<>>, called |-> {}, inc |-> {}, later |-> <<>>]
Bad(st) == [st EXCEPT !.ok = FALSE]

\* What st becomes after ts; open is what ts is inside of.  The definition of a
\* macro stays in the output, for the names to be compared.
RECURSIVE Flat(_, _, _)
ReadOnce(file, open, st) ==
  IF file \in st.inc THEN st
  ELSE IF file \notin DOMAIN files THEN Bad(st)
  ELSE Flat(files[file], Append(open, file), [st EXCEPT !.inc = @ \union {file}])

Flat(ts, open, st) ==
  IF ~st.ok \/ ts = <<>> THEN st
  ELSE LET t == Head(ts)
           rest == Tail(ts)
  IN CASE t.kind = "comment" ->
            IF CommentEnd(rest) = 0 THEN Bad(st)
            ELSE Flat(From(rest, CommentEnd(rest) + 1), open, st)
       [] t = Mark -> Flat(rest, open, st)
       [] t.kind = "macro" ->
            LET body == Body(rest)
                n == BodyEnd(body)
            IN  IF n = 0 \/ \E i \in 1 .. n : body[i].kind = "macro" THEN Bad(st)
                ELSE Flat(From(body, n + 1), open,
                          [st EXCEPT !.out = Append(@, t),
                                     !.macros = [m \in DOMAIN @ \union {t.name} |->
                                       IF m = t.name THEN SubSeq(body, 1, n - 1) ELSE @[m]]])
       [] t.kind = "include" ->
            IF Len(open) >= MaxDepth THEN Bad(st)
            ELSE Flat(rest, open,
                      IF ~t.later THEN ReadOnce(t.file, open, st)
                      ELSE IF t.file \in st.inc THEN st
                      ELSE [st EXCEPT !.later = Append(@, t.file)])
       [] t.kind = "word" /\ t.name \in DOMAIN st.macros ->
            LET takes == t.name \in TakesArg
                arg == IF takes THEN Head(rest) ELSE NoArg
                body == st.macros[t.name]
            IN  IF Len(open) >= MaxDepth \/ t.name \in Range(open) \/ (takes /\ rest = <<>>)
                THEN Bad(st)
                ELSE Flat(IF takes THEN Tail(rest) ELSE rest, open,
                          Flat([i \in DOMAIN body |-> Filled(body[i], arg)], Append(open, t.name),
                               [st EXCEPT !.called = @ \union {t.name}]))
       [] OTHER -> Flat(rest, open, [st EXCEPT !.out = Append(@, t)])

RECURSIVE Later(_)
Later(st) ==
  IF ~st.ok \/ st.later = <<>> THEN st
  ELSE Later(ReadOnce(Head(st.later), <<>>, [st EXCEPT !.later = Tail(@)]))

Program == Later(Flat(files[Main], <<>>, Start))
-----------------------------------------------------------------------------
(***************************************************************************)
(* The layout of a sequence of tokens.                                     *)
(***************************************************************************)
IsRef(t) == t.kind \in {"ref", "word"}
RuneOf(t) == IF t.kind = "word" THEN "" ELSE t.rune
To(t) == IF t.kind \in {"word", "macro"} THEN Named(t.name)
         ELSE IF t.kind \in {"ref", "label", "padTo"} THEN t.to ELSE Lambda
HasName(t) == To(t).k \in {"name", "local"}

\* The scope before each token, and the full name of what a token names.
Scopes(F) ==
  LET Sets == {j \in DOMAIN F : F[j].kind = "label" /\ To(F[j]).k = "name"
                                /\ To(F[j]).name # <<>>}
      Before(i) == {j \in Sets : j < i}
  IN  [i \in DOMAIN F |->
         IF Before(i) = {} THEN "RESET" ELSE Head(To(F[Max(Before(i))]).name)]
FullNames(F) ==
  [i \in DOMAIN F |->
     IF To(F[i]).k = "local" THEN <<Scopes(F)[i]>> \o To(F[i]).name ELSE To(F[i]).name]

\* The bracket that the closing one at i matches, if any.
Partner(F, i, Opens(_), Closes(_)) ==
  LET Count(j, P(_)) == Cardinality({k \in j .. i - 1 : P(F[k])})
  IN  {j \in 1 .. i - 1 :
         /\ Opens(F[j]) /\ Count(j, Opens) = Count(j, Closes) + 1
         /\ \A k \in j + 1 .. i - 1 : Count(k, Opens) - Count(k, Closes) # 1 \/ ~Opens(F[k])}
OpensLambda(t) == t.kind = "ref" /\ t.to = Lambda
LambdaOf(F, i) == Partner(F, i, OpensLambda, LAMBDA t : t = Close)
AtLabelOf(F, i) ==
  Partner(F, i, LAMBDA t : t = Label(At), LAMBDA t : t.kind \in {"ref", "padTo"} /\ t.to = At)

NamesMakeSense(F) ==
  LET full == FullNames(F)
      Definitions(i) ==
        {j \in DOMAIN F : F[j].kind = "label" /\ HasName(F[j]) /\ full[j] = full[i]}
  IN  \A i \in DOMAIN F :
        /\ F[i] # EndComment
        /\ HasName(F[i]) => full[i] # <<>>
        /\ F[i].kind = "macro" =>
             \A j \in DOMAIN F \ {i} : ~(HasName(F[j]) /\ full[j] = full[i])
        /\ F[i].kind = "label" /\ HasName(F[i]) => Definitions(i) = {i}
        /\ IsRef(F[i]) /\ HasName(F[i]) => Definitions(i) # {}
        /\ F[i].kind = "padTo" /\ HasName(F[i]) => \E j \in Definitions(i) : j < i
        /\ F[i] = Close => LambdaOf(F, i) # {}
        /\ OpensLambda(F[i]) => \E j \in DOMAIN F : F[j] = Close /\ i \in LambdaOf(F, j)
        /\ F[i].kind \in {"ref", "padTo"} /\ F[i].to = At => AtLabelOf(F, i) # {}

Width(t) == IF t.kind = "data" THEN Len(t.bytes)
            ELSE IF IsRef(t) THEN Len(Opcode(RuneOf(t))) + Size(RuneOf(t)) ELSE 0

\* The label the token at i names.
LabelOf(F, full, i) ==
  IF To(F[i]) = At THEN CHOOSE j \in AtLabelOf(F, i) : TRUE
  ELSE CHOOSE j \in DOMAIN F : F[j].kind = "label" /\ HasName(F[j]) /\ full[j] = full[i]

Addresses(F) ==
  LET full == FullNames(F)
      addr[i \in 1 .. Len(F) + 1] ==
        IF i = 1 THEN Page
        ELSE LET t == F[i - 1]
                 here == addr[i - 1]
                 by == IF t.kind = "pad" THEN t.n
                       ELSE IF t.kind = "padTo" THEN addr[LabelOf(F, full, i - 1)]
                       ELSE Width(t)
             IN  IF t.kind \in {"pad", "padTo"} /\ t.rune = "|" THEN by
                 ELSE (here + by) % MemSize
  IN  addr

\* Where the references of F point.
Targets(F) ==
  LET full == FullNames(F)
      addr == Addresses(F)
  IN  [i \in {j \in DOMAIN F : IsRef(F[j])} |->
         IF To(F[i]) = Lambda
         THEN addr[CHOOSE j \in DOMAIN F : F[j] = Close /\ i \in LambdaOf(F, j)]
         ELSE addr[LabelOf(F, full, i)]]

Span(F, addr, i) == {(addr[i] + k) % MemSize : k \in 0 .. Width(F[i]) - 1}
RefAt(F, addr, i) == addr[i] + Len(Opcode(RuneOf(F[i])))

BytesFit(F) ==
  LET addr == Addresses(F)
      target == Targets(F)
      half == Page \div 2
  IN  /\ \A i \in DOMAIN F : \A a \in Span(F, addr, i) : a >= Page
      /\ \A i \in DOMAIN target :
           LET rune == RuneOf(F[i])
               next == RefAt(F, addr, i) + 2
           IN  rune \in {",", "_"} => next - half <= target[i] /\ target[i] < next + half

Overlaps(F) ==
  LET addr == Addresses(F)
  IN  \E i, j \in DOMAIN F : i < j /\ Span(F, addr, i) \intersect Span(F, addr, j) # {}

Rom(F) ==
  LET addr == Addresses(F)
      target == Targets(F)
      High(n) == Byte((n \div Page) % Page)
      Low(n) == Byte(n % Page)
      Image(i) ==
        LET t == F[i]
            to == IF RuneOf(t) \in {".", "-", ";", "="} THEN target[i]
                  ELSE target[i] - (RefAt(F, addr, i) + 2)
        IN  IF t.kind = "data" THEN t.bytes
            ELSE IF Size(RuneOf(t)) = 1 THEN Opcode(RuneOf(t)) \o <<Low(to)>>
            ELSE Opcode(RuneOf(t)) \o <<High(to), Low(to)>>
      At_(a) == CHOOSE i \in DOMAIN F : a \in Span(F, addr, i)
  IN  [a \in UNION {Span(F, addr, i) : i \in DOMAIN F} |-> Image(At_(a))[a - addr[At_(a)] + 1]]

Assembles(p) == p.ok /\ NamesMakeSense(p.out) /\ BytesFit(p.out)
-----------------------------------------------------------------------------
(***************************************************************************)
(* Properties.                                                             *)
(***************************************************************************)

\* The assembler accepts a program exactly when it has a layout, and produces
\* the bytes of it; unless a program pads back over what it wrote: what is
\* filled in late is then written over what was written since.
IsLayout ==
  phase = "done" =>
    LET p == Program
    IN  /\ success = Assembles(p)
        /\ success /\ ~Overlaps(p.out) => rom = Rom(p.out)

\* The numbers of the symbols agree, there is one for each label there is, and
\* that of a reference is the one of the label its bytes point to.
SymbolsAgree ==
  phase = "done" /\ success =>
    LET F == Program.out
        addr == Addresses(F)
        target == Targets(F)
        labels == {s \in symbols : s[1] = "label"}
    IN  /\ NumbersAgree
        /\ Cardinality(labels) = Cardinality({i \in DOMAIN F : F[i].kind \in {"label", "}"}})
        /\ \A i \in DOMAIN target : \E label \in labels :
             /\ label[2] = target[i]
             /\ \A k \in 0 .. Size(RuneOf(F[i])) - 1 :
                  <<"ref", RefAt(F, addr, i) + k, label[3]>> \in symbols

\* A program that is accepted is warned of the labels and macros that nothing
\* in it refers to, before them or after, and of no others.
WarningsExact ==
  phase = "done" /\ success =>
    LET p == Program
        F == p.out
        full == FullNames(F)
        addr == Addresses(F)
        Used(i) == \E j \in DOMAIN F :
          (IsRef(F[j]) \/ F[j].kind = "padTo") /\ HasName(F[j]) /\ full[j] = full[i]
    IN  warned = {full[i] : i \in {j \in DOMAIN F :
          /\ full[j] \notin Uppercased
          /\ \/ F[j].kind = "macro" /\ full[j] \notin p.called
             \/ F[j].kind = "label" /\ HasName(F[j]) /\ ~Used(j) /\ addr[j] # Page}}
=============================================================================
