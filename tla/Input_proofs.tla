---------------------------- MODULE Input_proofs ----------------------------
(***************************************************************************)
(* What is read: the file the assembler takes apart into tokens            *)
(* (AsmLexer), and the lines the REPL checks and runs (Repl).              *)
(*                                                                         *)
(* The tokens found in a file are exactly those that are there, for every  *)
(* file, every limit and however many reads fail.  The invariant follows   *)
(* the cursor.  As long as no read failed, what was found and what there   *)
(* is from the cursor on are together all there is, and the token being    *)
(* read is as much of it as is before the cursor.                          *)
(*                                                                         *)
(* For any lines of its tokens, any size of the stacks and any limits on   *)
(* signatures, a line is checked with what the machine has, unless it is   *)
(* known why not.  The checker and the machine go their ways one after the *)
(* other, and the checker's runs are forgotten when the machine begins.    *)
(* What is left of them is that there is a set of places, tokens with the  *)
(* sizes of the stacks, which has the first one, is closed under what the  *)
(* machine may do, and has at the end of the line only what was printed    *)
(* (Covers).  The machine never leaves it.                                 *)
(***************************************************************************)
EXTENDS AsmLexer, Repl, NumberFacts, SequenceTheorems, FiniteSetTheorems, TLAPS

-----------------------------------------------------------------------------
(***************************************************************************)
(* The tokenizer.                                                          *)
(***************************************************************************)
L == Len(file)
Read == Chars \union {"EOF", "ERROR"}

Held == {<<>>} \union {<<c>> : c \in Read}
IsIo(i) == i \in [next : 1 .. L + 1, held : Held, failures : Nat]
Position == [line : Int, col : Int, byte : Int]
TokenType == [text : Seq(Read), start : Position, end : Position]

Typed ==
  /\ file \in Seq(Chars) /\ IsIo(io)
  /\ pos \in Position /\ start \in Position
  /\ mode \in {"between", "token", "text", "done"} /\ success \in BOOLEAN
  /\ text \in Seq(Read) /\ tokens \in Seq(TokenType)

-----------------------------------------------------------------------------
(***************************************************************************)
(* The invariant.                                                          *)
(***************************************************************************)

\* The next character to read is the p-th.
At(i, p) ==
  /\ p \in 1 .. L + 1
  /\ \/ i.held = <<>> /\ i.next = p
     \/ p <= L /\ i.held = <<file[p]>> /\ i.next = p + 1
     \/ p = L + 1 /\ i.held = <<"EOF">> /\ i.next = p

Reached(p, where) == where.line = Line(p) /\ where.col = Column(p)

\* The token t is the one that begins at b.
IsToken(t, b) ==
  /\ t.text = TokenText(b)
  /\ Reached(b, t.start) /\ Reached(TokenEnd(b), t.end)
Found(front) ==
  /\ Len(tokens) = Len(front)
  /\ \A k \in 1 .. Len(front) : TokenOK(front[k]) /\ IsToken(tokens[k], front[k])

BetweenTokens(p, front) ==
  /\ Starts[1] = front \o Starts[p]
  /\ p <= L => Reached(p, pos)

\* One of S is not there from a up to p.
Free(a, p, S) == \A j \in a .. p - 1 : file[j] \notin S

AToken(b, p) ==
  /\ b < p /\ file[b] \notin Separators
  /\ ~IsText(b) /\ Free(b, p, Separators)
  /\ text = SubSeq(file, b, p - 1) /\ Len(text) <= MaxTokenLen
AText(b, p) ==
  /\ b + 2 <= p /\ IsText(b) /\ Free(b + 2, p, {"quote"})
  /\ text = Joined(b)[p - 1] /\ Len(text) <= MaxTextLen
InsideToken(p, front) ==
  \E b \in 1 .. L :
    /\ Starts[1] = front \o (<<b>> \o Starts[TokenEnd(b) + 1])
    /\ Reached(b, start) /\ Reached(p, pos)
    /\ mode = "token" => AToken(b, p)
    /\ mode = "text" => AText(b, p)

Underway ==
  \E p \in 1 .. L + 1, front \in Seq(1 .. L) :
    /\ At(io, p) /\ Found(front)
    /\ mode = "between" => BetweenTokens(p, front)
    /\ mode \in {"token", "text"} => InsideToken(p, front)

\* What TokensExact says of the end.
Answer ==
  LET starts == Starts[1]
  IN  /\ success <=> io.failures = 0 /\ \A k \in DOMAIN starts : TokenOK(starts[k])
      /\ success =>
           /\ Len(tokens) = Len(starts)
           /\ \A k \in DOMAIN starts : IsToken(tokens[k], starts[k])

Following ==
  NoLoneCR =>
    /\ mode # "done" /\ io.failures = 0 => Underway
    /\ mode = "done" => Answer

LexerInv == Typed /\ Following

-----------------------------------------------------------------------------
(***************************************************************************)
(* Where a token ends.                                                     *)
(***************************************************************************)

LEMMA FileLength ==
  ASSUME file \in Seq(Chars)
  PROVE  /\ L \in Nat /\ L = Len(file) /\ DOMAIN file = 1 .. L
         /\ \A j \in 1 .. L : file[j] \in Chars
  <1>1. Len(file) \in Nat /\ DOMAIN file = 1 .. Len(file)
    BY LenProperties
  <1>2. \A j \in 1 .. Len(file) : file[j] \in Chars
    BY ElementOfSeq
  <1>3. QED
    BY <1>1, <1>2 DEF L

\* The first of S from a on, or the end of the file.
LEMMA FirstExact ==
  ASSUME file \in Seq(Chars), NEW a \in Nat, a <= L + 1, NEW S, NEW e, e = First(Ends(a, S))
  PROVE  /\ e \in a .. L + 1 /\ (e = L + 1 \/ file[e] \in S)
         /\ Free(a, e, S)
  <1>1. L \in Nat /\ L = Len(file)
    BY FileLength
  <1> DEFINE T == Ends(a, S)
  <1>2. T = {j \in a .. L + 1 : j = L + 1 \/ file[j] \in S}
    BY <1>1 DEF Ends
  <1>3. T \subseteq Nat /\ L + 1 \in T
    <2> HIDE DEF T
    <2> QED
      BY <1>1, <1>2
  <1>4. \E x \in T : \A y \in T : x <= y
    <2> HIDE DEF T
    <2> QED
      BY <1>3, Lowest
  <1>5. e \in T /\ \A y \in T : e <= y
    <2> HIDE DEF T
    <2>1. e = First(T)
      BY DEF T
    <2>2. QED
      BY <1>4, <2>1 DEF First
  <1>6. ASSUME NEW j \in a .. e - 1
        PROVE  file[j] \notin S
    <2>1. e \in a .. L + 1
      BY <1>2, <1>5
    <2>2. j \in a .. L + 1 /\ ~(e <= j)
      BY <1>1, <2>1
    <2>3. j \notin T
      BY <1>5, <2>2
    <2> HIDE DEF T
    <2>4. QED
      BY <1>2, <2>2, <2>3
  <1>7. QED
    <2> HIDE DEF T
    <2> QED
      BY <1>2, <1>5, <1>6 DEF Free

\* Where a token that goes on to p ends.
LEMMA EndsAfter ==
  ASSUME file \in Seq(Chars), NEW a \in Nat, NEW p \in a .. L + 1, NEW S,
         NEW e, e = First(Ends(a, S)), Free(a, p, S)
  PROVE  /\ e \in p .. L + 1
         /\ p = L + 1 => e = p
         /\ p <= L /\ file[p] \in S => e = p
         /\ p <= L /\ file[p] \notin S => e > p
  <1>1. L \in Nat /\ a <= L + 1
    BY FileLength
  <1>2. /\ e \in a .. L + 1 /\ (e = L + 1 \/ file[e] \in S)
        /\ Free(a, e, S)
    BY <1>1, FirstExact
  <1>3. e >= p
    BY <1>1, <1>2 DEF Free
  <1>4. p <= L /\ file[p] \in S => e = p
    BY <1>1, <1>2, <1>3 DEF Free
  <1>5. QED
    BY <1>1, <1>2, <1>3, <1>4

LEMMA TextBegins ==
  ASSUME file \in Seq(Chars), NEW b \in 1 .. L
  PROVE  IsText(b) => b + 1 <= L /\ file[b] \notin Separators
  <1>1. L \in Nat /\ L = Len(file)
    BY FileLength
  <1>2. QED
    BY <1>1 DEF IsText, Separators

\* A token is at least one character, a text two.
LEMMA TokenEndExact ==
  ASSUME file \in Seq(Chars), NEW b \in 1 .. L, file[b] \notin Separators
  PROVE  TokenEnd(b) \in b + 1 .. L + 1 /\ (IsText(b) => TokenEnd(b) \in b + 2 .. L + 1)
  <1>1. L \in Nat
    BY FileLength
  <1>2. CASE IsText(b)
    <2>1. TokenEnd(b) = First(Ends(b + 2, {"quote"}))
      BY <1>2 DEF TokenEnd
    <2>2. b + 2 \in Nat /\ b + 2 <= L + 1
      BY <1>1, <1>2, TextBegins
    <2>3. TokenEnd(b) \in b + 2 .. L + 1
      BY <2>1, <2>2, FirstExact
    <2>4. QED
      BY <1>1, <2>3
  <1>3. CASE ~IsText(b)
    <2>1. TokenEnd(b) = First(Ends(b, Separators))
      BY <1>3 DEF TokenEnd
    <2>2. b \in Nat /\ b + 1 \in b .. L + 1
      BY <1>1
    <2>3. Free(b, b + 1, Separators)
      BY <1>1 DEF Free
    <2>4. TokenEnd(b) \in b + 1 .. L + 1
      BY <2>1, <2>2, <2>3, EndsAfter
    <2>5. QED
      BY <1>3, <2>4
  <1>4. QED
    BY <1>2, <1>3

-----------------------------------------------------------------------------
(***************************************************************************)
(* Where the tokens begin.                                                 *)
(***************************************************************************)

\* The values of f from the last down, each made of one further up.
Descends(f, N, last, further, step) ==
  /\ f[N + 1] = last /\ f[N + 2] = last
  /\ \A i \in 1 .. N : f[i] = step[<<i, f[further[i]]>>]

\* A function may be defined from its last values down.
LEMMA Backwards ==
  ASSUME NEW N \in Nat, NEW X, NEW last \in X,
         NEW further \in [1 .. N -> 1 .. N + 2], \A i \in 1 .. N : further[i] > i,
         NEW step \in [(1 .. N) \X X -> X]
  PROVE  \E f \in [1 .. N + 2 -> X] : Descends(f, N, last, further, step)
  <1> DEFINE From(m) == N + 1 - m .. N + 2
             Defined(m) ==
               \E f \in [From(m) -> X] :
                 /\ f[N + 1] = last /\ f[N + 2] = last
                 /\ \A i \in N + 1 - m .. N : f[i] = step[<<i, f[further[i]]>>]
             S == {m \in 0 .. N : Defined(m)}
  <1>1. 0 \in S
    <2> DEFINE f == [i \in From(0) |-> last]
    <2>1. f \in [From(0) -> X] /\ f[N + 1] = last /\ f[N + 2] = last
      OBVIOUS
    <2>2. \A i \in N + 1 - 0 .. N : f[i] = step[<<i, f[further[i]]>>]
      OBVIOUS
    <2> HIDE DEF f
    <2>3. QED
      BY <2>1, <2>2
  <1>2. ASSUME NEW m \in 0 .. N, m \in S, m + 1 <= N
        PROVE  m + 1 \in S
    <2>1. PICK f \in [From(m) -> X] :
            /\ f[N + 1] = last /\ f[N + 2] = last
            /\ \A i \in N + 1 - m .. N : f[i] = step[<<i, f[further[i]]>>]
      BY <1>2
    <2> DEFINE at == N - m
               value == step[<<at, f[further[at]]>>]
               g == [i \in From(m + 1) |-> IF i = at THEN value ELSE f[i]]
    <2>2. at \in 1 .. N /\ further[at] \in at + 1 .. N + 2
      BY <1>2
    <2>3. value \in X
      <3>1. further[at] \in From(m)
        BY <1>2, <2>2
      <3>2. f[further[at]] \in X
        BY <3>1
      <3>3. QED
        BY <2>2, <3>2
    <2>4. g \in [From(m + 1) -> X]
      <3> HIDE DEF value
      <3>1. ASSUME NEW i \in From(m + 1), i # at
            PROVE  f[i] \in X
        <4>1. i \in From(m)
          BY <1>2, <3>1
        <4>2. QED
          BY <4>1
      <3>2. QED
        BY <2>3, <3>1
    <2>5. \A i \in From(m) : g[i] = f[i]
      BY <1>2
    <2>6. g[N + 1] = last /\ g[N + 2] = last
      BY <1>2, <2>1, <2>5
    <2>7. ASSUME NEW i \in N + 1 - (m + 1) .. N
          PROVE  g[i] = step[<<i, g[further[i]]>>]
      <3>1. i \in 1 .. N /\ further[i] \in From(m)
        BY <1>2
      <3>2. g[further[i]] = f[further[i]]
        BY <2>5, <3>1
      <3>3. CASE i = at
        <4>1. g[i] = value
          BY <1>2, <3>3
        <4>2. QED
          BY <3>2, <3>3, <4>1
      <3>4. CASE i # at
        <4>1. i \in N + 1 - m .. N /\ i \in From(m)
          BY <1>2, <3>4
        <4>2. g[i] = f[i] /\ f[i] = step[<<i, f[further[i]]>>]
          BY <2>1, <2>5, <4>1
        <4>3. QED
          BY <3>2, <4>2
      <3>5. QED
        BY <3>3, <3>4
    <2> HIDE DEF g
    <2>8. Defined(m + 1)
      BY <2>4, <2>6, <2>7
    <2>9. m + 1 \in 0 .. N
      BY <1>2
    <2> HIDE DEF Defined
    <2>10. QED
      BY <2>8, <2>9
  <1>3. 0 .. N \subseteq S
    <2>1. 0 \in Int /\ N \in Int /\ (0 <= N => 0 \in S)
      <3> HIDE DEF S
      <3> QED
        BY <1>1
    <2>2. \A m \in 0 .. N : m \in S /\ m + 1 <= N => m + 1 \in S
      <3> HIDE DEF S
      <3> QED
        BY <1>2
    <2> HIDE DEF S
    <2>3. QED
      BY <2>1, <2>2, Upwards, Zenon
  <1>4. N \in S
    <2> HIDE DEF S
    <2> QED
      BY <1>3
  <1>5. Defined(N)
    <2> HIDE DEF Defined
    <2> QED
      BY <1>4
  <1>6. From(N) = 1 .. N + 2
    OBVIOUS
  <1>7. QED
    BY <1>5, <1>6 DEF Descends

\* The tokens from i on.
LEMMA StartsExact ==
  ASSUME file \in Seq(Chars)
  PROVE  /\ Starts[L + 1] = <<>> /\ Starts[L + 2] = <<>>
         /\ \A i \in 1 .. L + 2 : Starts[i] \in Seq(1 .. L)
         /\ \A i \in 1 .. L : Starts[i] = IF file[i] \in Separators THEN Starts[i + 1]
                                          ELSE <<i>> \o Starts[TokenEnd(i) + 1]
  <1>1. L \in Nat /\ L = Len(file)
    BY FileLength
  <1> DEFINE X == Seq(1 .. L)
             further == [i \in 1 .. L |->
                           IF file[i] \in Separators THEN i + 1 ELSE TokenEnd(i) + 1]
             step == [r \in (1 .. L) \X X |->
                        IF file[r[1]] \in Separators THEN r[2] ELSE <<r[1]>> \o r[2]]
             Body(f, i) == IF i > L THEN <<>>
                           ELSE IF file[i] \in Separators THEN f[i + 1]
                           ELSE <<i>> \o f[TokenEnd(i) + 1]
             IsStarts(f) == f = [i \in 1 .. L + 2 |-> Body(f, i)]
  <1>2. \A i \in 1 .. L : (IF file[i] \in Separators THEN i + 1 ELSE TokenEnd(i) + 1) \in i + 1 .. L + 2
    <2>1. ASSUME NEW i \in 1 .. L
          PROVE  (IF file[i] \in Separators THEN i + 1 ELSE TokenEnd(i) + 1) \in i + 1 .. L + 2
      <3>1. CASE file[i] \in Separators
        BY <1>1, <3>1
      <3>2. CASE file[i] \notin Separators
        <4>1. TokenEnd(i) \in i + 1 .. L + 1
          BY <3>2, TokenEndExact
        <4>2. QED
          BY <1>1, <3>2, <4>1
      <3>3. QED
        BY <3>1, <3>2
    <2>2. QED
      BY <2>1
  <1>3. further \in [1 .. L -> 1 .. L + 2] /\ \A i \in 1 .. L : further[i] > i
    BY <1>1, <1>2
  <1>4. <<>> \in X
    BY EmptySeq
  <1>5. step \in [(1 .. L) \X X -> X]
    <2>1. ASSUME NEW r \in (1 .. L) \X X
          PROVE  (IF file[r[1]] \in Separators THEN r[2] ELSE <<r[1]>> \o r[2]) \in X
      <3>1. r[1] \in 1 .. L /\ r[2] \in Seq(1 .. L)
        OBVIOUS
      <3>2. <<r[1]>> \in Seq(1 .. L)
        BY <3>1
      <3>3. <<r[1]>> \o r[2] \in Seq(1 .. L)
        BY <3>1, <3>2, ConcatProperties
      <3>4. QED
        BY <3>1, <3>3
    <2> HIDE DEF X
    <2>2. QED
      BY <2>1
  <1>6. PICK f \in [1 .. L + 2 -> X] :
          /\ f[L + 1] = <<>> /\ f[L + 2] = <<>>
          /\ \A i \in 1 .. L : f[i] = step[<<i, f[further[i]]>>]
    <2>1. L \in Nat
      BY <1>1
    <2>2. further \in [1 .. L -> 1 .. L + 2]
      BY <1>3
    <2>3. \A i \in 1 .. L : further[i] > i
      BY <1>3
    <2> HIDE DEF X, further, step
    <2>4. \E f \in [1 .. L + 2 -> X] : Descends(f, L, <<>>, further, step)
      BY <1>4, <1>5, <2>1, <2>2, <2>3, Backwards
    <2>5. QED
      BY <2>4 DEF Descends
  <1>7. ASSUME NEW i \in 1 .. L
        PROVE  f[i] = IF file[i] \in Separators THEN f[i + 1] ELSE <<i>> \o f[TokenEnd(i) + 1]
    <2>1. further[i] \in 1 .. L + 2
      BY <1>3
    <2>2. f[further[i]] \in X
      <3> HIDE DEF X, further
      <3> QED
        BY <1>6, <2>1
    <2>3. <<i, f[further[i]]>> \in (1 .. L) \X X
      <3> HIDE DEF X, further
      <3> QED
        BY <2>2
    <2>4. step[<<i, f[further[i]]>>]
            = IF file[i] \in Separators THEN f[further[i]] ELSE <<i>> \o f[further[i]]
      <3> HIDE DEF X, further
      <3> QED
        BY <2>3
    <2>5. f[i] = step[<<i, f[further[i]]>>]
      BY <1>6
    <2>6. f[i] = IF file[i] \in Separators THEN f[further[i]] ELSE <<i>> \o f[further[i]]
      BY <2>4, <2>5, Zenon
    <2>7. further[i] = IF file[i] \in Separators THEN i + 1 ELSE TokenEnd(i) + 1
      OBVIOUS
    <2> HIDE DEF further, step
    <2>8. CASE file[i] \in Separators
      BY <2>6, <2>7, <2>8, Zenon
    <2>9. CASE file[i] \notin Separators
      BY <2>6, <2>7, <2>9, Zenon
    <2>10. QED
      BY <2>8, <2>9
  <1>8. IsStarts(f)
    <2> HIDE DEF X
    <2>1. f = [i \in 1 .. L + 2 |-> f[i]]
      BY <1>6
    <2>2. ASSUME NEW i \in 1 .. L + 2
          PROVE  f[i] = Body(f, i)
      <3>1. CASE i > L
        <4>1. i = L + 1 \/ i = L + 2
          BY <1>1, <3>1
        <4>2. f[i] = <<>>
          BY <1>6, <4>1
        <4>3. QED
          BY <3>1, <4>2
      <3>2. CASE ~(i > L)
        <4>1. i \in 1 .. L
          BY <1>1, <3>2
        <4>2. QED
          BY <1>7, <3>2, <4>1
      <3>3. QED
        BY <3>1, <3>2
    <2> HIDE DEF Body
    <2>3. QED
      BY <2>1, <2>2
  <1> DEFINE starts == Starts
  <1>9. IsStarts(starts)
    <2>1. starts = CHOOSE g : IsStarts(g)
      BY <1>1 DEF Starts
    <2> HIDE DEF IsStarts, starts
    <2>2. QED
      BY <1>8, <2>1
  <1> HIDE DEF starts
  <1>10. \A i \in 1 .. L + 2 : starts[i] = Body(starts, i)
    <2>1. starts = [i \in 1 .. L + 2 |-> Body(starts, i)]
      BY <1>9
    <2> HIDE DEF Body
    <2>2. QED
      BY <2>1, Zenon
  <1>11. starts[L + 1] = <<>> /\ starts[L + 2] = <<>>
    <2>1. /\ L + 1 \in 1 .. L + 2 /\ L + 1 > L
          /\ L + 2 \in 1 .. L + 2 /\ L + 2 > L
      BY <1>1
    <2>2. Body(starts, L + 1) = <<>> /\ Body(starts, L + 2) = <<>>
      BY <2>1, Zenon
    <2> HIDE DEF Body
    <2>3. QED
      BY <1>10, <2>1, <2>2, Zenon
  <1>12. \A i \in 1 .. L : starts[i] = IF file[i] \in Separators THEN starts[i + 1]
                                       ELSE <<i>> \o starts[TokenEnd(i) + 1]
    <2>1. \A i \in 1 .. L : i \in 1 .. L + 2 /\ ~(i > L)
      BY <1>1
    <2>2. QED
      BY <1>10, <2>1
  <1> DEFINE S == {m \in 0 .. L : \A i \in L + 1 - m .. L + 2 : starts[i] \in X}
  <1>13. 0 \in S
    <2>1. \A i \in L + 1 - 0 .. L + 2 : i = L + 1 \/ i = L + 2
      BY <1>1
    <2> HIDE DEF X
    <2>2. QED
      BY <1>1, <1>4, <1>11, <2>1
  <1>14. ASSUME NEW m \in 0 .. L, m \in S, m + 1 <= L
         PROVE  m + 1 \in S
    <2> DEFINE at == L - m
    <2>1. at \in 1 .. L /\ at = L + 1 - (m + 1) /\ L - m \in Nat
      BY <1>1, <1>14
    <2>2. starts[at] = IF file[at] \in Separators THEN starts[at + 1]
                       ELSE <<at>> \o starts[TokenEnd(at) + 1]
      BY <1>12, <2>1
    <2>3. \A i \in L + 1 - m .. L + 2 : starts[i] \in X
      BY <1>14
    <2>4. (IF file[at] \in Separators THEN at + 1 ELSE TokenEnd(at) + 1) \in at + 1 .. L + 2
      BY <1>2, <2>1
    <2>5. starts[at] \in X
      <3>1. CASE file[at] \in Separators
        <4>1. at + 1 \in L + 1 - m .. L + 2
          BY <1>1, <2>1
        <4>2. starts[at + 1] \in X
          BY <2>3, <4>1
        <4>3. QED
          BY <2>2, <3>1, <4>2
      <3>2. CASE file[at] \notin Separators
        <4>1. TokenEnd(at) + 1 \in L + 1 - m .. L + 2
          BY <1>1, <2>1, <2>4, <3>2
        <4>2. starts[TokenEnd(at) + 1] \in Seq(1 .. L)
          BY <2>3, <4>1
        <4>3. <<at>> \in Seq(1 .. L)
          BY <2>1
        <4>4. <<at>> \o starts[TokenEnd(at) + 1] \in Seq(1 .. L)
          BY <4>2, <4>3, ConcatProperties
        <4>5. QED
          BY <2>2, <3>2, <4>4
      <3>3. QED
        BY <3>1, <3>2
    <2>6. ASSUME NEW i \in L + 1 - (m + 1) .. L + 2
          PROVE  starts[i] \in X
      <3>1. i = at \/ i \in L + 1 - m .. L + 2
        BY <1>1, <2>1
      <3> HIDE DEF X
      <3>2. QED
        BY <2>3, <2>5, <3>1
    <2> HIDE DEF X, at
    <2>7. QED
      BY <1>14, <2>6
  <1>15. 0 .. L \subseteq S
    <2>1. 0 \in Int /\ L \in Int /\ (0 <= L => 0 \in S)
      <3> HIDE DEF S
      <3> QED
        BY <1>1, <1>13
    <2>2. \A m \in 0 .. L : m \in S /\ m + 1 <= L => m + 1 \in S
      <3> HIDE DEF S
      <3> QED
        BY <1>14
    <2> HIDE DEF S
    <2>3. QED
      BY <2>1, <2>2, Upwards, Zenon
  <1>16. \A i \in 1 .. L + 2 : starts[i] \in X
    <2>1. L \in S /\ L + 1 - L = 1
      BY <1>1, <1>15
    <2> HIDE DEF X
    <2>2. QED
      BY <2>1
  <1>17. QED
    BY <1>11, <1>12, <1>16 DEF starts

-----------------------------------------------------------------------------
(***************************************************************************)
(* What is in a text.                                                      *)
(***************************************************************************)

\* A text goes on character by character, a CR aside.
LEMMA JoinedExact ==
  ASSUME file \in Seq(Chars), NEW b \in 1 .. L, b + 1 <= L
  PROVE  /\ \A n \in 0 .. L : Joined(b)[n] \in Seq(Read)
         /\ Joined(b)[b + 1] = <<"quote">>
         /\ \A n \in b + 2 .. L :
              Joined(b)[n] = IF file[n] = "CR" THEN Joined(b)[n - 1]
                             ELSE Append(Joined(b)[n - 1], file[n])
  <1>1. L \in Nat /\ L = Len(file) /\ \A j \in 1 .. L : file[j] \in Read
    BY FileLength DEF Read
  <1> DEFINE X == Seq(Read)
             step == [r \in (1 .. L) \X X |->
                        IF r[1] <= b + 1 THEN <<"quote">>
                        ELSE IF file[r[1]] = "CR" THEN r[2] ELSE Append(r[2], file[r[1]])]
             Body(f, n) == IF n <= b + 1 THEN <<"quote">>
                           ELSE IF file[n] = "CR" THEN f[n - 1] ELSE Append(f[n - 1], file[n])
             IsJoined(f) == f = [n \in 0 .. L |-> Body(f, n)]
  <1>2. <<"quote">> \in X
    BY DEF Read, Chars
  <1>3. step \in [(1 .. L) \X X -> X]
    <2>1. ASSUME NEW r \in (1 .. L) \X X
          PROVE  (IF r[1] <= b + 1 THEN <<"quote">>
                  ELSE IF file[r[1]] = "CR" THEN r[2] ELSE Append(r[2], file[r[1]])) \in X
      <3>1. r[2] \in Seq(Read) /\ file[r[1]] \in Read
        BY <1>1
      <3>2. Append(r[2], file[r[1]]) \in Seq(Read)
        BY <3>1
      <3>3. QED
        BY <1>2, <3>1, <3>2
    <2> HIDE DEF X
    <2>2. QED
      BY <2>1
  <1>4. PICK f \in [0 .. L -> X] : Follows(f, L, <<"quote">>, step)
    <2> HIDE DEF X, step
    <2> QED
      BY <1>1, <1>2, <1>3, Recursion
  <1>5. ASSUME NEW n \in 1 .. L
        PROVE  f[n] = Body(f, n)
    <2> HIDE DEF X
    <2>1. n - 1 \in 0 .. L /\ <<n, f[n - 1]>> \in (1 .. L) \X X
      <3> HIDE DEF Body, step
      <3>1. n - 1 \in 0 .. L
        BY <1>1
      <3>2. QED
        BY <1>4, <3>1
    <2>2. step[<<n, f[n - 1]>>] = Body(f, n)
      BY <2>1
    <2> HIDE DEF step, Body
    <2>3. QED
      BY <1>4, <2>2 DEF Follows
  <1>6. IsJoined(f)
    <2> HIDE DEF X
    <2>1. f = [n \in 0 .. L |-> f[n]]
      BY <1>4
    <2>2. ASSUME NEW n \in 0 .. L
          PROVE  f[n] = Body(f, n)
      <3>1. CASE n = 0
        <4>1. Body(f, n) = <<"quote">>
          BY <3>1
        <4>2. QED
          BY <1>4, <3>1, <4>1 DEF Follows
      <3>2. CASE n # 0
        <4>1. n \in 1 .. L
          BY <1>1, <3>2
        <4>2. QED
          BY <1>5, <4>1
      <3>3. QED
        BY <3>1, <3>2
    <2> HIDE DEF Body
    <2>3. QED
      BY <2>1, <2>2
  <1> DEFINE joined == Joined(b)
  <1>7. IsJoined(joined)
    <2>1. joined = CHOOSE g : IsJoined(g)
      BY <1>1 DEF Joined
    <2> HIDE DEF IsJoined, joined
    <2>2. QED
      BY <1>6, <2>1
  <1> HIDE DEF joined
  <1>8. \A n \in 0 .. L : joined[n] = Body(joined, n)
    <2>1. joined = [n \in 0 .. L |-> Body(joined, n)]
      BY <1>7
    <2> HIDE DEF Body
    <2>2. QED
      BY <2>1, Zenon
  <1>9. joined[0] = <<"quote">> /\ joined[b + 1] = <<"quote">>
    <2>1. /\ 0 \in 0 .. L /\ 0 <= b + 1
          /\ b + 1 \in 0 .. L /\ b + 1 <= b + 1
      BY <1>1
    <2>2. Body(joined, 0) = <<"quote">> /\ Body(joined, b + 1) = <<"quote">>
      BY <2>1, Zenon
    <2> HIDE DEF Body
    <2>3. QED
      BY <1>8, <2>1, <2>2, Zenon
  <1>10. \A n \in 0 .. L : joined[n] \in X
    <2>1. ASSUME NEW n \in 1 .. L, joined[n - 1] \in X
          PROVE  joined[n] \in X
      <3>1. joined[n] = Body(joined, n)
        BY <1>1, <1>8
      <3>2. joined[n - 1] \in Seq(Read) /\ file[n] \in Read
        BY <1>1, <2>1
      <3>3. Append(joined[n - 1], file[n]) \in Seq(Read)
        BY <3>2
      <3>4. QED
        BY <1>2, <3>1, <3>2, <3>3
    <2>2. L \in Nat /\ joined[0] \in X
      BY <1>1, <1>2, <1>9
    <2> HIDE DEF X
    <2>3. \A n \in 1 .. L : joined[n - 1] \in X => joined[n] \in X
      BY <2>1
    <2>4. QED
      BY <2>2, <2>3, AllAlong
  <1>11. \A n \in b + 2 .. L :
           joined[n] = IF file[n] = "CR" THEN joined[n - 1] ELSE Append(joined[n - 1], file[n])
    <2>1. \A n \in b + 2 .. L : n \in 0 .. L /\ ~(n <= b + 1)
      BY <1>1
    <2>2. QED
      BY <1>8, <2>1, Zenon
  <1>12. QED
    BY <1>9, <1>10, <1>11 DEF joined

\* More of the text is no less.
LEMMA JoinedGrows ==
  ASSUME file \in Seq(Chars), NEW b \in 1 .. L, b + 1 <= L,
         NEW m \in b + 1 .. L, NEW n \in m .. L
  PROVE  Len(Joined(b)[m]) <= Len(Joined(b)[n])
  <1>1. L \in Nat
    BY FileLength
  <1> DEFINE joined == Joined(b)
             S == {k \in m .. L : Len(joined[m]) <= Len(joined[k])}
  <1>2. /\ \A k \in 0 .. L : joined[k] \in Seq(Read)
        /\ \A k \in b + 2 .. L :
             joined[k] = IF file[k] = "CR" THEN joined[k - 1] ELSE Append(joined[k - 1], file[k])
    BY JoinedExact
  <1> HIDE DEF joined
  <1>3. \A k \in 0 .. L : Len(joined[k]) \in Nat
    BY <1>2, LenProperties
  <1>4. m \in S
    BY <1>1, <1>3
  <1>5. ASSUME NEW k \in m .. L, k \in S, k + 1 <= L
        PROVE  k + 1 \in S
    <2>1. k + 1 \in b + 2 .. L /\ k \in 0 .. L /\ (k + 1) - 1 = k /\ k + 1 \in m .. L
      BY <1>1, <1>5
    <2>2. joined[k + 1] = joined[k] \/ joined[k + 1] = Append(joined[k], file[k + 1])
      BY <1>2, <2>1
    <2>3. joined[k] \in Seq(Read)
      BY <1>2, <2>1
    <2>4. Len(joined[k + 1]) >= Len(joined[k])
      <3>1. Len(Append(joined[k], file[k + 1])) = Len(joined[k]) + 1
        BY <2>3
      <3>2. Len(joined[k]) \in Nat
        BY <1>3, <2>1
      <3>3. QED
        BY <2>2, <3>1, <3>2
    <2>5. Len(joined[m]) \in Nat /\ Len(joined[k]) \in Nat /\ Len(joined[k + 1]) \in Nat
      BY <1>1, <1>3, <2>1
    <2>6. QED
      BY <1>5, <2>1, <2>4, <2>5
  <1>6. m .. L \subseteq S
    <2> HIDE DEF S
    <2> QED
      BY <1>1, <1>4, <1>5, Upwards
  <1>7. n \in S
    <2> HIDE DEF S
    <2> QED
      BY <1>6
  <1>8. QED
    BY <1>7 DEF joined

-----------------------------------------------------------------------------
(***************************************************************************)
(* Lines and columns.                                                      *)
(***************************************************************************)

LEMMA LastLineEnd ==
  ASSUME file \in Seq(Chars), NEW p \in 1 .. L + 1
  PROVE  /\ Line(p) \in Nat /\ Column(p) \in Nat
         /\ (CHOOSE j \in LineEnds(p) \union {0} : \A k \in LineEnds(p) : k <= j) \in Int
  <1>1. L \in Nat
    BY FileLength
  <1>2. IsFiniteSet(1 .. p - 1) /\ LineEnds(p) \subseteq 1 .. p - 1
    BY <1>1, FS_Interval DEF LineEnds
  <1>3. IsFiniteSet(LineEnds(p)) /\ Cardinality(LineEnds(p)) \in Nat
    BY <1>2, FS_Subset, FS_CardinalityType
  <1> DEFINE E == LineEnds(p) \union {0}
             T == {p - j : j \in E}
  <1>4. E \subseteq 0 .. p - 1 /\ 0 \in E
    BY <1>1, <1>2
  <1>5. T \subseteq Nat /\ T # {}
    <2> HIDE DEF E
    <2> QED
      BY <1>1, <1>4
  <1>6. PICK x \in T : \A y \in T : x <= y
    <2> HIDE DEF T
    <2> QED
      BY <1>5, Lowest
  <1>7. PICK j \in E : x = p - j
    BY <1>6
  <1>8. \A k \in E : k <= j
    <2>1. ASSUME NEW k \in E
          PROVE  k <= j
      <3>1. p - k \in T
        OBVIOUS
      <3>2. x <= p - k
        BY <1>6, <3>1
      <3>3. k \in Int /\ j \in Int
        BY <1>4, <1>7
      <3> HIDE DEF E, T
      <3>4. QED
        BY <1>7, <3>2, <3>3
    <2>2. QED
      BY <2>1
  <1>9. \A k \in LineEnds(p) : k <= j
    BY <1>8
  <1>10. (CHOOSE l \in E : \A k \in LineEnds(p) : k <= l) \in E
    <2> HIDE DEF E
    <2> QED
      BY <1>7, <1>9, Zenon
  <1>11. Column(p) \in Nat
    <2>1. Column(p) = p - CHOOSE l \in E : \A k \in LineEnds(p) : k <= l
      BY DEF Column
    <2> HIDE DEF E
    <2>2. QED
      BY <1>1, <1>4, <1>10, <2>1
  <1>12. (CHOOSE l \in E : \A k \in LineEnds(p) : k <= l) \in Int
    <2> DEFINE c == CHOOSE l \in E : \A k \in LineEnds(p) : k <= l
    <2>1. c \in E
      BY <1>10
    <2> HIDE DEF E, c
    <2>2. c \in Int
      BY <1>4, <2>1
    <2>3. QED
      BY <2>2 DEF c
  <1>13. QED
    BY <1>3, <1>11, <1>12 DEF Line

LEMMA FirstLine == Line(1) = 1 /\ Column(1) = 1
  <1>1. LineEnds(1) = {}
    BY DEF LineEnds
  <1>2. Line(1) = 1
    BY <1>1, FS_EmptySet DEF Line
  <1> DEFINE last == CHOOSE j \in LineEnds(1) \union {0} : \A k \in LineEnds(1) : k <= j
  <1>3. last = 0
    BY <1>1
  <1>4. Column(1) = 1 - last
    BY DEF Column
  <1> HIDE DEF last
  <1>5. QED
    BY <1>2, <1>3, <1>4

\* A line end begins a line, another character another column.
LEMMA NextPlace ==
  ASSUME file \in Seq(Chars), NEW p \in 1 .. L
  PROVE  /\ file[p] = "LF" => Line(p + 1) = Line(p) + 1 /\ Column(p + 1) = 1
         /\ file[p] # "LF" => Line(p + 1) = Line(p) /\ Column(p + 1) = Column(p) + 1
  <1>1. L \in Nat
    BY FileLength
  <1>2. CASE file[p] = "LF"
    <2>1. LineEnds(p + 1) = LineEnds(p) \union {p} /\ p \notin LineEnds(p)
      BY <1>1, <1>2 DEF LineEnds
    <2>2. IsFiniteSet(1 .. p - 1) /\ LineEnds(p) \subseteq 1 .. p - 1
      BY <1>1, FS_Interval DEF LineEnds
    <2>3. IsFiniteSet(LineEnds(p))
      BY <2>2, FS_Subset
    <2>4. /\ Cardinality(LineEnds(p)) \in Nat
          /\ Cardinality(LineEnds(p + 1)) = Cardinality(LineEnds(p)) + 1
      BY <2>1, <2>3, FS_AddElement, FS_CardinalityType
    <2>5. Line(p + 1) = Line(p) + 1
      BY <2>4 DEF Line
    <2> DEFINE E == LineEnds(p + 1) \union {0}
               last == CHOOSE j \in E : \A k \in LineEnds(p + 1) : k <= j
    <2>6. p \in E /\ \A k \in LineEnds(p + 1) : k <= p
      BY <1>1, <2>1, <2>2
    <2>7. last \in E /\ \A k \in LineEnds(p + 1) : k <= last
      <3> HIDE DEF E
      <3> QED
        BY <2>6, Zenon
    <2>8. E \subseteq 0 .. p /\ p \in LineEnds(p + 1)
      BY <1>1, <2>1, <2>2
    <2>9. last = p
      <3> HIDE DEF E, last
      <3> QED
        BY <1>1, <2>7, <2>8
    <2>10. Column(p + 1) = (p + 1) - last
      BY DEF Column
    <2>11. QED
      <3> HIDE DEF last
      <3> QED
        BY <1>1, <1>2, <2>5, <2>9, <2>10
  <1>3. CASE file[p] # "LF"
    <2>1. LineEnds(p + 1) = LineEnds(p)
      BY <1>1, <1>3 DEF LineEnds
    <2> DEFINE last == CHOOSE j \in LineEnds(p) \union {0} : \A k \in LineEnds(p) : k <= j
    <2>2. Column(p) = p - last /\ Column(p + 1) = (p + 1) - last
      BY <2>1, Zenon DEF Column
    <2>3. last \in Int
      <3>1. p \in 1 .. L + 1
        BY <1>1
      <3>2. QED
        BY <3>1, LastLineEnd, Zenon
    <2>4. Line(p + 1) = Line(p)
      BY <2>1, Zenon DEF Line
    <2> HIDE DEF last
    <2>5. QED
      BY <1>1, <1>3, <2>2, <2>3, <2>4
  <1>4. QED
    BY <1>2, <1>3

-----------------------------------------------------------------------------
(***************************************************************************)
(* Reads.                                                                  *)
(***************************************************************************)

CharAt(p) == IF p <= L THEN file[p] ELSE "EOF"
Beyond(p) == IF p <= L THEN p + 1 ELSE p

\* A line further, and a column further.
LEMMA PositionChanged ==
  ASSUME NEW p \in Position, NEW q, q = [p EXCEPT !.byte = @ + 1, !.col = @ + 1]
  PROVE  /\ q \in Position /\ q.line = p.line /\ q.col = p.col + 1
         /\ NextLine(q) \in Position /\ NextLine(q).line = p.line + 1 /\ NextLine(q).col = 1
  <1>1. p \in [line : Int, col : Int, byte : Int]
    BY DEF Position
  <1>2. p.line \in Int /\ p.line + 1 \in Int /\ p.col + 1 \in Int /\ p.byte + 1 \in Int /\ 1 \in Int
    BY <1>1
  <1>3. q \in Position /\ q.line = p.line /\ q.col = p.col + 1
    BY <1>1, <1>2, Zenon DEF Position
  <1>4. q \in [line : Int, col : Int, byte : Int] /\ q.line + 1 \in Int
    BY <1>2, <1>3 DEF Position
  <1>5. /\ NextLine(q) \in Position /\ NextLine(q).line = q.line + 1 /\ NextLine(q).col = 1
    BY <1>2, <1>4, Zenon DEF Position, NextLine
  <1>6. QED
    BY <1>3, <1>5

\* A read gives a character and does not undo a failure.
LEMMA PeekTyped ==
  ASSUME file \in Seq(Chars), NEW i, IsIo(i), NEW fails, NEW r, r = Peek(i, fails)
  PROVE  /\ r.ch \in Read /\ IsIo(r.io) /\ IsIo(Consumed(r.io))
         /\ Consumed(r.io).failures = r.io.failures
         /\ r.io.failures = 0 => i.failures = 0
  <1>1. L \in Nat /\ L = Len(file) /\ \A j \in 1 .. L : file[j] \in Read
    BY FileLength DEF Read
  <1>2. i \in [next : 1 .. L + 1, held : Held, failures : Nat]
    BY DEF IsIo
  <1>3. i.next \in 1 .. L + 1 /\ i.failures \in Nat
    BY <1>2
  <1>4. "NUL" \in Read /\ "EOF" \in Read /\ "ERROR" \in Read
    BY DEF Read, Chars
  <1>5. r.ch \in Read /\ IsIo(r.io) /\ (r.io.failures = 0 => i.failures = 0)
    <2>1. CASE i.held # <<>>
      <3>1. PICK c \in Read : i.held = <<c>>
        BY <1>2, <2>1 DEF Held
      <3>2. r = [ch |-> Head(i.held), io |-> i]
        BY <2>1, Zenon DEF Peek
      <3>3. Head(i.held) = c
        BY <3>1
      <3>4. QED
        BY <3>1, <3>2, <3>3
    <2>2. CASE i.held = <<>> /\ fails /\ i.failures < MaxFailures
      <3>1. r = [ch |-> "NUL", io |-> [i EXCEPT !.held = <<"ERROR">>, !.failures = @ + 1]]
        BY <2>2, Zenon DEF Peek
      <3>2. r.ch = "NUL" /\ r.io = [i EXCEPT !.held = <<"ERROR">>, !.failures = i.failures + 1]
        BY <3>1
      <3>3. <<"ERROR">> \in Held /\ i.failures + 1 \in Nat
        BY <1>3, <1>4 DEF Held
      <3>5. IsIo(r.io) /\ r.io.failures = i.failures + 1
        BY <1>2, <3>2, <3>3, Zenon DEF IsIo
      <3>4. QED
        BY <1>3, <1>4, <3>2, <3>5
    <2>3. CASE i.held = <<>> /\ ~(fails /\ i.failures < MaxFailures) /\ i.next > L
      <3>1. r = [ch |-> "EOF", io |-> [i EXCEPT !.held = <<"EOF">>]]
        BY <1>1, <2>3, Zenon DEF Peek
      <3>2. r.ch = "EOF" /\ r.io = [i EXCEPT !.held = <<"EOF">>]
        BY <3>1
      <3>3. <<"EOF">> \in Held
        BY <1>4 DEF Held
      <3>5. IsIo(r.io) /\ r.io.failures = i.failures
        BY <1>2, <3>2, <3>3, Zenon DEF IsIo
      <3>6. QED
        BY <1>4, <3>2, <3>5
    <2>4. CASE i.held = <<>> /\ ~(fails /\ i.failures < MaxFailures) /\ ~(i.next > L)
      <3>1. r = [ch |-> file[i.next],
                 io |-> [i EXCEPT !.held = <<file[i.next]>>, !.next = @ + 1]]
        BY <1>1, <2>4, Zenon DEF Peek
      <3>2. /\ r.ch = file[i.next]
            /\ r.io = [i EXCEPT !.held = <<file[i.next]>>, !.next = i.next + 1]
        BY <3>1
      <3>3. file[i.next] \in Read /\ i.next + 1 \in 1 .. L + 1
        BY <1>1, <1>3, <2>4
      <3>4. <<file[i.next]>> \in Held
        BY <3>3 DEF Held
      <3>5. IsIo(r.io) /\ r.io.failures = i.failures
        BY <1>2, <3>2, <3>3, <3>4, Zenon DEF IsIo
      <3>6. QED
        BY <3>2, <3>3, <3>5
    <2>5. QED
      BY <2>1, <2>2, <2>3, <2>4
  <1>6. IsIo(Consumed(r.io)) /\ Consumed(r.io).failures = r.io.failures
    <2>1. <<>> \in Held
      BY DEF Held
    <2>2. QED
      BY <1>5, <2>1, Zenon DEF IsIo, Consumed
  <1>7. QED
    BY <1>5, <1>6

\* A read that does not fail gives the next character.
LEMMA PeekExact ==
  ASSUME file \in Seq(Chars), NEW i, IsIo(i), NEW p, At(i, p),
         NEW fails, NEW r, r = Peek(i, fails), r.io.failures = 0
  PROVE  r.ch = CharAt(p) /\ At(r.io, p) /\ At(Consumed(r.io), Beyond(p))
  <1>1. L \in Nat /\ L = Len(file) /\ \A j \in 1 .. L : file[j] \in Chars
    BY FileLength
  <1>2. i \in [next : 1 .. L + 1, held : Held, failures : Nat]
    BY DEF IsIo
  <1>3. i.next \in 1 .. L + 1 /\ i.failures \in Nat /\ p \in 1 .. L + 1
    BY <1>2 DEF At
  <1>4. CASE i.held # <<>>
    <2>1. r = [ch |-> Head(i.held), io |-> i]
      BY <1>4, Zenon DEF Peek
    <2>2. i.held = <<CharAt(p)>> /\ i.next = Beyond(p)
      BY <1>1, <1>3, <1>4 DEF At, CharAt, Beyond
    <2>3. r.ch = CharAt(p) /\ r.io = i
      BY <2>1, <2>2
    <2>4. Consumed(i).held = <<>> /\ Consumed(i).next = Beyond(p)
      BY <1>2, <2>2 DEF Consumed
    <2>5. Beyond(p) \in 1 .. L + 1
      BY <1>1, <1>3 DEF Beyond
    <2>6. QED
      BY <2>3, <2>4, <2>5 DEF At
  <1>5. CASE i.held = <<>>
    <2>1. i.next = p
      BY <1>5 DEF At
    <2>2. ~(fails /\ i.failures < MaxFailures)
      <3>1. SUFFICES ASSUME fails /\ i.failures < MaxFailures
                     PROVE  FALSE
        OBVIOUS
      <3>2. r = [ch |-> "NUL", io |-> [i EXCEPT !.held = <<"ERROR">>, !.failures = @ + 1]]
        BY <1>5, <3>1, Zenon DEF Peek
      <3>3. /\ <<"ERROR">> \in Held /\ i.failures + 1 \in Nat
            /\ r.io = [i EXCEPT !.held = <<"ERROR">>, !.failures = i.failures + 1]
        BY <1>3, <3>2 DEF Read, Held
      <3>4. r.io.failures = i.failures + 1
        BY <1>2, <3>3, Zenon
      <3>5. QED
        BY <1>3, <3>4
    <2>3. CASE p > L
      <3>1. r = [ch |-> "EOF", io |-> [i EXCEPT !.held = <<"EOF">>]]
        BY <1>1, <1>5, <2>1, <2>2, <2>3, Zenon DEF Peek
      <3>2. r.ch = "EOF" /\ r.io.held = <<"EOF">> /\ r.io.next = p
        BY <1>2, <2>1, <3>1
      <3>3. Consumed(r.io).held = <<>> /\ Consumed(r.io).next = p
        BY <1>2, <2>1, <3>1 DEF Consumed
      <3>4. p = L + 1 /\ ~(p <= L)
        BY <1>1, <1>3, <2>3
      <3>5. QED
        BY <1>3, <3>2, <3>3, <3>4 DEF At, CharAt, Beyond
    <2>4. CASE ~(p > L)
      <3>1. r = [ch |-> file[i.next],
                 io |-> [i EXCEPT !.held = <<file[i.next]>>, !.next = @ + 1]]
        BY <1>1, <1>5, <2>1, <2>2, <2>4, Zenon DEF Peek
      <3>2. p <= L /\ p + 1 \in 1 .. L + 1 /\ file[p] \in Read
        BY <1>1, <1>3, <2>4 DEF Read
      <3>3. <<file[p]>> \in Held
        BY <3>2 DEF Held
      <3>4. r.ch = file[p] /\ r.io = [i EXCEPT !.held = <<file[p]>>, !.next = p + 1]
        BY <2>1, <3>1
      <3>5. r.io.held = <<file[p]>> /\ r.io.next = p + 1 /\ IsIo(r.io)
        BY <1>2, <3>2, <3>3, <3>4, Zenon DEF IsIo
      <3>6. r.io \in [next : 1 .. L + 1, held : Held, failures : Nat]
        BY <3>5 DEF IsIo
      <3>7. Consumed(r.io).held = <<>> /\ Consumed(r.io).next = p + 1
        BY <3>5, <3>6 DEF Consumed
      <3>8. QED
        BY <1>3, <3>2, <3>4, <3>5, <3>7 DEF At, CharAt, Beyond
    <2>5. QED
      BY <2>3, <2>4
  <1>6. QED
    BY <1>4, <1>5

LEMMA GetTyped ==
  ASSUME file \in Seq(Chars), IsIo(io), pos \in Position, NEW fails, NEW g, g = Get(fails)
  PROVE  /\ g.ch \in Read /\ IsIo(g.io) /\ g.pos \in Position
         /\ g.io.failures = 0 => io.failures = 0
  <1> DEFINE first == Peek(io, fails[1])
             rest == Consumed(first.io)
             second == Peek(rest, fails[2])
             there == [pos EXCEPT !.byte = @ + 1, !.col = @ + 1]
  <1>1. /\ first.ch \in Read /\ IsIo(first.io) /\ IsIo(rest)
        /\ rest.failures = first.io.failures
        /\ first.io.failures = 0 => io.failures = 0
    BY PeekTyped
  <1>2. /\ second.ch \in Read /\ IsIo(second.io) /\ IsIo(Consumed(second.io))
        /\ Consumed(second.io).failures = second.io.failures
        /\ second.io.failures = 0 => rest.failures = 0
    <2> HIDE DEF rest
    <2> QED
      BY <1>1, PeekTyped
  <1>3. there \in Position /\ NextLine(there) \in Position
    BY PositionChanged
  <1>4. g = CASE first.ch = "LF" -> [ch |-> "LF", io |-> rest, pos |-> NextLine(there)]
              [] first.ch = "CR" ->
                   [ch |-> second.ch, pos |-> NextLine(there),
                    io |-> IF second.ch = "LF" THEN Consumed(second.io) ELSE second.io]
              [] OTHER -> [ch |-> first.ch, io |-> rest, pos |-> there]
    BY DEF Get
  <1>5. "LF" \in Read
    BY DEF Read, Chars, Separators
  <1> HIDE DEF first, rest, second, there
  <1>6. CASE first.ch = "LF"
    <2>1. g.ch = "LF" /\ g.io = rest /\ g.pos = NextLine(there)
      BY <1>4, <1>6
    <2>2. QED
      BY <1>1, <1>3, <1>5, <2>1
  <1>7. CASE first.ch = "CR"
    <2>1. /\ g.ch = second.ch /\ g.pos = NextLine(there)
          /\ g.io = IF second.ch = "LF" THEN Consumed(second.io) ELSE second.io
      BY <1>4, <1>7
    <2>2. QED
      BY <1>1, <1>2, <1>3, <2>1
  <1>8. CASE first.ch # "LF" /\ first.ch # "CR"
    <2>1. g.ch = first.ch /\ g.io = rest /\ g.pos = there
      BY <1>4, <1>8
    <2>2. QED
      BY <1>1, <1>3, <2>1
  <1>9. QED
    BY <1>6, <1>7, <1>8

\* The place after the p-th character, and the character it is read as.
NextAt(p) == IF file[p] = "CR" THEN p + 2 ELSE p + 1
GivenAt(p) == IF file[p] = "CR" THEN "LF" ELSE file[p]

\* The two characters of a line end are one.
LEMMA OnwardExact ==
  ASSUME file \in Seq(Chars), NoLoneCR, NEW p \in 1 .. L
  PROVE  /\ NextAt(p) \in p + 1 .. L + 1
         /\ GivenAt(p) \in Separators <=> file[p] \in Separators
         /\ GivenAt(p) = "quote" <=> file[p] = "quote"
         /\ GivenAt(p) \in Chars
         /\ file[p] = "CR" => NextAt(p) = p + 2 /\ file[p + 1] = "LF" /\ p + 1 \in 1 .. L
         /\ file[p] # "CR" => NextAt(p) = p + 1 /\ GivenAt(p) = file[p]
         /\ Line(NextAt(p)) = IF GivenAt(p) = "LF" THEN Line(p) + 1 ELSE Line(p)
         /\ Column(NextAt(p)) = IF GivenAt(p) = "LF" THEN 1 ELSE Column(p) + 1
  <1>1. L \in Nat /\ L = Len(file) /\ DOMAIN file = 1 .. L /\ file[p] \in Chars
    BY FileLength
  <1>2. CASE file[p] = "CR"
    <2>1. p < L /\ file[p + 1] = "LF" /\ p + 1 \in 1 .. L
      BY <1>1, <1>2 DEF NoLoneCR
    <2>2. Line(p + 1) = Line(p)
      BY <1>2, NextPlace
    <2>3. Line((p + 1) + 1) = Line(p + 1) + 1 /\ Column((p + 1) + 1) = 1
      BY <2>1, NextPlace
    <2>4. (p + 1) + 1 = p + 2 /\ NextAt(p) = p + 2 /\ GivenAt(p) = "LF"
      BY <1>2 DEF NextAt, GivenAt
    <2>5. QED
      BY <1>1, <1>2, <2>1, <2>2, <2>3, <2>4 DEF Separators, Chars
  <1>3. CASE file[p] # "CR"
    <2>1. NextAt(p) = p + 1 /\ GivenAt(p) = file[p]
      BY <1>3 DEF NextAt, GivenAt
    <2>2. QED
      BY <1>1, <1>3, <2>1, NextPlace
  <1>4. QED
    BY <1>2, <1>3

\* A character is read with its line end, and the position is that of the next.
LEMMA GetExact ==
  ASSUME file \in Seq(Chars), IsIo(io), pos \in Position, NoLoneCR, NEW p, At(io, p),
         NEW fails, NEW g, g = Get(fails), g.io.failures = 0
  PROVE  /\ p = L + 1 => g.ch = "EOF" /\ At(g.io, p)
         /\ p <= L =>
              /\ g.ch = GivenAt(p) /\ At(g.io, NextAt(p))
              /\ Reached(p, pos) => Reached(NextAt(p), g.pos)
  <1> DEFINE first == Peek(io, fails[1])
             rest == Consumed(first.io)
             second == Peek(rest, fails[2])
             there == [pos EXCEPT !.byte = @ + 1, !.col = @ + 1]
  <1>1. /\ first.ch \in Read /\ IsIo(first.io) /\ IsIo(rest)
        /\ rest.failures = first.io.failures
    BY PeekTyped
  <1>2. /\ second.ch \in Read /\ IsIo(second.io) /\ IsIo(Consumed(second.io))
        /\ Consumed(second.io).failures = second.io.failures
        /\ second.io.failures = 0 => rest.failures = 0
    <2> HIDE DEF rest
    <2> QED
      BY <1>1, PeekTyped
  <1>3. g = CASE first.ch = "LF" -> [ch |-> "LF", io |-> rest, pos |-> NextLine(there)]
              [] first.ch = "CR" ->
                   [ch |-> second.ch, pos |-> NextLine(there),
                    io |-> IF second.ch = "LF" THEN Consumed(second.io) ELSE second.io]
              [] OTHER -> [ch |-> first.ch, io |-> rest, pos |-> there]
    BY DEF Get
  <1>4. /\ there.line = pos.line /\ there.col = pos.col + 1 /\ there \in Position
        /\ NextLine(there).line = pos.line + 1 /\ NextLine(there).col = 1
    BY PositionChanged
  <1>5. L \in Nat /\ p \in 1 .. L + 1
    BY FileLength DEF At
  <1>6. first.io.failures = 0 => first.ch = CharAt(p) /\ At(rest, Beyond(p))
    BY PeekExact
  <1>7. rest.failures = 0 /\ second.io.failures = 0 =>
          \A q : At(rest, q) =>
            /\ second.ch = CharAt(q) /\ At(Consumed(second.io), Beyond(q))
    <2> HIDE DEF rest
    <2>1. ASSUME NEW q, At(rest, q), second.io.failures = 0
          PROVE  second.ch = CharAt(q) /\ At(Consumed(second.io), Beyond(q))
      BY <1>1, <2>1, PeekExact
    <2> HIDE DEF second
    <2>2. QED
      BY <2>1
  <1> HIDE DEF first, rest, second, there
  <1>8. first.io.failures = 0
    <2>1. g.io = rest \/ g.io = Consumed(second.io) \/ g.io = second.io
      BY <1>3
    <2>2. QED
      BY <1>1, <1>2, <2>1
  <1>9. first.ch = CharAt(p) /\ At(rest, Beyond(p))
    BY <1>6, <1>8
  <1>10. CASE p = L + 1
    <2>1. first.ch = "EOF" /\ Beyond(p) = p
      BY <1>5, <1>9, <1>10 DEF CharAt, Beyond
    <2>2. g.ch = first.ch /\ g.io = rest
      BY <1>3, <2>1
    <2>3. QED
      BY <1>5, <1>9, <1>10, <2>1, <2>2
  <1>11. CASE p # L + 1
    <2>1. p \in 1 .. L /\ p <= L /\ first.ch = file[p] /\ Beyond(p) = p + 1
      BY <1>5, <1>9, <1>11 DEF CharAt, Beyond
    <2>2. /\ Line(NextAt(p)) = IF GivenAt(p) = "LF" THEN Line(p) + 1 ELSE Line(p)
          /\ Column(NextAt(p)) = IF GivenAt(p) = "LF" THEN 1 ELSE Column(p) + 1
          /\ file[p] = "CR" => NextAt(p) = p + 2 /\ file[p + 1] = "LF" /\ p + 1 \in 1 .. L
          /\ file[p] # "CR" => NextAt(p) = p + 1 /\ GivenAt(p) = file[p]
      BY <2>1, OnwardExact
    <2>3. CASE file[p] = "CR"
      <3>1. /\ g.ch = second.ch /\ g.pos = NextLine(there)
            /\ g.io = IF second.ch = "LF" THEN Consumed(second.io) ELSE second.io
        BY <1>3, <2>1, <2>3
      <3>2. second.io.failures = 0 /\ rest.failures = 0
        BY <1>1, <1>2, <1>8, <3>1
      <3>3. second.ch = CharAt(p + 1) /\ At(Consumed(second.io), Beyond(p + 1))
        BY <1>7, <1>9, <2>1, <3>2
      <3>4. CharAt(p + 1) = "LF" /\ Beyond(p + 1) = p + 2
        BY <1>5, <2>2, <2>3 DEF CharAt, Beyond
      <3>5. GivenAt(p) = "LF"
        BY <2>3 DEF GivenAt
      <3>6. QED
        BY <1>4, <1>11, <2>2, <2>3, <3>1, <3>3, <3>4, <3>5 DEF Reached
    <2>4. CASE file[p] = "LF"
      <3>1. g.ch = "LF" /\ g.io = rest /\ g.pos = NextLine(there)
        BY <1>3, <2>1, <2>4
      <3>2. QED
        BY <1>4, <1>9, <1>11, <2>1, <2>2, <2>4, <3>1 DEF Reached
    <2>5. CASE file[p] # "CR" /\ file[p] # "LF"
      <3>1. g.ch = file[p] /\ g.io = rest /\ g.pos = there
        BY <1>3, <2>1, <2>5
      <3>2. QED
        BY <1>4, <1>9, <1>11, <2>1, <2>2, <2>5, <3>1 DEF Reached
    <2>6. QED
      BY <2>3, <2>4, <2>5
  <1>12. QED
    <2>1. p = L + 1 => ~(p <= L)
      BY <1>5
    <2>2. QED
      BY <1>10, <1>11, <2>1

-----------------------------------------------------------------------------
(***************************************************************************)
(* Types.                                                                  *)
(***************************************************************************)

LEMMA TypedInit == Init => Typed
  <1> SUFFICES ASSUME Init
               PROVE  Typed
    OBVIOUS
  <1>1. file \in Seq(Chars)
    BY InputsAssumption DEF Init
  <1>2. L \in Nat /\ 1 \in 1 .. L + 1
    BY <1>1, FileLength
  <1>3. <<>> \in Held
    BY DEF Held
  <1>4. IsIo(io)
    BY <1>2, <1>3 DEF IsIo, Init
  <1>5. pos \in Position /\ start \in Position
    BY DEF Position, Init
  <1>6. QED
    BY <1>1, <1>4, <1>5, EmptySeq DEF Typed, Init

\* What a step reads.
LEMMA SameFile ==
  ASSUME file \in Seq(Chars), [Next]_vars
  PROVE  file' = file /\ L' = L
  BY DEF Next, vars, Between, InToken, InText, Done, Stop, EndToken, More, L

LEMMA TypedNext ==
  ASSUME Typed, [Next]_vars
  PROVE  Typed'
  <1>1. file' = file /\ L' = L
    BY SameFile DEF Typed
  <1>2. /\ file \in Seq(Chars) /\ IsIo(io)
        /\ pos \in Position /\ start \in Position
        /\ mode \in {"between", "token", "text", "done"} /\ success \in BOOLEAN
        /\ text \in Seq(Read) /\ tokens \in Seq(TokenType)
    BY DEF Typed
  <1>3. ASSUME NEW i, IsIo(i), io' = i
        PROVE  IsIo(io)'
    BY <1>1, <1>3 DEF IsIo
  <1>4. ASSUME NEW i, NEW p, NEW ok \in BOOLEAN, IsIo(i), p \in Position, Stop(i, p, ok)
        PROVE  Typed'
    <2>1. io' = i /\ pos' = p /\ mode' = "done" /\ success' = (ok /\ i.failures = 0)
      BY <1>4 DEF Stop, Reads
    <2>2. text' = text /\ start' = start /\ tokens' = tokens
      BY <1>4 DEF Stop
    <2>3. IsIo(io)'
      BY <1>3, <1>4, <2>1
    <2>4. QED
      BY <1>1, <1>2, <1>4, <2>1, <2>2, <2>3 DEF Typed
  <1>5. ASSUME NEW fails, NEW g, g = Get(fails), EndToken(g)
        PROVE  Typed'
    <2>1. g.ch \in Read /\ IsIo(g.io) /\ g.pos \in Position
      BY <1>2, <1>5, GetTyped
    <2> DEFINE t == [text |-> text, start |-> start, end |-> pos]
    <2>2. t \in TokenType
      BY <1>2 DEF TokenType
    <2>3. /\ mode' = "between" /\ tokens' = Append(tokens, t) /\ io' = g.io /\ pos' = g.pos
          /\ success' = success /\ text' = text /\ start' = start
      BY <1>5 DEF EndToken, Reads
    <2> HIDE DEF t
    <2>4. tokens' \in Seq(TokenType)
      BY <1>2, <2>2, <2>3
    <2>5. IsIo(io)'
      BY <1>3, <2>1, <2>3
    <2>6. QED
      BY <1>1, <1>2, <2>1, <2>3, <2>4, <2>5 DEF Typed
  <1>6. ASSUME NEW fails, NEW g, g = Get(fails), More(g)
        PROVE  Typed'
    <2>1. g.ch \in Read /\ IsIo(g.io) /\ g.pos \in Position
      BY <1>2, <1>6, GetTyped
    <2>2. CASE Len(text) < Limit(mode)
      <3>1. /\ text' = Append(text, g.ch) /\ io' = g.io /\ pos' = g.pos
            /\ mode' = mode /\ success' = success /\ start' = start /\ tokens' = tokens
        BY <1>6, <2>2 DEF More, Reads
      <3>2. text' \in Seq(Read)
        BY <1>2, <2>1, <3>1
      <3>3. IsIo(io)'
        BY <1>3, <2>1, <3>1
      <3>4. QED
        BY <1>1, <1>2, <2>1, <3>1, <3>2, <3>3 DEF Typed
    <2>3. CASE ~(Len(text) < Limit(mode))
      <3>1. Stop(g.io, g.pos, FALSE)
        BY <1>6, <2>3 DEF More
      <3>2. QED
        BY <1>4, <2>1, <3>1
    <2>4. QED
      BY <2>2, <2>3
  <1>7. ASSUME NEW fails, Between(fails)
        PROVE  Typed'
    <2> DEFINE g == Get(fails)
               after == Peek(g.io, fails[3])
    <2>1. g.ch \in Read /\ IsIo(g.io) /\ g.pos \in Position
      BY <1>2, GetTyped
    <2>2. IsIo(after.io) /\ IsIo(Consumed(after.io))
      <3> HIDE DEF g
      <3> QED
        BY <1>2, <2>1, PeekTyped
    <2>3. \/ Stop(g.io, g.pos, TRUE)
          \/ /\ io' = g.io /\ pos' = g.pos
             /\ UNCHANGED <<mode, success, text, start, tokens>>
          \/ /\ mode' = "text" /\ text' = <<"quote">> /\ start' = pos
             /\ io' = Consumed(after.io)
             /\ pos' = [g.pos EXCEPT !.byte = @ + 1, !.col = @ + 1]
             /\ success' = success /\ tokens' = tokens
          \/ /\ mode' = "token" /\ text' = <<g.ch>> /\ start' = pos
             /\ io' = (IF g.ch = "quote" THEN after.io ELSE g.io) /\ pos' = g.pos
             /\ success' = success /\ tokens' = tokens
      BY <1>7 DEF Between, Reads
    <2>4. [g.pos EXCEPT !.byte = @ + 1, !.col = @ + 1] \in Position
      <3> HIDE DEF g
      <3> QED
        BY <2>1, PositionChanged
    <2>5. "quote" \in Read
      BY DEF Read, Chars
    <2> HIDE DEF g, after
    <2>6. CASE Stop(g.io, g.pos, TRUE)
      BY <1>4, <2>1, <2>6
    <2>7. CASE /\ io' = g.io /\ pos' = g.pos
               /\ UNCHANGED <<mode, success, text, start, tokens>>
      <3>1. IsIo(io)'
        BY <1>3, <2>1, <2>7
      <3>2. QED
        BY <1>1, <1>2, <2>1, <2>7, <3>1 DEF Typed
    <2>8. CASE /\ mode' = "text" /\ text' = <<"quote">> /\ start' = pos
               /\ io' = Consumed(after.io)
               /\ pos' = [g.pos EXCEPT !.byte = @ + 1, !.col = @ + 1]
               /\ success' = success /\ tokens' = tokens
      <3>1. IsIo(io)'
        BY <1>3, <2>2, <2>8
      <3>2. text' \in Seq(Read)
        BY <2>5, <2>8
      <3>3. pos' \in Position
        BY <2>4, <2>8
      <3>4. QED
        BY <1>1, <1>2, <2>8, <3>1, <3>2, <3>3 DEF Typed
    <2>9. CASE /\ mode' = "token" /\ text' = <<g.ch>> /\ start' = pos
               /\ io' = (IF g.ch = "quote" THEN after.io ELSE g.io) /\ pos' = g.pos
               /\ success' = success /\ tokens' = tokens
      <3>1. IsIo(io)'
        <4>1. CASE g.ch = "quote"
          BY <1>3, <2>2, <2>9, <4>1
        <4>2. CASE g.ch # "quote"
          BY <1>3, <2>1, <2>9, <4>2
        <4>3. QED
          BY <4>1, <4>2
      <3>2. text' \in Seq(Read)
        BY <2>1, <2>9
      <3>3. QED
        BY <1>1, <1>2, <2>1, <2>9, <3>1, <3>2 DEF Typed
    <2>10. QED
      BY <2>3, <2>6, <2>7, <2>8, <2>9
  <1>8. ASSUME NEW fails, InToken(fails) \/ InText(fails)
        PROVE  Typed'
    <2> DEFINE g == Get(fails)
    <2>1. g.ch \in Read /\ IsIo(g.io) /\ g.pos \in Position
      BY <1>2, GetTyped
    <2>2. Stop(g.io, g.pos, TRUE) \/ Stop(g.io, g.pos, FALSE) \/ EndToken(g) \/ More(g)
      BY <1>8 DEF InToken, InText
    <2>3. g = Get(fails)
      OBVIOUS
    <2> HIDE DEF g
    <2>4. QED
      BY <1>4, <1>5, <1>6, <2>1, <2>2, <2>3
  <1>9. CASE UNCHANGED vars
    <2>1. IsIo(io)'
      BY <1>2, <1>3, <1>9 DEF vars
    <2>2. QED
      BY <1>2, <1>9, <2>1 DEF vars, Typed
  <1>10. QED
    BY <1>7, <1>8, <1>9 DEF Next, Done

-----------------------------------------------------------------------------
(***************************************************************************)
(* What a step leaves as it is.                                            *)
(***************************************************************************)

\* What is said of the file alone is said of it for good.
LEMMA FileKept ==
  ASSUME file' = file
  PROVE  /\ L' = L /\ NoLoneCR' = NoLoneCR /\ Starts' = Starts
         /\ \A b : /\ TokenEnd(b)' = TokenEnd(b) /\ IsText(b)' = IsText(b)
                   /\ Joined(b)' = Joined(b) /\ TokenText(b)' = TokenText(b)
                   /\ TokenOK(b)' = TokenOK(b)
                   /\ Line(b)' = Line(b) /\ Column(b)' = Column(b)
  <1>1. L' = L /\ NoLoneCR' = NoLoneCR
    BY DEF L, NoLoneCR
  <1>2. Starts' = Starts
    BY SMT DEF Starts, TokenEnd, IsText, Ends, First
  <1>3. ASSUME NEW b
        PROVE  /\ TokenEnd(b)' = TokenEnd(b) /\ IsText(b)' = IsText(b)
               /\ Joined(b)' = Joined(b)
    BY Zenon DEF TokenEnd, IsText, Ends, Joined
  <1>4. ASSUME NEW b
        PROVE  TokenText(b)' = TokenText(b)
    BY <1>3, Zenon DEF TokenText
  <1>5. ASSUME NEW b
        PROVE  TokenOK(b)' = TokenOK(b)
    BY <1>1, <1>3, <1>4, SMT DEF TokenOK
  <1>6. ASSUME NEW b
        PROVE  Line(b)' = Line(b)
    BY Zenon DEF Line, LineEnds
  <1>7. ASSUME NEW b
        PROVE  Column(b)' = Column(b)
    BY SMT DEF Column, LineEnds
  <1>8. QED
    BY <1>1, <1>2, <1>3, <1>4, <1>5, <1>6, <1>7

\* So what was found of it still was, and the token read is what it was.
LEMMA ReachedKept ==
  ASSUME file' = file, NEW b, NEW w, NEW w1, w1 = w'
  PROVE  Reached(b, w)' <=> Reached(b, w1)
  BY FileKept DEF Reached

LEMMA FoundKept ==
  ASSUME file' = file, tokens' = tokens, NEW front
  PROVE  Found(front)' <=> Found(front)
  BY FileKept DEF Found, IsToken, Reached

\* One token more.
LEMMA FoundAnother ==
  ASSUME file' = file, tokens \in Seq(TokenType), NEW front \in Seq(1 .. L), Found(front),
         NEW b \in 1 .. L, TokenOK(b), NEW t \in TokenType, IsToken(t, b),
         tokens' = Append(tokens, t)
  PROVE  Found(Append(front, b))' /\ Append(front, b) \in Seq(1 .. L)
  <1>1. /\ Append(front, b) \in Seq(1 .. L)
        /\ Len(front) \in Nat /\ Len(Append(front, b)) = Len(front) + 1
        /\ \A k \in 1 .. Len(front) : Append(front, b)[k] = front[k]
        /\ Append(front, b)[Len(front) + 1] = b
    BY AppendProperties, LenProperties
  <1>2. /\ Len(tokens) \in Nat /\ Len(tokens') = Len(tokens) + 1
        /\ \A k \in 1 .. Len(tokens) : tokens'[k] = tokens[k]
        /\ tokens'[Len(tokens) + 1] = t
    BY AppendProperties, LenProperties
  <1>3. /\ Len(tokens) = Len(front)
        /\ \A k \in 1 .. Len(front) : TokenOK(front[k]) /\ IsToken(tokens[k], front[k])
    BY DEF Found
  <1> DEFINE more == Append(front, b)
  <1> HIDE DEF more
  <1>4. ASSUME NEW k \in 1 .. Len(more)
        PROVE  TokenOK(more[k]) /\ IsToken(tokens'[k], more[k])
    <2>1. CASE k = Len(front) + 1
      BY <1>1, <1>2, <1>3, <2>1 DEF more
    <2>2. CASE k # Len(front) + 1
      <3>1. k \in 1 .. Len(front)
        BY <1>1, <2>2 DEF more
      <3>2. QED
        BY <1>1, <1>2, <1>3, <3>1 DEF more
    <2>3. QED
      BY <2>1, <2>2
  <1>5. Len(tokens') = Len(more)
    BY <1>1, <1>2, <1>3 DEF more
  <1>6. Found(more)'
    BY <1>4, <1>5, FileKept DEF Found, IsToken, Reached
  <1>7. QED
    BY <1>1, <1>6 DEF more

\* What comes first after the front.
LEMMA AfterFront ==
  ASSUME NEW S, NEW front \in Seq(S), NEW tail \in Seq(S), Len(tail) >= 1
  PROVE  /\ Len(front) + 1 \in DOMAIN (front \o tail)
         /\ (front \o tail)[Len(front) + 1] = tail[1]
  <1>1. Len(front) \in Nat /\ Len(tail) \in Nat
    BY LenProperties
  <1>2. Len(front) + 1 \in 1 .. Len(front) + Len(tail)
    BY <1>1
  <1>3. (front \o tail)[Len(front) + 1] = tail[1]
    <2>1. (front \o tail)[Len(front) + 1]
             = IF Len(front) + 1 <= Len(front) THEN front[Len(front) + 1]
               ELSE tail[Len(front) + 1 - Len(front)]
      BY <1>2, ConcatProperties
    <2>2. QED
      BY <1>1, <2>1
  <1>4. DOMAIN (front \o tail) = 1 .. Len(front) + Len(tail)
    BY ConcatProperties, LenProperties
  <1>5. QED
    BY <1>2, <1>3, <1>4

\* One more in front of the rest.
LEMMA OneOn ==
  ASSUME NEW S, NEW front \in Seq(S), NEW b \in S, NEW rest \in Seq(S)
  PROVE  /\ front \o (<<b>> \o rest) = Append(front, b) \o rest
         /\ Len(front) + 1 \in DOMAIN (front \o (<<b>> \o rest))
         /\ (front \o (<<b>> \o rest))[Len(front) + 1] = b
  <1>1. <<b>> \in Seq(S) /\ Len(<<b>>) = 1 /\ <<b>>[1] = b
    OBVIOUS
  <1>2. Append(front, b) = front \o <<b>>
    BY AppendIsConcat
  <1>3. front \o (<<b>> \o rest) = (front \o <<b>>) \o rest
    BY <1>1, ConcatAssociative
  <1>4. /\ <<b>> \o rest \in Seq(S) /\ Len(<<b>> \o rest) = 1 + Len(rest)
        /\ Len(rest) \in Nat /\ Len(front) \in Nat
    BY <1>1, ConcatProperties, LenProperties
  <1>5. (<<b>> \o rest)[1] = b
    <2>1. 1 \in 1 .. Len(<<b>>) + Len(rest)
      BY <1>1, <1>4
    <2>2. QED
      BY <1>1, <2>1, ConcatProperties
  <1> DEFINE tail == <<b>> \o rest
  <1> HIDE DEF tail
  <1>6. tail \in Seq(S) /\ Len(tail) = 1 + Len(rest) /\ tail[1] = b
    BY <1>4, <1>5 DEF tail
  <1>7. (front \o tail)[Len(front) + 1] = b /\ Len(front) + 1 \in DOMAIN (front \o tail)
    BY <1>4, <1>6, AfterFront
  <1>8. QED
    BY <1>2, <1>3, <1>7 DEF tail

LEMMA OneOnHere ==
  ASSUME NEW front \in Seq(1 .. L), NEW b \in 1 .. L, NEW rest \in Seq(1 .. L)
  PROVE  /\ front \o (<<b>> \o rest) = Append(front, b) \o rest
         /\ Len(front) + 1 \in DOMAIN (front \o (<<b>> \o rest))
         /\ (front \o (<<b>> \o rest))[Len(front) + 1] = b
  <1> DEFINE I == 1 .. L
  <1>1. front \in Seq(I) /\ b \in I /\ rest \in Seq(I)
    OBVIOUS
  <1> HIDE DEF I
  <1>2. QED
    BY <1>1, OneOn

-----------------------------------------------------------------------------
(***************************************************************************)
(* The steps.                                                              *)
(***************************************************************************)

LEMMA FollowingInit == Init => Following
  <1> SUFFICES ASSUME Init, NoLoneCR
               PROVE  Underway
    BY DEF Following, Init
  <1>1. file \in Seq(Chars)
    BY InputsAssumption DEF Init
  <1>2. L \in Nat /\ 1 \in 1 .. L + 1
    BY <1>1, FileLength
  <1>3. At(io, 1)
    BY <1>2 DEF At, Init
  <1>4. Found(<<>>) /\ <<>> \in Seq(1 .. L)
    BY EmptySeq DEF Found, Init
  <1>5. Starts[1] \in Seq(1 .. L)
    BY <1>1, <1>2, StartsExact
  <1>6. Starts[1] = <<>> \o Starts[1]
    BY <1>5, ConcatEmptySeq
  <1>7. Reached(1, pos)
    BY FirstLine DEF Reached, Init
  <1>8. BetweenTokens(1, <<>>)
    BY <1>6, <1>7 DEF BetweenTokens
  <1>9. QED
    BY <1>2, <1>3, <1>4, <1>8 DEF Underway, Init

\* A tokenizer that stops says what there is.
LEMMA StopNext ==
  ASSUME Typed, NEW i, IsIo(i), NEW p, NEW ok \in BOOLEAN, Stop(i, p, ok),
         i.failures = 0 /\ ok => Found(Starts[1]),
         i.failures = 0 /\ ~ok => \E k \in DOMAIN Starts[1] : ~TokenOK(Starts[1][k])
  PROVE  Following'
  <1>1. /\ mode' = "done" /\ success' = (ok /\ i.failures = 0) /\ io' = i
        /\ tokens' = tokens /\ file' = file
    BY DEF Stop, Reads
  <1>2. /\ Starts' = Starts
        /\ \A b : TokenOK(b)' = TokenOK(b)
    BY <1>1, FileKept
  <1>3. file \in Seq(Chars) /\ L \in Nat
    BY FileLength DEF Typed
  <1>4. Starts[1] \in Seq(1 .. L) /\ DOMAIN Starts[1] = 1 .. Len(Starts[1])
    <2>1. 1 \in 1 .. L + 2
      BY <1>3
    <2>2. Starts[1] \in Seq(1 .. L)
      BY <1>3, <2>1, StartsExact
    <2>3. QED
      BY <2>2, LenProperties
  <1>5. \A t, b : IsToken(t, b)' <=> IsToken(t, b)
    BY <1>1, FileKept DEF IsToken, Reached
  <1>6. Answer'
    <2>1. CASE i.failures # 0
      <3>1. ~success' /\ io'.failures # 0
        BY <1>1, <2>1
      <3>2. QED
        BY <3>1 DEF Answer
    <2>2. CASE i.failures = 0 /\ ok
      <3>1. success' /\ io'.failures = 0
        BY <1>1, <2>2
      <3>2. /\ Len(tokens) = Len(Starts[1])
            /\ \A k \in DOMAIN Starts[1] : TokenOK(Starts[1][k]) /\ IsToken(tokens[k], Starts[1][k])
        BY <1>4, <2>2 DEF Found
      <3>3. \A k \in DOMAIN Starts'[1] : TokenOK(Starts[1][k])' /\ IsToken(tokens[k], Starts[1][k])'
        BY <1>1, <1>2, <3>2, FileKept DEF IsToken, Reached
      <3>4. QED
        BY <1>1, <1>2, <3>1, <3>2, <3>3 DEF Answer
    <2>3. CASE i.failures = 0 /\ ~ok
      <3>1. ~success' /\ io'.failures = 0
        BY <1>1, <2>3
      <3>2. PICK k \in DOMAIN Starts[1] : ~TokenOK(Starts[1][k])
        BY <2>3
      <3>3. k \in DOMAIN Starts'[1] /\ ~TokenOK(Starts[1][k])'
        BY <1>2, <3>2
      <3>4. QED
        BY <1>2, <3>1, <3>3 DEF Answer
    <2>4. QED
      BY <2>1, <2>2, <2>3
  <1>7. QED
    BY <1>1, <1>6 DEF Following

\* A tokenizer that goes on has found no more.
LEMMA GoesOn ==
  ASSUME file' = file, tokens' = tokens, NEW q \in 1 .. L + 1, NEW front \in Seq(1 .. L),
         At(io, q)', Found(front), mode' # "done",
         mode' = "between" => BetweenTokens(q, front)',
         mode' \in {"token", "text"} => InsideToken(q, front)'
  PROVE  Following'
  <1>1. Found(front)'
    BY FoundKept
  <1>2. L' = L
    BY FileKept
  <1>3. Underway'
    BY <1>1, <1>2 DEF Underway
  <1>4. QED
    BY <1>3 DEF Following

\* Between tokens: the end of the file, a separator, or the first of a token.
LEMMA BetweenNext ==
  ASSUME Typed, Following, NEW fails, Between(fails)
  PROVE  Following'
  <1> DEFINE g == Get(fails)
             after == Peek(g.io, fails[3])
  <1>1. /\ file \in Seq(Chars) /\ IsIo(io) /\ pos \in Position /\ L \in Nat
        /\ mode = "between" /\ file' = file
    BY FileLength DEF Typed, Between, Stop
  <1>2. /\ g.ch \in Read /\ IsIo(g.io) /\ g.pos \in Position
        /\ g.io.failures = 0 => io.failures = 0
    BY <1>1, GetTyped
  <1>3. /\ IsIo(after.io) /\ IsIo(Consumed(after.io))
        /\ Consumed(after.io).failures = after.io.failures
        /\ after.io.failures = 0 => g.io.failures = 0
    <2> HIDE DEF g
    <2> QED
      BY <1>1, <1>2, PeekTyped
  <1>4. CASE ~NoLoneCR
    BY <1>1, <1>4, FileKept DEF Following
  <1>5. CASE NoLoneCR
    <2>1. ASSUME g.io.failures = 0
          PROVE  \E p \in 1 .. L + 1, front \in Seq(1 .. L) :
                   /\ Found(front) /\ BetweenTokens(p, front)
                   /\ p = L + 1 => g.ch = "EOF" /\ At(g.io, p)
                   /\ p <= L =>
                        /\ g.ch = GivenAt(p) /\ At(g.io, NextAt(p))
                        /\ Reached(p, pos) /\ Reached(NextAt(p), g.pos)
      <3>1. Underway
        BY <1>1, <1>2, <1>5, <2>1 DEF Following
      <3>2. PICK p \in 1 .. L + 1, front \in Seq(1 .. L) :
              At(io, p) /\ Found(front) /\ BetweenTokens(p, front)
        BY <1>1, <3>1 DEF Underway
      <3>3. p <= L => Reached(p, pos)
        BY <3>2 DEF BetweenTokens
      <3>4. /\ p = L + 1 => g.ch = "EOF" /\ At(g.io, p)
            /\ p <= L =>
                 /\ g.ch = GivenAt(p) /\ At(g.io, NextAt(p))
                 /\ Reached(p, pos) => Reached(NextAt(p), g.pos)
        BY <1>1, <1>5, <2>1, <3>2, GetExact
      <3> HIDE DEF g
      <3>5. QED
        BY <3>2, <3>3, <3>4
    <2>2. ASSUME NEW q \in 1 .. L + 1, NEW front \in Seq(1 .. L), tokens' = tokens,
                 At(io, q)', Found(front), mode' = "between" => BetweenTokens(q, front)',
                 mode' \in {"token", "text"} => InsideToken(q, front)', mode' # "done"
          PROVE  Following'
      BY <1>1, <2>2, GoesOn
    <2>3. CASE g.ch \in {"ERROR", "EOF"} /\ Stop(g.io, g.pos, TRUE)
      <3>1. ASSUME g.io.failures = 0
            PROVE  Found(Starts[1])
        <4>1. PICK p \in 1 .. L + 1, front \in Seq(1 .. L) :
                 /\ Found(front) /\ BetweenTokens(p, front)
                 /\ p = L + 1 => g.ch = "EOF" /\ At(g.io, p)
                 /\ p <= L => g.ch = GivenAt(p)
          BY <2>1, <3>1
        <4>2. p = L + 1
          <5>1. SUFFICES ASSUME p # L + 1
                         PROVE  FALSE
            OBVIOUS
          <5>2. p \in 1 .. L /\ p <= L
            BY <1>1, <5>1
          <5>3. GivenAt(p) \in Chars
            BY <1>1, <1>5, <5>2, OnwardExact
          <5> HIDE DEF g
          <5>4. QED
            BY <2>3, <4>1, <5>2, <5>3 DEF Chars, Separators
        <4>3. Starts[1] = front \o <<>>
          BY <1>1, <4>1, <4>2, StartsExact DEF BetweenTokens
        <4>4. QED
          BY <4>1, <4>3, ConcatEmptySeq
      <3> HIDE DEF g
      <3>2. QED
        BY <1>2, <2>3, <3>1, StopNext
    <2>4. CASE /\ g.ch \in Separators /\ io' = g.io /\ pos' = g.pos
               /\ UNCHANGED <<mode, success, text, start, tokens>>
      <3>1. CASE g.io.failures # 0
        BY <1>1, <2>4, <3>1 DEF Following
      <3>2. CASE g.io.failures = 0
        <4>1. PICK p \in 1 .. L + 1, front \in Seq(1 .. L) :
                   /\ Found(front) /\ BetweenTokens(p, front)
                   /\ p = L + 1 => g.ch = "EOF" /\ At(g.io, p)
                   /\ p <= L =>
                        /\ g.ch = GivenAt(p) /\ At(g.io, NextAt(p))
                        /\ Reached(p, pos) /\ Reached(NextAt(p), g.pos)
          BY <2>1, <3>2
        <4>2. p # L + 1
          <5> HIDE DEF g
          <5> QED
            BY <2>4, <4>1 DEF Separators
        <4>3. p \in 1 .. L /\ p <= L
          BY <1>1, <4>2
        <4>4. /\ file[p] \in Separators /\ NextAt(p) \in 1 .. L + 1
              /\ file[p] = "CR" => NextAt(p) = p + 2 /\ file[p + 1] = "LF" /\ p + 1 \in 1 .. L
              /\ file[p] # "CR" => NextAt(p) = p + 1
          <5> HIDE DEF g
          <5> QED
            BY <1>1, <1>5, <2>4, <4>1, <4>3, OnwardExact
        <4>5. Starts[p] = Starts[NextAt(p)]
          <5>1. Starts[p] = Starts[p + 1]
            BY <1>1, <4>3, <4>4, StartsExact
          <5>2. CASE file[p] = "CR"
            <6>1. Starts[p + 1] = Starts[(p + 1) + 1]
              BY <1>1, <4>4, <5>2, StartsExact DEF Separators
            <6>2. (p + 1) + 1 = p + 2
              OBVIOUS
            <6>3. QED
              BY <4>4, <5>1, <5>2, <6>1, <6>2
          <5>3. QED
            BY <4>4, <5>1, <5>2
        <4>6. PICK q \in 1 .. L + 1 : q = NextAt(p)
          BY <4>4
        <4>7. At(io, q)'
          <5>1. At(g.io, q) /\ L' = L
            BY <1>1, <4>1, <4>3, <4>6, FileKept
          <5> HIDE DEF g
          <5>2. QED
            BY <1>1, <2>4, <5>1 DEF At
        <4>8. BetweenTokens(q, front)'
          <5>1. Reached(q, g.pos) /\ Starts[1] = front \o Starts[q]
            BY <4>1, <4>3, <4>5, <4>6 DEF BetweenTokens
          <5> HIDE DEF g
          <5>2. QED
            BY <1>1, <2>4, <5>1, FileKept DEF BetweenTokens, Reached
        <4>9. mode' = "between" /\ tokens' = tokens
          BY <1>1, <2>4
        <4> HIDE DEF g
        <4>10. QED
          BY <2>2, <4>1, <4>7, <4>8, <4>9
      <3>3. QED
        BY <3>1, <3>2
    <2>5. CASE /\ g.ch = "quote" /\ after.ch = "space"
               /\ mode' = "text" /\ text' = <<"quote">> /\ start' = pos
               /\ io' = Consumed(after.io)
               /\ pos' = [g.pos EXCEPT !.byte = @ + 1, !.col = @ + 1]
               /\ success' = success /\ tokens' = tokens
      <3>1. CASE after.io.failures # 0
        BY <1>1, <1>3, <2>5, <3>1 DEF Following
      <3>2. CASE after.io.failures = 0
        <4>1. PICK p \in 1 .. L + 1, front \in Seq(1 .. L) :
                   /\ Found(front) /\ BetweenTokens(p, front)
                   /\ p = L + 1 => g.ch = "EOF" /\ At(g.io, p)
                   /\ p <= L =>
                        /\ g.ch = GivenAt(p) /\ At(g.io, NextAt(p))
                        /\ Reached(p, pos) /\ Reached(NextAt(p), g.pos)
          BY <1>3, <2>1, <3>2
        <4>2. p # L + 1
          <5> HIDE DEF g
          <5> QED
            BY <2>5, <4>1
        <4>3. p \in 1 .. L /\ p <= L
          BY <1>1, <4>2
        <4>4. file[p] = "quote" /\ NextAt(p) = p + 1
          <5> HIDE DEF g
          <5> QED
            BY <1>1, <1>5, <2>5, <4>1, <4>3, OnwardExact
        <4>5. after.ch = CharAt(p + 1) /\ At(Consumed(after.io), Beyond(p + 1))
          <5>1. At(g.io, p + 1)
            BY <4>1, <4>3, <4>4
          <5> HIDE DEF g
          <5>2. QED
            BY <1>1, <1>2, <3>2, <5>1, PeekExact
        <4>6. p + 1 \in 1 .. L /\ file[p + 1] = "space" /\ Beyond(p + 1) = p + 2
          <5> HIDE DEF g, after
          <5> QED
            BY <1>1, <2>5, <4>3, <4>5 DEF CharAt, Beyond
        <4>7. IsText(p)
          BY <1>1, <4>3, <4>4, <4>6, FileLength DEF IsText
        <4> DEFINE q == p + 2
        <4>8. At(io, q)'
          <5>1. At(Consumed(after.io), q) /\ L' = L
            BY <1>1, <4>5, <4>6, FileKept
          <5> HIDE DEF g, after, q
          <5>2. QED
            BY <1>1, <2>5, <5>1 DEF At
        <4>9. pos'.line = Line(q) /\ pos'.col = Column(q)
          <5>1. g.pos.line = Line(p + 1) /\ g.pos.col = Column(p + 1)
            BY <4>1, <4>3, <4>4 DEF Reached
          <5>2. Line((p + 1) + 1) = Line(p + 1) /\ Column((p + 1) + 1) = Column(p + 1) + 1
            BY <1>1, <4>6, NextPlace
          <5> HIDE DEF g, after
          <5>3. pos'.line = g.pos.line /\ pos'.col = g.pos.col + 1
            BY <1>2, <2>5, PositionChanged
          <5>4. (p + 1) + 1 = q
            OBVIOUS
          <5> HIDE DEF q
          <5>5. QED
            BY <5>1, <5>2, <5>3, <5>4
        <4>10. AText(p, q)'
          <5>1. Joined(p)[p + 1] = <<"quote">>
            BY <1>1, <4>3, <4>6, JoinedExact
          <5>2. text' = Joined(p)[q - 1] /\ Len(text') <= MaxTextLen
            <6>1. text' = <<"quote">> /\ Len(<<"quote">>) = 1 /\ q - 1 = p + 1
              BY <2>5
            <6>2. MaxTextLen \in Nat /\ MaxTextLen >= 1
              BY LengthAssumption
            <6> HIDE DEF q
            <6>3. QED
              BY <5>1, <6>1, <6>2
          <5>3. Free(p + 2, q, {"quote"})'
            BY DEF Free
          <5>4. p + 2 <= q
            OBVIOUS
          <5> HIDE DEF g, after, q
          <5>5. QED
            BY <1>1, <4>7, <5>2, <5>3, <5>4, FileKept DEF AText
        <4>11. InsideToken(q, front)'
          <5>1. Starts[1] = front \o (<<p>> \o Starts[TokenEnd(p) + 1])
            BY <1>1, <4>1, <4>3, <4>4, StartsExact DEF BetweenTokens, Separators
          <5>2. start'.line = Line(p) /\ start'.col = Column(p)
            BY <2>5, <4>1, <4>3 DEF Reached
          <5> HIDE DEF g, after, q
          <5>3. QED
            BY <1>1, <2>5, <4>3, <4>9, <4>10, <5>1, <5>2, FileKept DEF InsideToken, Reached
        <4>12. mode' = "text" /\ tokens' = tokens /\ q \in 1 .. L + 1
          BY <1>1, <2>5, <4>6
        <4> HIDE DEF g, after, q
        <4>13. QED
          BY <2>2, <4>1, <4>8, <4>11, <4>12
      <3>3. QED
        BY <3>1, <3>2
    <2>6. CASE /\ g.ch \notin {"ERROR", "EOF"} /\ g.ch \notin Separators
               /\ ~(g.ch = "quote" /\ after.ch = "space")
               /\ mode' = "token" /\ text' = <<g.ch>> /\ start' = pos
               /\ io' = (IF g.ch = "quote" THEN after.io ELSE g.io) /\ pos' = g.pos
               /\ success' = success /\ tokens' = tokens
      <3>1. CASE io'.failures # 0
        BY <1>1, <2>6, <3>1 DEF Following
      <3>2. CASE io'.failures = 0
        <4>1. PICK p \in 1 .. L + 1, front \in Seq(1 .. L) :
                   /\ Found(front) /\ BetweenTokens(p, front)
                   /\ p = L + 1 => g.ch = "EOF" /\ At(g.io, p)
                   /\ p <= L =>
                        /\ g.ch = GivenAt(p) /\ At(g.io, NextAt(p))
                        /\ Reached(p, pos) /\ Reached(NextAt(p), g.pos)
          <5>1. g.io.failures = 0
            BY <1>3, <2>6, <3>2
          <5>2. QED
            BY <2>1, <5>1
        <4>2. p # L + 1
          <5> HIDE DEF g
          <5> QED
            BY <2>6, <4>1
        <4>3. p \in 1 .. L /\ p <= L /\ p + 1 \in 1 .. L + 1
          BY <1>1, <4>2
        <4>4. file[p] \notin Separators /\ NextAt(p) = p + 1 /\ g.ch = file[p] /\ file[p] \in Read
          <5>1. file[p] \in Read
            BY <1>1, <4>3, FileLength DEF Read
          <5> HIDE DEF g
          <5>2. QED
            BY <1>1, <1>5, <2>6, <4>1, <4>3, <5>1, OnwardExact DEF Separators
        <4> DEFINE q == p + 1
        <4>5. g.ch = "quote" => after.ch = CharAt(q) /\ At(after.io, q)
          <5>1. At(g.io, q)
            BY <4>1, <4>3, <4>4
          <5>2. g.ch = "quote" => after.io.failures = 0
            BY <2>6, <3>2
          <5> HIDE DEF g
          <5>3. QED
            BY <1>1, <1>2, <5>1, <5>2, PeekExact
        <4>6. ~IsText(p)
          <5>1. SUFFICES ASSUME IsText(p)
                         PROVE  FALSE
            OBVIOUS
          <5>2. file[p] = "quote" /\ q <= L /\ file[q] = "space"
            BY <1>1, <4>3, <5>1, FileLength DEF IsText
          <5> HIDE DEF g, after, q
          <5>3. QED
            BY <2>6, <4>4, <4>5, <5>2 DEF CharAt
        <4>8. At(io, q)'
          <5>1. At(g.io, q) /\ L' = L
            BY <1>1, <4>1, <4>3, <4>4, FileKept
          <5> HIDE DEF g, after, q
          <5>2. CASE g.ch = "quote"
            BY <1>1, <2>6, <4>5, <5>1, <5>2 DEF At
          <5>3. CASE g.ch # "quote"
            BY <1>1, <2>6, <5>1, <5>3 DEF At
          <5>4. QED
            BY <5>2, <5>3
        <4>9. pos'.line = Line(q) /\ pos'.col = Column(q)
          BY <2>6, <4>1, <4>3, <4>4 DEF Reached
        <4>10. AToken(p, q)'
          <5>1. /\ SubSeq(file, p, p) \in Seq(Read) /\ Len(SubSeq(file, p, p)) = 1
                /\ SubSeq(file, p, p)[1] = file[p]
            <6>1. \A i \in p .. p : file[i] \in Read
              BY <4>3, <4>4
            <6>2. p \in Int /\ 1 \in 1 .. p - p + 1 /\ p <= p /\ p - p + 1 = 1 /\ p + 1 - 1 = p
              BY <4>3
            <6>3. QED
              BY <6>1, <6>2, SubSeqProperties
          <5>2. <<file[p]>> \in Seq(Read) /\ Len(<<file[p]>>) = 1 /\ <<file[p]>>[1] = file[p]
            BY <4>4
          <5>3. SubSeq(file, p, p) = <<file[p]>>
            <6> DEFINE u == SubSeq(file, p, p)
                       v == <<file[p]>>
            <6>1. /\ u \in Seq(Read) /\ Len(u) = 1 /\ u[1] = file[p]
                  /\ v \in Seq(Read) /\ Len(v) = 1 /\ v[1] = file[p]
              BY <5>1, <5>2
            <6> HIDE DEF u, v
            <6>2. \A i \in 1 .. Len(u) : u[i] = v[i]
              BY <6>1
            <6>3. u = v
              BY <6>1, <6>2, SeqEqual
            <6>4. QED
              BY <6>3 DEF u, v
          <5>4. text' = SubSeq(file, p, q - 1) /\ Len(text') <= MaxTokenLen
            <6>1. text' = <<file[p]>> /\ q - 1 = p
              BY <2>6, <4>3, <4>4
            <6>2. MaxTokenLen \in Nat /\ MaxTokenLen >= 1
              BY LengthAssumption
            <6> HIDE DEF q
            <6>3. QED
              BY <5>2, <5>3, <6>1, <6>2
          <5>5. Free(p, q, Separators)
            BY <4>3, <4>4 DEF Free
          <5>6. p < q
            BY <4>3
          <5> HIDE DEF g, after, q
          <5>7. Free(p, q, Separators)'
            BY <1>1, <5>5 DEF Free
          <5>8. QED
            BY <1>1, <4>4, <4>6, <5>4, <5>6, <5>7, FileKept DEF AToken
        <4>11. InsideToken(q, front)'
          <5>1. Starts[1] = front \o (<<p>> \o Starts[TokenEnd(p) + 1])
            BY <1>1, <4>1, <4>3, <4>4, StartsExact DEF BetweenTokens
          <5>2. start'.line = Line(p) /\ start'.col = Column(p)
            BY <2>6, <4>1, <4>3 DEF Reached
          <5> HIDE DEF g, after, q
          <5>3. QED
            BY <1>1, <2>6, <4>3, <4>9, <4>10, <5>1, <5>2, FileKept DEF InsideToken, Reached
        <4>12. mode' = "token" /\ tokens' = tokens /\ q \in 1 .. L + 1
          BY <2>6, <4>3
        <4> HIDE DEF g, after, q
        <4>13. QED
          BY <2>2, <4>1, <4>8, <4>11, <4>12
      <3>3. QED
        BY <3>1, <3>2
    <2>7. QED
      <3>1. \/ g.ch \in {"ERROR", "EOF"} /\ Stop(g.io, g.pos, TRUE)
            \/ /\ g.ch \in Separators /\ io' = g.io /\ pos' = g.pos
               /\ UNCHANGED <<mode, success, text, start, tokens>>
            \/ /\ g.ch = "quote" /\ after.ch = "space"
               /\ mode' = "text" /\ text' = <<"quote">> /\ start' = pos
               /\ io' = Consumed(after.io)
               /\ pos' = [g.pos EXCEPT !.byte = @ + 1, !.col = @ + 1]
               /\ success' = success /\ tokens' = tokens
            \/ /\ g.ch \notin {"ERROR", "EOF"} /\ g.ch \notin Separators
               /\ ~(g.ch = "quote" /\ after.ch = "space")
               /\ mode' = "token" /\ text' = <<g.ch>> /\ start' = pos
               /\ io' = (IF g.ch = "quote" THEN after.io ELSE g.io) /\ pos' = g.pos
               /\ success' = success /\ tokens' = tokens
        BY DEF Between, Reads
      <3> HIDE DEF g, after
      <3>2. QED
        BY <2>3, <2>4, <2>5, <2>6, <3>1
  <1>6. QED
    BY <1>4, <1>5

\* What is read within a token.
ReadInside(p, front, b, g) ==
  /\ Found(front) /\ Starts[1] = front \o (<<b>> \o Starts[TokenEnd(b) + 1])
  /\ Reached(b, start) /\ Reached(p, pos)
  /\ mode = "token" => AToken(b, p)
  /\ mode = "text" => AText(b, p)
  /\ p = L + 1 => g.ch = "EOF" /\ At(g.io, p)
  /\ p <= L => g.ch = GivenAt(p) /\ At(g.io, NextAt(p)) /\ Reached(NextAt(p), g.pos)

LEMMA InsideReads ==
  ASSUME Typed, Following, NoLoneCR, mode \in {"token", "text"},
         NEW fails, NEW g, g = Get(fails), g.io.failures = 0
  PROVE  \E p \in 1 .. L + 1, front \in Seq(1 .. L), b \in 1 .. L : ReadInside(p, front, b, g)
  <1>1. file \in Seq(Chars) /\ IsIo(io) /\ pos \in Position
    BY DEF Typed
  <1>2. io.failures = 0
    BY <1>1, GetTyped
  <1>3. Underway
    BY <1>2 DEF Following
  <1>4. PICK p \in 1 .. L + 1, front \in Seq(1 .. L) :
          At(io, p) /\ Found(front) /\ InsideToken(p, front)
    BY <1>3 DEF Underway
  <1>5. /\ p = L + 1 => g.ch = "EOF" /\ At(g.io, p)
        /\ p <= L =>
             /\ g.ch = GivenAt(p) /\ At(g.io, NextAt(p))
             /\ Reached(p, pos) => Reached(NextAt(p), g.pos)
    BY <1>1, <1>4, GetExact
  <1>6. PICK b \in 1 .. L :
          /\ Starts[1] = front \o (<<b>> \o Starts[TokenEnd(b) + 1])
          /\ Reached(b, start) /\ Reached(p, pos)
          /\ mode = "token" => AToken(b, p)
          /\ mode = "text" => AText(b, p)
    BY <1>4 DEF InsideToken
  <1>7. ReadInside(p, front, b, g)
    BY <1>4, <1>5, <1>6 DEF ReadInside
  <1>8. QED
    BY <1>7

\* What is after the token that ends at p is what is after the character there.
LEMMA AfterSeparator ==
  ASSUME file \in Seq(Chars), NoLoneCR, NEW p \in 1 .. L, file[p] \in Separators \union {"quote"}
  PROVE  Starts[p + 1] = Starts[NextAt(p)]
  <1>1. L \in Nat
    BY FileLength
  <1>2. /\ file[p] = "CR" => NextAt(p) = p + 2 /\ file[p + 1] = "LF" /\ p + 1 \in 1 .. L
        /\ file[p] # "CR" => NextAt(p) = p + 1
    BY OnwardExact
  <1>3. CASE file[p] = "CR"
    <2>1. Starts[p + 1] = Starts[(p + 1) + 1]
      BY <1>2, <1>3, StartsExact DEF Separators
    <2>2. (p + 1) + 1 = p + 2
      OBVIOUS
    <2>3. QED
      BY <1>2, <1>3, <2>1, <2>2
  <1>4. QED
    BY <1>2, <1>3

\* A token that is cut short is not one the file may have.
LEMMA CutShort ==
  ASSUME file \in Seq(Chars), NEW front \in Seq(1 .. L), NEW b \in 1 .. L,
         file[b] \notin Separators,
         Starts[1] = front \o (<<b>> \o Starts[TokenEnd(b) + 1]), ~TokenOK(b)
  PROVE  \E k \in DOMAIN Starts[1] : ~TokenOK(Starts[1][k])
  <1>1. L \in Nat /\ TokenEnd(b) \in b + 1 .. L + 1
    BY FileLength, TokenEndExact
  <1>2. TokenEnd(b) + 1 \in 1 .. L + 2
    BY <1>1
  <1>3. Starts[TokenEnd(b) + 1] \in Seq(1 .. L)
    BY <1>2, StartsExact
  <1>4. Len(front) + 1 \in DOMAIN Starts[1] /\ Starts[1][Len(front) + 1] = b
    BY <1>3, OneOnHere
  <1>5. QED
    BY <1>4

\* One more of what is found, and the rest of what there is.
LEMMA FoundOneOn ==
  ASSUME file \in Seq(Chars), NEW front \in Seq(1 .. L), NEW b \in 1 .. L,
         file[b] \notin Separators,
         Starts[1] = front \o (<<b>> \o Starts[TokenEnd(b) + 1])
  PROVE  Starts[1] = Append(front, b) \o Starts[TokenEnd(b) + 1]
  <1>1. L \in Nat /\ TokenEnd(b) \in b + 1 .. L + 1
    BY FileLength, TokenEndExact
  <1>2. TokenEnd(b) + 1 \in 1 .. L + 2
    BY <1>1
  <1>3. Starts[TokenEnd(b) + 1] \in Seq(1 .. L)
    BY <1>2, StartsExact
  <1> DEFINE rest == Starts[TokenEnd(b) + 1]
             all == Starts[1]
  <1>4. rest \in Seq(1 .. L) /\ all = front \o (<<b>> \o rest)
    BY <1>3
  <1> HIDE DEF rest, all
  <1>5. front \o (<<b>> \o rest) = Append(front, b) \o rest
    BY <1>4, OneOnHere, Zenon
  <1>6. all = Append(front, b) \o rest
    BY <1>4, <1>5, Zenon
  <1>7. QED
    BY <1>6, Zenon DEF all, rest

\* A token that ends is found.
LEMMA EndTokenNext ==
  ASSUME Typed, NoLoneCR, NEW g, EndToken(g),
         NEW p \in 1 .. L + 1, NEW front \in Seq(1 .. L), NEW b \in 1 .. L, Found(front),
         Starts[1] = front \o (<<b>> \o Starts[TokenEnd(b) + 1]),
         Reached(b, start), Reached(p, pos), file[b] \notin Separators,
         TokenEnd(b) = p, TokenOK(b), text = TokenText(b),
         NEW q \in 1 .. L + 1, At(g.io, q), Starts[p + 1] = Starts[q],
         q <= L => Reached(q, g.pos)
  PROVE  Following'
  <1>1. /\ file \in Seq(Chars) /\ tokens \in Seq(TokenType) /\ L \in Nat
        /\ text \in Seq(Read) /\ start \in Position /\ pos \in Position
    BY FileLength DEF Typed
  <1> DEFINE t == [text |-> text, start |-> start, end |-> pos]
  <1>2. /\ mode' = "between" /\ tokens' = Append(tokens, t) /\ io' = g.io /\ pos' = g.pos
        /\ file' = file
    BY DEF EndToken, Reads
  <1>3. t \in TokenType
    BY <1>1 DEF TokenType
  <1>4. IsToken(t, b)
    BY DEF IsToken
  <1>5. PICK u : u = t
    OBVIOUS
  <1> HIDE DEF t
  <1>6. tokens' = Append(tokens, u) /\ u \in TokenType /\ IsToken(u, b)
    BY <1>2, <1>3, <1>4, <1>5
  <1>7. PICK more \in Seq(1 .. L) : more = Append(front, b) /\ Found(more)'
    BY <1>1, <1>2, <1>6, FoundAnother
  <1>8. Starts[1] = more \o Starts[q]
    <2>1. Starts[1] = Append(front, b) \o Starts[p + 1]
      BY <1>1, FoundOneOn
    <2>2. QED
      BY <1>7, <2>1
  <1>9. At(io, q)'
    BY <1>2, FileKept DEF At
  <1>10. BetweenTokens(q, more)'
    BY <1>2, <1>8, FileKept DEF BetweenTokens, Reached
  <1>11. Underway'
    BY <1>2, <1>7, <1>9, <1>10, FileKept DEF Underway
  <1>12. QED
    BY <1>2, <1>11 DEF Following

\* Inside a token: a separator or the end of the file ends it.
LEMMA InTokenNext ==
  ASSUME Typed, Following, NEW fails, InToken(fails)
  PROVE  Following'
  <1>1. PICK g : g = Get(fails)
    OBVIOUS
  <1>2. /\ file \in Seq(Chars) /\ IsIo(io) /\ pos \in Position /\ L \in Nat
        /\ mode = "token" /\ file' = file /\ text \in Seq(Read)
    BY FileLength DEF Typed, InToken, Stop, EndToken, More
  <1>3. g.ch \in Read /\ IsIo(g.io) /\ g.pos \in Position
    BY <1>1, <1>2, GetTyped
  <1>4. \/ g.ch = "ERROR" /\ Stop(g.io, g.pos, TRUE)
        \/ g.ch \in Separators \union {"EOF"} /\ EndToken(g)
        \/ g.ch # "ERROR" /\ g.ch \notin Separators \union {"EOF"} /\ More(g)
    BY <1>1 DEF InToken
  <1>5. CASE ~NoLoneCR
    BY <1>2, <1>5, FileKept DEF Following
  <1>6. CASE NoLoneCR /\ g.io.failures # 0
    <2>1. CASE Stop(g.io, g.pos, TRUE) \/ Stop(g.io, g.pos, FALSE)
      BY <1>3, <1>6, <2>1, StopNext
    <2>2. CASE mode' # "done" /\ io' = g.io
      BY <1>6, <2>2 DEF Following
    <2>3. QED
      BY <1>2, <1>4, <2>1, <2>2 DEF EndToken, More, Reads
  <1>7. CASE NoLoneCR /\ g.io.failures = 0
    <2>1. PICK p \in 1 .. L + 1, front \in Seq(1 .. L), b \in 1 .. L : ReadInside(p, front, b, g)
      BY <1>1, <1>2, <1>7, InsideReads
    <2>2. /\ Found(front) /\ Starts[1] = front \o (<<b>> \o Starts[TokenEnd(b) + 1])
          /\ Reached(b, start) /\ Reached(p, pos)
          /\ b < p /\ file[b] \notin Separators
          /\ ~IsText(b) /\ Free(b, p, Separators)
          /\ text = SubSeq(file, b, p - 1) /\ Len(text) <= MaxTokenLen
          /\ p = L + 1 => g.ch = "EOF" /\ At(g.io, p)
          /\ p <= L => g.ch = GivenAt(p) /\ At(g.io, NextAt(p)) /\ Reached(NextAt(p), g.pos)
      BY <1>2, <2>1 DEF ReadInside, AToken
    <2>3. /\ TokenEnd(b) = First(Ends(b, Separators))
          /\ TokenText(b) = SubSeq(file, b, TokenEnd(b) - 1)
          /\ TokenOK(b) <=> Len(TokenText(b)) <= MaxTokenLen
      BY <2>2, Zenon DEF TokenEnd, TokenText, TokenOK
    <2>4. /\ TokenEnd(b) \in p .. L + 1
          /\ p = L + 1 => TokenEnd(b) = p
          /\ p <= L /\ file[p] \in Separators => TokenEnd(b) = p
          /\ p <= L /\ file[p] \notin Separators => TokenEnd(b) > p
      <3>1. b \in Nat /\ p \in b .. L + 1
        BY <1>2, <2>2
      <3>2. QED
        BY <1>2, <2>2, <2>3, <3>1, EndsAfter
    <2>5. p # L + 1 =>
            /\ p \in 1 .. L /\ p <= L /\ NextAt(p) \in 1 .. L + 1
            /\ g.ch \in Separators <=> file[p] \in Separators
            /\ g.ch \in Chars
            /\ file[p] \notin Separators => g.ch = file[p] /\ NextAt(p) = p + 1
      <3> SUFFICES ASSUME p # L + 1
                   PROVE  /\ p \in 1 .. L /\ p <= L /\ NextAt(p) \in 1 .. L + 1
                          /\ g.ch \in Separators <=> file[p] \in Separators
                          /\ g.ch \in Chars
                          /\ file[p] \notin Separators => g.ch = file[p] /\ NextAt(p) = p + 1
        OBVIOUS
      <3>1. p \in 1 .. L /\ p <= L
        BY <1>2
      <3>2. /\ NextAt(p) \in p + 1 .. L + 1
            /\ GivenAt(p) \in Separators <=> file[p] \in Separators
            /\ GivenAt(p) \in Chars
            /\ file[p] # "CR" => NextAt(p) = p + 1 /\ GivenAt(p) = file[p]
        BY <1>2, <1>7, <3>1, OnwardExact
      <3>3. g.ch = GivenAt(p)
        BY <2>2, <3>1
      <3>4. file[p] \notin Separators => file[p] # "CR"
        BY DEF Separators
      <3>5. NextAt(p) \in 1 .. L + 1
        BY <1>2, <3>1, <3>2
      <3>6. QED
        BY <3>1, <3>2, <3>3, <3>4, <3>5
    <2>6. CASE g.ch = "ERROR" /\ Stop(g.io, g.pos, TRUE)
      BY <2>2, <2>5, <2>6 DEF Chars, Separators
    <2>7. CASE g.ch \in Separators \union {"EOF"} /\ EndToken(g)
      <3>1. p # L + 1 => p \in 1 .. L /\ p <= L /\ file[p] \in Separators
        BY <2>5, <2>7 DEF Chars, Separators
      <3>2. TokenEnd(b) = p
        BY <2>4, <3>1
      <3>3. text = TokenText(b) /\ TokenOK(b)
        BY <2>2, <2>3, <3>2
      <3>4. PICK q \in 1 .. L + 1 :
              At(g.io, q) /\ Starts[p + 1] = Starts[q] /\ (q <= L => Reached(q, g.pos))
        <4>1. CASE p = L + 1
          <5>1. Starts[p + 1] = Starts[p]
            <6>1. p + 1 = L + 2
              BY <1>2, <4>1
            <6>2. QED
              BY <1>2, <4>1, <6>1, StartsExact
          <5>2. ~(p <= L)
            BY <1>2, <4>1
          <5>3. QED
            BY <2>2, <4>1, <5>1, <5>2
        <4>2. CASE p # L + 1
          <5>1. Starts[p + 1] = Starts[NextAt(p)]
            BY <1>2, <1>7, <2>5, <3>1, <4>2, AfterSeparator
          <5>2. QED
            BY <2>2, <2>5, <4>2, <5>1
        <4>3. QED
          BY <4>1, <4>2
      <3>5. QED
        BY <1>7, <2>2, <2>7, <3>2, <3>3, <3>4, EndTokenNext
    <2>8. CASE g.ch # "ERROR" /\ g.ch \notin Separators \union {"EOF"} /\ More(g)
      <3>1. /\ p \in 1 .. L /\ p <= L /\ p + 1 \in 1 .. L + 1 /\ file[p] \notin Separators
            /\ g.ch = file[p] /\ NextAt(p) = p + 1 /\ TokenEnd(b) > p
        BY <1>2, <2>2, <2>4, <2>5, <2>8
      <3>2. \A i \in b .. L : file[i] \in Read
        BY <1>2, FileLength DEF Read
      <3>3. Len(text) = p - b
        <4>1. \A i \in b .. p - 1 : file[i] \in Read
          BY <1>2, <3>1, <3>2
        <4>2. QED
          BY <2>2, <4>1, SubSeqProperties
      <3>4. CASE Len(text) < MaxTokenLen
        <4>1. /\ text' = Append(text, file[p]) /\ io' = g.io /\ pos' = g.pos
              /\ mode' = "token" /\ start' = start /\ tokens' = tokens
          BY <1>2, <2>8, <3>1, <3>4 DEF More, Limit, Reads
        <4>2. SubSeq(file, b, p) = Append(text, file[p])
          <5>1. file \in Seq(Read)
            BY <1>2, SeqMonotonic DEF Read
          <5>2. b \in 1 .. Len(file) /\ p \in b .. Len(file)
            BY <1>2, <2>2, <3>1, FileLength
          <5>3. SubSeq(file, b, p) = SubSeq(file, b, p - 1) \o <<file[p]>>
            BY <5>1, <5>2, SubSeqRecursiveSecond
          <5>4. Append(text, file[p]) = text \o <<file[p]>>
            BY <1>2, <1>3, <3>1, AppendIsConcat
          <5>5. QED
            BY <2>2, <5>3, <5>4
        <4>3. Len(text') <= MaxTokenLen
          <5>1. Len(text') = Len(text) + 1
            BY <1>2, <1>3, <3>1, <4>1, AppendProperties
          <5>2. MaxTokenLen \in Nat
            BY LengthAssumption
          <5>3. QED
            BY <1>2, <3>3, <3>4, <5>1, <5>2
        <4>4. PICK q \in 1 .. L + 1 : q = p + 1
          BY <3>1
        <4>5. At(io, q)'
          BY <1>2, <2>2, <3>1, <4>1, <4>4, FileKept DEF At
        <4>6. AToken(b, q)'
          <5>1. Free(b, q, Separators)'
            BY <1>2, <2>2, <3>1, <4>4 DEF Free
          <5>2. text' = SubSeq(file, b, q - 1) /\ b < q
            BY <2>2, <4>1, <4>2, <4>4
          <5>3. QED
            BY <1>2, <2>2, <4>3, <5>1, <5>2, FileKept DEF AToken
        <4>7. InsideToken(q, front)'
          <5>1. Reached(q, g.pos)
            BY <2>2, <3>1, <4>4
          <5>2. QED
            BY <1>2, <2>2, <4>1, <4>6, <5>1, FileKept DEF InsideToken, Reached
        <4>8. QED
          BY <1>2, <2>2, <4>1, <4>5, <4>7, GoesOn
      <3>5. CASE ~(Len(text) < MaxTokenLen)
        <4>1. Stop(g.io, g.pos, FALSE)
          BY <1>2, <2>8, <3>5 DEF More, Limit
        <4>2. Len(TokenText(b)) = TokenEnd(b) - b
          <5>1. \A i \in b .. TokenEnd(b) - 1 : file[i] \in Read
            BY <1>2, <2>4, <3>2
          <5>2. b <= TokenEnd(b) - 1 /\ TokenEnd(b) - 1 \in Int
            BY <2>2, <2>4
          <5>3. PICK e \in Int : e = TokenEnd(b) - 1
            BY <5>2
          <5>4. Len(SubSeq(file, b, e)) = e - b + 1
            BY <5>1, <5>2, <5>3, SubSeqProperties
          <5>5. QED
            BY <2>3, <2>4, <5>3, <5>4
        <4>3. ~TokenOK(b)
          <5>1. MaxTokenLen \in Nat
            BY LengthAssumption
          <5>2. QED
            BY <2>3, <2>4, <3>1, <3>3, <3>5, <4>2, <5>1
        <4>4. \E k \in DOMAIN Starts[1] : ~TokenOK(Starts[1][k])
          BY <1>2, <2>2, <4>3, CutShort
        <4>5. QED
          BY <1>3, <4>1, <4>4, StopNext
      <3>6. QED
        BY <3>4, <3>5
    <2>9. QED
      BY <1>4, <2>6, <2>7, <2>8
  <1>8. QED
    BY <1>5, <1>6, <1>7

\* Inside a text: a quote ends it, the end of the file does not.
LEMMA InTextNext ==
  ASSUME Typed, Following, NEW fails, InText(fails)
  PROVE  Following'
  <1>1. PICK g : g = Get(fails)
    OBVIOUS
  <1>2. /\ file \in Seq(Chars) /\ IsIo(io) /\ pos \in Position /\ L \in Nat
        /\ mode = "text" /\ file' = file /\ text \in Seq(Read)
    BY FileLength DEF Typed, InText, Stop, EndToken, More
  <1>3. g.ch \in Read /\ IsIo(g.io) /\ g.pos \in Position
    BY <1>1, <1>2, GetTyped
  <1>4. \/ g.ch \in {"ERROR", "EOF"} /\ Stop(g.io, g.pos, FALSE)
        \/ g.ch = "quote" /\ EndToken(g)
        \/ g.ch \notin {"ERROR", "EOF", "quote"} /\ More(g)
    BY <1>1 DEF InText
  <1>5. CASE ~NoLoneCR
    BY <1>2, <1>5, FileKept DEF Following
  <1>6. CASE NoLoneCR /\ g.io.failures # 0
    <2>1. CASE Stop(g.io, g.pos, FALSE)
      BY <1>3, <1>6, <2>1, StopNext
    <2>2. CASE mode' # "done" /\ io' = g.io
      BY <1>6, <2>2 DEF Following
    <2>3. QED
      BY <1>2, <1>4, <2>1, <2>2 DEF EndToken, More, Reads
  <1>7. CASE NoLoneCR /\ g.io.failures = 0
    <2>1. PICK p \in 1 .. L + 1, front \in Seq(1 .. L), b \in 1 .. L : ReadInside(p, front, b, g)
      BY <1>1, <1>2, <1>7, InsideReads
    <2>2. /\ Found(front) /\ Starts[1] = front \o (<<b>> \o Starts[TokenEnd(b) + 1])
          /\ Reached(b, start) /\ Reached(p, pos)
          /\ b + 2 <= p /\ IsText(b) /\ Free(b + 2, p, {"quote"})
          /\ text = Joined(b)[p - 1] /\ Len(text) <= MaxTextLen
          /\ p = L + 1 => g.ch = "EOF" /\ At(g.io, p)
          /\ p <= L => g.ch = GivenAt(p) /\ At(g.io, NextAt(p)) /\ Reached(NextAt(p), g.pos)
      BY <1>2, <2>1 DEF ReadInside, AText
    <2>3. /\ TokenEnd(b) = First(Ends(b + 2, {"quote"}))
          /\ TokenText(b) = Joined(b)[TokenEnd(b) - 1]
          /\ TokenOK(b) <=> TokenEnd(b) <= L /\ Len(TokenText(b)) <= MaxTextLen
      <3>1. L = Len(file)
        BY DEF L
      <3>2. QED
        BY <2>2, <3>1, Zenon DEF TokenEnd, TokenText, TokenOK
    <2>4. /\ TokenEnd(b) \in p .. L + 1
          /\ p = L + 1 => TokenEnd(b) = p
          /\ p <= L /\ file[p] \in {"quote"} => TokenEnd(b) = p
          /\ p <= L /\ file[p] \notin {"quote"} => TokenEnd(b) > p
      <3>1. b + 2 \in Nat /\ p \in b + 2 .. L + 1
        BY <1>2, <2>2
      <3>2. QED
        BY <1>2, <2>2, <2>3, <3>1, EndsAfter
    <2>5. p # L + 1 =>
            /\ p \in 1 .. L /\ p <= L /\ NextAt(p) \in p + 1 .. L + 1
            /\ g.ch = "quote" <=> file[p] = "quote"
            /\ g.ch \in Chars /\ g.ch = GivenAt(p)
            /\ file[p] = "CR" => NextAt(p) = p + 2 /\ file[p + 1] = "LF" /\ p + 1 \in 1 .. L
            /\ file[p] # "CR" => NextAt(p) = p + 1 /\ GivenAt(p) = file[p]
      <3> SUFFICES ASSUME p # L + 1
                   PROVE  /\ p \in 1 .. L /\ p <= L /\ NextAt(p) \in p + 1 .. L + 1
                          /\ g.ch = "quote" <=> file[p] = "quote"
                          /\ g.ch \in Chars /\ g.ch = GivenAt(p)
                          /\ file[p] = "CR" =>
                               NextAt(p) = p + 2 /\ file[p + 1] = "LF" /\ p + 1 \in 1 .. L
                          /\ file[p] # "CR" => NextAt(p) = p + 1 /\ GivenAt(p) = file[p]
        OBVIOUS
      <3>1. p \in 1 .. L /\ p <= L
        BY <1>2
      <3>2. g.ch = GivenAt(p)
        BY <2>2, <3>1
      <3>3. /\ NextAt(p) \in p + 1 .. L + 1
            /\ GivenAt(p) = "quote" <=> file[p] = "quote"
            /\ GivenAt(p) \in Chars
        BY <1>2, <1>7, <3>1, OnwardExact
      <3>4. /\ file[p] = "CR" => NextAt(p) = p + 2 /\ file[p + 1] = "LF" /\ p + 1 \in 1 .. L
            /\ file[p] # "CR" => NextAt(p) = p + 1 /\ GivenAt(p) = file[p]
        BY <1>2, <1>7, <3>1, OnwardExact
      <3>5. QED
        BY <3>1, <3>2, <3>3, <3>4
    <2>6. b + 1 <= L /\ file[b] \notin Separators
      BY <1>2, <2>2, TextBegins
    <2>7. CASE g.ch \in {"ERROR", "EOF"} /\ Stop(g.io, g.pos, FALSE)
      <3>1. p = L + 1
        BY <2>5, <2>7 DEF Chars, Separators
      <3>2. ~TokenOK(b)
        BY <1>2, <2>3, <2>4, <3>1
      <3>3. \E k \in DOMAIN Starts[1] : ~TokenOK(Starts[1][k])
        BY <1>2, <2>2, <2>6, <3>2, CutShort
      <3>4. QED
        BY <1>3, <2>7, <3>3, StopNext
    <2>8. CASE g.ch = "quote" /\ EndToken(g)
      <3>1. p \in 1 .. L /\ p <= L /\ file[p] = "quote" /\ p # L + 1
        BY <2>2, <2>5, <2>8
      <3>2. TokenEnd(b) = p
        BY <2>4, <3>1
      <3>3. text = TokenText(b) /\ TokenOK(b)
        BY <2>2, <2>3, <3>1, <3>2
      <3>4. PICK q \in 1 .. L + 1 :
              At(g.io, q) /\ Starts[p + 1] = Starts[q] /\ (q <= L => Reached(q, g.pos))
        <4>1. Starts[p + 1] = Starts[NextAt(p)]
          BY <1>2, <1>7, <3>1, AfterSeparator
        <4>2. NextAt(p) \in 1 .. L + 1
          BY <1>2, <2>5, <3>1
        <4>3. QED
          BY <2>2, <3>1, <4>1, <4>2
      <3>5. QED
        BY <1>7, <2>2, <2>6, <2>8, <3>2, <3>3, <3>4, EndTokenNext
    <2>9. CASE g.ch \notin {"ERROR", "EOF", "quote"} /\ More(g)
      <3>1. p # L + 1 /\ p \in 1 .. L /\ p <= L /\ file[p] # "quote" /\ TokenEnd(b) > p
        BY <2>2, <2>4, <2>5, <2>9
      <3>2. PICK q \in p + 1 .. L + 1 : q = NextAt(p)
        BY <2>5, <3>1
      <3>3. q \in 1 .. L + 1
        BY <1>2, <3>2
      <3>4. /\ file[p] = "CR" => q = p + 2 /\ file[p + 1] = "LF" /\ p + 1 \in 1 .. L
            /\ file[p] # "CR" => q = p + 1 /\ GivenAt(p) = file[p]
            /\ g.ch = GivenAt(p)
        BY <2>5, <3>1, <3>2
      <3>5. Joined(b)[q - 1] = Append(text, g.ch)
        <4>1. \A n \in b + 2 .. L :
                Joined(b)[n] = IF file[n] = "CR" THEN Joined(b)[n - 1]
                               ELSE Append(Joined(b)[n - 1], file[n])
          BY <1>2, <2>6, JoinedExact
        <4>2. p \in b + 2 .. L
          BY <1>2, <2>2, <3>1
        <4>3. CASE file[p] = "CR"
          <5>1. p + 1 \in b + 2 .. L /\ (p + 1) - 1 = p /\ q - 1 = p + 1
            BY <1>2, <3>4, <4>2, <4>3
          <5>2. Joined(b)[p] = text
            BY <2>2, <4>1, <4>2, <4>3
          <5>3. Joined(b)[p + 1] = Append(Joined(b)[p], "LF")
            BY <3>4, <4>1, <4>3, <5>1
          <5>4. g.ch = "LF"
            BY <3>4, <4>3 DEF GivenAt
          <5>5. QED
            BY <5>1, <5>2, <5>3, <5>4
        <4>4. CASE file[p] # "CR"
          <5>1. q - 1 = p /\ g.ch = file[p]
            BY <3>4, <4>4
          <5>2. QED
            BY <2>2, <4>1, <4>2, <4>4, <5>1
        <4>5. QED
          BY <4>3, <4>4
      <3>6. CASE Len(text) < MaxTextLen
        <4>1. /\ text' = Append(text, g.ch) /\ io' = g.io /\ pos' = g.pos
              /\ mode' = "text" /\ start' = start /\ tokens' = tokens
          BY <1>2, <2>9, <3>6 DEF More, Limit, Reads
        <4>2. Len(text') <= MaxTextLen
          <5>1. Len(text') = Len(text) + 1 /\ Len(text) \in Nat
            BY <1>2, <1>3, <4>1, AppendProperties, LenProperties
          <5>2. MaxTextLen \in Nat
            BY LengthAssumption
          <5>3. QED
            BY <3>6, <5>1, <5>2
        <4>3. At(io, q)'
          <5>1. At(g.io, q)
            BY <2>2, <3>1, <3>2
          <5>2. QED
            BY <1>2, <4>1, <5>1, FileKept DEF At
        <4>4. AText(b, q)'
          <5>1. ASSUME NEW j \in b + 2 .. q - 1
                PROVE  file[j] # "quote"
            <6>1. j \in b + 2 .. p - 1 \/ j = p \/ (file[p] = "CR" /\ j = p + 1)
              BY <1>2, <2>2, <3>1, <3>4
            <6>2. QED
              BY <2>2, <3>1, <3>4, <6>1 DEF Free
          <5>2. Free(b + 2, q, {"quote"})'
            BY <1>2, <5>1 DEF Free
          <5>3. text' = Joined(b)[q - 1] /\ b + 2 <= q
            BY <2>2, <3>2, <3>5, <4>1
          <5>4. QED
            BY <1>2, <2>2, <4>2, <5>2, <5>3, FileKept DEF AText
        <4>5. InsideToken(q, front)'
          <5>1. Reached(q, g.pos)
            BY <2>2, <3>1, <3>2
          <5>2. QED
            BY <1>2, <2>2, <4>1, <4>4, <5>1, FileKept DEF InsideToken, Reached
        <4>6. QED
          BY <1>2, <2>2, <3>3, <4>1, <4>3, <4>5, GoesOn
      <3>7. CASE ~(Len(text) < MaxTextLen)
        <4>1. Stop(g.io, g.pos, FALSE)
          BY <1>2, <2>9, <3>7 DEF More, Limit
        <4>2. TokenEnd(b) <= L => TokenEnd(b) - 1 \in q - 1 .. L /\ q - 1 \in b + 1 .. L
          <5>1. ASSUME TokenEnd(b) <= L
                PROVE  q <= TokenEnd(b)
            <6>1. file[TokenEnd(b)] = "quote"
              <7>1. b + 2 \in Nat /\ b + 2 <= L + 1
                BY <1>2, <2>6
              <7>2. TokenEnd(b) = L + 1 \/ file[TokenEnd(b)] \in {"quote"}
                BY <1>2, <2>3, <7>1, FirstExact
              <7>3. QED
                BY <1>2, <2>4, <5>1, <7>2
            <6>2. file[p] = "CR" => TokenEnd(b) # p + 1
              BY <3>4, <6>1
            <6>3. TokenEnd(b) \in p + 1 .. L + 1
              BY <1>2, <2>4, <3>1
            <6>4. q = p + 1 \/ (q = p + 2 /\ TokenEnd(b) # p + 1)
              BY <3>4, <6>2
            <6>5. QED
              BY <1>2, <6>3, <6>4
          <5> DEFINE e == TokenEnd(b)
          <5>2. e \in Nat /\ L \in Nat /\ b \in Nat /\ q \in Nat /\ q >= b + 2
            BY <1>2, <2>2, <2>4, <3>2
          <5>3. e <= L => q <= e
            BY <5>1
          <5> HIDE DEF e
          <5>4. e <= L => e - 1 \in q - 1 .. L /\ q - 1 \in b + 1 .. L
            BY <5>2, <5>3
          <5>5. QED
            BY <5>4 DEF e
        <4>3. TokenEnd(b) <= L => Len(Joined(b)[q - 1]) <= Len(TokenText(b))
          BY <1>2, <2>3, <2>6, <4>2, JoinedGrows
        <4>4. Len(Joined(b)[q - 1]) = Len(text) + 1 /\ Len(text) \in Nat
          BY <1>2, <1>3, <3>5, AppendProperties, LenProperties
        <4>5. TokenEnd(b) <= L => Len(TokenText(b)) \in Nat
          <5>1. TokenEnd(b) <= L => TokenEnd(b) - 1 \in 0 .. L
            BY <1>2, <2>4
          <5>2. TokenEnd(b) <= L => TokenText(b) \in Seq(Read)
            BY <1>2, <2>3, <2>6, <5>1, JoinedExact
          <5>3. QED
            BY <5>2, LenProperties
        <4>6. ~TokenOK(b)
          <5>1. MaxTextLen \in Nat
            BY LengthAssumption
          <5>2. QED
            BY <2>3, <3>7, <4>3, <4>4, <4>5, <5>1
        <4>7. \E k \in DOMAIN Starts[1] : ~TokenOK(Starts[1][k])
          BY <1>2, <2>2, <2>6, <4>6, CutShort
        <4>8. QED
          BY <1>3, <4>1, <4>7, StopNext
      <3>8. QED
        BY <3>6, <3>7
    <2>10. QED
      BY <1>4, <2>7, <2>8, <2>9
  <1>8. QED
    BY <1>5, <1>6, <1>7

-----------------------------------------------------------------------------
(***************************************************************************)
(* The theorems.                                                           *)
(***************************************************************************)

LEMMA FollowingNext ==
  ASSUME LexerInv, [Next]_vars
  PROVE  Following'
  <1>1. Typed /\ Following
    BY DEF LexerInv
  <1>2. ASSUME NEW fails, Between(fails)
        PROVE  Following'
    BY <1>1, <1>2, BetweenNext
  <1>3. ASSUME NEW fails, InToken(fails)
        PROVE  Following'
    BY <1>1, <1>3, InTokenNext
  <1>4. ASSUME NEW fails, InText(fails)
        PROVE  Following'
    BY <1>1, <1>4, InTextNext
  <1>5. CASE UNCHANGED vars
    <2>1. /\ file' = file /\ io' = io /\ pos' = pos /\ mode' = mode
          /\ success' = success /\ text' = text /\ start' = start /\ tokens' = tokens
      BY <1>5 DEF vars
    <2>2. NoLoneCR' <=> NoLoneCR
      BY <2>1, FileKept
    <2>3. CASE mode = "done" /\ NoLoneCR
      <3>1. Answer
        BY <1>1, <2>3 DEF Following
      <3>2. /\ Starts' = Starts
            /\ \A t, b : IsToken(t, b)' <=> IsToken(t, b)
        BY <2>1, FileKept DEF IsToken, Reached
      <3>3. \A b : TokenOK(b)' = TokenOK(b)
        BY <2>1, FileKept
      <3>4. Answer'
        BY <2>1, <3>1, <3>2, <3>3, FileKept DEF Answer, IsToken, Reached
      <3>5. QED
        BY <2>1, <2>3, <3>4 DEF Following
    <2>4. CASE mode # "done" /\ io.failures = 0 /\ NoLoneCR
      <3>1. Underway
        BY <1>1, <2>4 DEF Following
      <3>2. PICK p \in 1 .. L + 1, front \in Seq(1 .. L) :
              /\ At(io, p) /\ Found(front)
              /\ mode = "between" => BetweenTokens(p, front)
              /\ mode \in {"token", "text"} => InsideToken(p, front)
        BY <3>1 DEF Underway
      <3>3. At(io, p)'
        BY <2>1, <3>2, FileKept DEF At
      <3>4. mode' = "between" => BetweenTokens(p, front)'
        BY <2>1, <3>2, FileKept DEF BetweenTokens, Reached
      <3>5. ASSUME mode' \in {"token", "text"}
            PROVE  InsideToken(p, front)'
        <4>1. PICK b \in 1 .. L :
                /\ Starts[1] = front \o (<<b>> \o Starts[TokenEnd(b) + 1])
                /\ Reached(b, start) /\ Reached(p, pos)
                /\ mode = "token" => AToken(b, p)
                /\ mode = "text" => AText(b, p)
          BY <2>1, <3>2, <3>5 DEF InsideToken
        <4>2. Reached(b, start)' /\ Reached(p, pos)'
          BY <2>1, <4>1, FileKept DEF Reached
        <4>3. mode' = "token" => AToken(b, p)'
          BY <2>1, <4>1, FileKept DEF AToken, Free
        <4>4. mode' = "text" => AText(b, p)'
          BY <2>1, <4>1, FileKept DEF AText, Free
        <4>5. QED
          BY <2>1, <4>1, <4>2, <4>3, <4>4, FileKept DEF InsideToken
      <3>6. QED
        BY <2>1, <2>4, <3>2, <3>3, <3>4, <3>5, GoesOn
    <2>5. QED
      BY <2>1, <2>2, <2>3, <2>4 DEF Following
  <1>6. QED
    BY <1>2, <1>3, <1>4, <1>5 DEF Next, Done

LEMMA LexerInductive == Spec => []LexerInv
  <1>1. Init => LexerInv
    BY TypedInit, FollowingInit DEF LexerInv
  <1>2. LexerInv /\ [Next]_vars => LexerInv'
    BY TypedNext, FollowingNext DEF LexerInv
  <1>3. QED
    BY <1>1, <1>2, PTL DEF Spec

\* However many reads fail, the tokens of a file are what its separators
\* separate, each at its line and column, and a failed read is an error and
\* never the end of the file: what buxn_asm_get_char, with one character held
\* back, and the scan of a token or text make of it, character by character.
THEOREM TokensFound == Spec => []TokensExact
  <1>1. LexerInv => TokensExact
    <2> SUFFICES ASSUME LexerInv, mode = "done", NoLoneCR
                 PROVE  TokensExact
      BY DEF TokensExact
    <2>1. Answer /\ success \in BOOLEAN
      BY DEF LexerInv, Following, Typed
    <2>2. success <=> io.failures = 0 /\ \A k \in DOMAIN Starts[1] : TokenOK(Starts[1][k])
      BY <2>1 DEF Answer
    <2>3. success = (io.failures = 0 /\ \A k \in DOMAIN Starts[1] : TokenOK(Starts[1][k]))
      BY <2>1, <2>2
    <2>4. success =>
            /\ Len(tokens) = Len(Starts[1])
            /\ \A k \in DOMAIN Starts[1] : IsToken(tokens[k], Starts[1][k])
      BY <2>1 DEF Answer
    <2>5. QED
      BY <2>3, <2>4 DEF TokensExact, IsToken, Reached
  <1>2. QED
    BY <1>1, LexerInductive, PTL

-----------------------------------------------------------------------------
(***************************************************************************)
(* The REPL.                                                               *)
(***************************************************************************)
Symbolic == {st \in [Stacks -> Seq(Nat)] : \A s \in Stacks : Len(st[s]) < StackSize}
Sizes == [Stacks -> Nat]
Entry == [at : Nat \ {0}, st : Symbolic]
End == [how : {"printed", "left", "failed", "cut"}, sizes : Sizes]

\* What the variables range over that the stacks and the names depend on.
TypeOK ==
  /\ stage \in {"turn", "line", "check", "run"}
  /\ arena \in {"a", "b"} /\ names \in {"none", "gone", "a", "b"} /\ kept \in BOOLEAN
  /\ symbolic \in Symbolic /\ signature \in Symbolic
  /\ sizes \in [Stacks -> 0 .. StackSize - 1]
  /\ input \in Seq(Tokens) /\ entries \in Seq(Entry)
  /\ ends \subseteq End /\ IsFiniteSet(ends)
  /\ machine \in [at : Nat, reset : BOOLEAN] /\ (stage = "run" => machine.at # 0)

\* The sizes of the stacks after a token, and where the machine may be then.
After(t, z) == [s \in Stacks |-> (z[s] + Gives(t, s)) % StackSize]

Place(e) == <<e.at, SizesOf(e.st)>>

Steps(t) == IF t = "?{" THEN {1, 2} ELSE {1}

Onward(p) == {<<p[1] + step, After(Token(p[1]), p[2])>> : step \in Steps(Token(p[1]))}

PrintedOf(z) == [how |-> "printed", sizes |-> z]

\* The end of the line was printed there, or the way goes on within the set.
Settled(p, V) ==
  \/ p[1] > Len(input) /\ PrintedOf(p[2]) \in ends
  \/ p[1] <= Len(input) /\ Token(p[1]) # "leave" /\ Onward(p) \subseteq V

Pending(es, p) == \E i \in 1 .. Len(es) : p = Place(es[i])

\* A set of places with the first one, in which only those that are still to be
\* followed are not settled.
Covers(V) ==
  /\ V \subseteq (Nat \ {0}) \X Sizes
  /\ <<1, SizesOf(signature)>> \in V
  /\ \A p \in V : Settled(p, V) \/ Pending(entries, p)

AllPrinted == \A e \in ends : e.how = "printed"

\* The runs of the checker are followed everywhere, as long as they print.
Followed == stage = "check" /\ AllPrinted => \E V : Covers(V)

\* The machine is where the checker was, and what was printed is where it gets to.
Executed ==
  stage = "run" /\ differ = {} =>
    /\ entries = <<>> /\ ends = {PrintedOf(SizesOf(symbolic))}
    /\ \E V : Covers(V) /\ <<machine.at, sizes>> \in V

\* What the stacks are when no reason is known why they should differ.
Agreed ==
  /\ stage = "turn" /\ differ = {} => SizesOf(symbolic) = sizes
  /\ stage \in {"line", "check"} /\ differ = {} =>
       /\ SizesOf(signature) = sizes
       /\ Printed = {} => SizesOf(symbolic) = sizes
  /\ stage = "line" => ends = {}
  /\ stage = "check" /\ Printed # {} => PrintedOf(SizesOf(symbolic)) \in ends

\* Which arena the names are in.
Named ==
  /\ stage = "turn" /\ ~kept => names \in {"none", arena}
  /\ stage \in {"check", "run"} /\ Printed # {} => names = arena
  /\ NamesAlive

IInv == TypeOK /\ Followed /\ Executed /\ Agreed /\ Named

-----------------------------------------------------------------------------
(***************************************************************************)
(* The checker's stacks and the machine's.                                 *)
(***************************************************************************)

\* What the sizes of stacks are.
LEMMA SizesExact ==
  ASSUME NEW st \in Symbolic
  PROVE  /\ SizesOf(st) \in Sizes /\ \A s \in Stacks : SizesOf(st)[s] = Len(st[s])
         /\ st.wst \in Seq(Nat) /\ st.rst \in Seq(Nat)
         /\ Len(st.wst) < StackSize /\ Len(st.rst) < StackSize
  <1>1. \A s \in Stacks : st[s] \in Seq(Nat) /\ Len(st[s]) \in Nat /\ Len(st[s]) < StackSize
    BY DEF Symbolic
  <1>2. SizesOf(st) \in Sizes /\ \A s \in Stacks : SizesOf(st)[s] = Len(st[s])
    BY <1>1 DEF SizesOf, Sizes
  <1>3. QED
    BY <1>1, <1>2 DEF Stacks

\* A value more, and one more on the stack, or none.
LEMMA PushedExact ==
  ASSUME NEW stack \in Seq(Nat), Len(stack) < StackSize, NEW length \in Nat
  PROVE  /\ Pushed(stack, length) \in Seq(Nat)
         /\ Len(Pushed(stack, length)) = (Len(stack) + 1) % StackSize
         /\ Len(Pushed(stack, length)) < StackSize
  <1>1. StackSize \in Nat /\ StackSize > 0 /\ Len(stack) \in Nat
    BY StackSizeAssumption
  <1>2. CASE Len(stack) + 1 = StackSize
    <2>1. Pushed(stack, length) = <<>> /\ Len(<<>>) = 0 /\ <<>> \in Seq(Nat)
      BY <1>2 DEF Pushed
    <2>2. StackSize % StackSize = 0
      BY <1>1
    <2>3. QED
      BY <1>1, <1>2, <2>1, <2>2
  <1>3. CASE Len(stack) + 1 # StackSize
    <2>1. Pushed(stack, length) = Append(stack, length)
      BY <1>3 DEF Pushed
    <2>2. Append(stack, length) \in Seq(Nat) /\ Len(Append(stack, length)) = Len(stack) + 1
      BY AppendProperties
    <2>3. (Len(stack) + 1) % StackSize = Len(stack) + 1
      BY <1>1, <1>3
    <2>4. QED
      BY <1>1, <1>3, <2>1, <2>2, <2>3
  <1>4. QED
    BY <1>2, <1>3

\* What the tokens give to each stack and take from it.
LEMMA GivesExact ==
  ASSUME NEW t \in Tokens
  PROVE  /\ t = "literal" => Takes(t) = 0 /\ Gives(t, "wst") = 1
         /\ t = "add" => Takes(t) = 2 /\ Gives(t, "wst") = -1
         /\ t \in {"pop", "?{", "stash"} => Takes(t) = 1 /\ Gives(t, "wst") = -1
         /\ t \notin {"literal", "add", "pop", "?{", "stash"} => Takes(t) = 0 /\ Gives(t, "wst") = 0
         /\ Gives(t, "rst") = IF t = "stash" THEN 1 ELSE 0
  <1>1. /\ t = "literal" => Takes(t) = 0
        /\ t = "add" => Takes(t) = 2
        /\ t \in {"pop", "?{", "stash"} => Takes(t) = 1
        /\ t \notin {"literal", "add", "pop", "?{", "stash"} => Takes(t) = 0
    BY DEF Takes
  <1>2. /\ Gives(t, "wst") = (IF t \in {"literal", "add"} THEN 1 ELSE 0) - Takes(t)
        /\ Gives(t, "rst") = IF t = "stash" THEN 1 ELSE 0
    BY DEF Gives
  <1>3. t = "literal" => Gives(t, "wst") = 1 - 0
    BY <1>1, <1>2
  <1>4. t = "add" => Gives(t, "wst") = 1 - 2
    BY <1>1, <1>2
  <1>5. t \in {"pop", "?{", "stash"} => Gives(t, "wst") = 0 - 1
    BY <1>1, <1>2
  <1>6. t \notin {"literal", "add", "pop", "?{", "stash"} => Gives(t, "wst") = 0 - 0
    BY <1>1, <1>2
  <1>7. 1 - 0 = 1 /\ 1 - 2 = -1 /\ 0 - 1 = -1 /\ 0 - 0 = 0
    OBVIOUS
  <1>8. QED
    BY <1>1, <1>2, <1>3, <1>4, <1>5, <1>6, <1>7, Zenon

\* A token makes of the checker's stacks what it makes of the machine's.
LEMMA AppliedExact ==
  ASSUME NEW t \in Tokens, NEW st \in Symbolic, Takes(t) <= Len(st.wst)
  PROVE  Applied(t, st) \in Symbolic /\ SizesOf(Applied(t, st)) = After(t, SizesOf(st))
  <1> DEFINE wst == st.wst
             rst == st.rst
             rest == SubSeq(wst, 1, Len(wst) - Takes(t))
             new == Applied(t, st)
  <1>1. /\ wst \in Seq(Nat) /\ rst \in Seq(Nat) /\ Len(wst) < StackSize /\ Len(rst) < StackSize
        /\ Len(wst) \in Nat /\ Len(rst) \in Nat /\ StackSize \in Nat
        /\ SizesOf(st)["wst"] = Len(wst) /\ SizesOf(st)["rst"] = Len(rst)
    BY SizesExact, StackSizeAssumption DEF Stacks
  <1>2. Takes(t) \in {0, 1, 2}
    BY GivesExact
  <1>3. rest \in Seq(Nat) /\ Len(rest) = Len(wst) - Takes(t) /\ Len(rest) < StackSize
    <2>1. Len(wst) - Takes(t) \in 0 .. Len(wst)
      BY <1>1, <1>2
    <2> DEFINE n == Len(wst) - Takes(t)
    <2>2. n \in 1 - 1 .. Len(wst) /\ 1 \in 1 .. Len(wst) + 1 /\ n - 1 + 1 = n
      BY <1>1, <2>1
    <2> HIDE DEF n, wst
    <2>3. SubSeq(wst, 1, n) \in Seq(Nat) /\ Len(SubSeq(wst, 1, n)) = n
      BY <1>1, <2>2, SubSeqProperties
    <2>4. n < StackSize
      BY <1>1, <2>2
    <2>5. QED
      BY <2>3, <2>4 DEF n
  <1>4. Takes(t) > 0 => Top(wst) \in Nat
    BY <1>1, <1>2 DEF Top
  <1>5. st \in [Stacks -> Seq(Nat)]
    BY DEF Symbolic
  <1> DEFINE W == (Len(wst) + Gives(t, "wst")) % StackSize
             R == (Len(rst) + Gives(t, "rst")) % StackSize
  <1>6. SUFFICES /\ new \in [Stacks -> Seq(Nat)]
                 /\ Len(new["wst"]) = W /\ Len(new["rst"]) = R
                 /\ Len(new["wst"]) < StackSize /\ Len(new["rst"]) < StackSize
    <2>1. new \in Symbolic
      BY <1>6 DEF Symbolic, Stacks
    <2>2. SizesOf(new) = [s \in Stacks |-> Len(new[s])]
      BY DEF SizesOf
    <2>3. After(t, SizesOf(st)) = [s \in Stacks |-> IF s = "wst" THEN W ELSE R]
      BY <1>1 DEF After, Stacks
    <2>4. \A s \in Stacks : Len(new[s]) = IF s = "wst" THEN W ELSE R
      BY <1>6 DEF Stacks
    <2> HIDE DEF new, W, R
    <2>5. SizesOf(new) = After(t, SizesOf(st))
      BY <2>2, <2>3, <2>4
    <2>6. QED
      BY <2>1, <2>5 DEF new
  <1>7. \A n \in Nat : n < StackSize => n % StackSize = n
    BY <1>1, SmallRemainder
  <1>8. "wst" \in Stacks /\ "rst" \in Stacks
    BY DEF Stacks
  <1>9. CASE t = "literal"
    <2>1. new = [st EXCEPT !.wst = Pushed(wst, 1)]
      BY <1>9 DEF Applied
    <2>2. Gives(t, "wst") = 1 /\ Gives(t, "rst") = 0
      BY <1>9, GivesExact
    <2>3. Pushed(wst, 1) \in Seq(Nat) /\ Len(Pushed(wst, 1)) = W /\ Len(Pushed(wst, 1)) < StackSize
      BY <1>1, <2>2, PushedExact
    <2>4. new["wst"] = Pushed(wst, 1) /\ new["rst"] = rst /\ new \in [Stacks -> Seq(Nat)]
      BY <1>5, <1>8, <2>1, <2>3
    <2>5. R = Len(rst)
      BY <1>1, <1>7, <2>2
    <2>6. QED
      BY <1>1, <2>3, <2>4, <2>5
  <1>10. CASE t = "add"
    <2> DEFINE name == wst[Len(wst) - 1] + 1 + Top(wst)
    <2>1. Takes(t) = 2
      BY <1>10, GivesExact
    <2>2. name \in Nat
      BY <1>1, <1>4, <2>1
    <2>3. new = [st EXCEPT !.wst = Pushed(rest, name)]
      BY <1>10 DEF Applied
    <2>4. Gives(t, "wst") = -1 /\ Gives(t, "rst") = 0
      BY <1>10, GivesExact
    <2>5. /\ Pushed(rest, name) \in Seq(Nat) /\ Len(Pushed(rest, name)) < StackSize
          /\ Len(Pushed(rest, name)) = (Len(rest) + 1) % StackSize
      <3> HIDE DEF rest, name
      <3> QED
        BY <1>3, <2>2, PushedExact
    <2>6. Len(Pushed(rest, name)) = W /\ R = Len(rst)
      <3> DEFINE gives == Gives(t, "wst")
      <3>1. Len(wst) + gives = Len(rest) + 1 /\ Len(rst) + 0 = Len(rst)
        <4> HIDE DEF rest, wst, rst, gives
        <4> QED
          BY <1>1, <1>3, <2>1, <2>4 DEF gives
      <3> HIDE DEF gives, rest, wst, rst
      <3>2. QED
        BY <1>1, <1>7, <2>4, <2>5, <3>1 DEF gives
    <2>7. new["wst"] = Pushed(rest, name) /\ new["rst"] = rst /\ new \in [Stacks -> Seq(Nat)]
      <3> HIDE DEF rest, name, new
      <3> QED
        BY <1>5, <1>8, <2>3, <2>5
    <2>8. QED
      BY <1>1, <2>5, <2>6, <2>7
  <1>11. CASE t \in {"pop", "?{"}
    <2>1. new = [st EXCEPT !.wst = rest]
      BY <1>11 DEF Applied
    <2>2. Takes(t) = 1 /\ Gives(t, "wst") = -1 /\ Gives(t, "rst") = 0
      BY <1>11, GivesExact
    <2>3. W = Len(rest) /\ R = Len(rst)
      <3>1. Len(wst) + Gives(t, "wst") = Len(rest) /\ Len(rst) + 0 = Len(rst) /\ Len(rest) \in Nat
        <4> HIDE DEF rest, wst, rst
        <4> QED
          BY <1>1, <1>3, <2>2
      <3> HIDE DEF rest, wst, rst
      <3>2. QED
        BY <1>1, <1>3, <1>7, <2>2, <3>1
    <2>4. new["wst"] = rest /\ new["rst"] = rst /\ new \in [Stacks -> Seq(Nat)]
      <3> HIDE DEF rest, new
      <3> QED
        BY <1>3, <1>5, <1>8, <2>1
    <2>5. QED
      BY <1>1, <1>3, <2>3, <2>4
  <1>12. CASE t = "stash"
    <2> DEFINE more == Pushed(rst, Top(wst))
    <2>1. new = [st EXCEPT !.wst = rest, !.rst = more]
      BY <1>12 DEF Applied
    <2>2. Takes(t) = 1 /\ Gives(t, "wst") = -1 /\ Gives(t, "rst") = 1
      BY <1>12, GivesExact
    <2>3. more \in Seq(Nat) /\ Len(more) = R /\ Len(more) < StackSize
      BY <1>1, <1>4, <2>2, PushedExact
    <2>4. W = Len(rest)
      <3>1. Len(wst) + Gives(t, "wst") = Len(rest) /\ Len(rest) \in Nat
        <4> HIDE DEF rest, wst
        <4> QED
          BY <1>1, <1>3, <2>2
      <3> HIDE DEF rest, wst
      <3>2. QED
        BY <1>3, <1>7, <3>1
    <2>5. new["wst"] = rest /\ new["rst"] = more /\ new \in [Stacks -> Seq(Nat)]
      <3> HIDE DEF rest, more, new
      <3> QED
        BY <1>3, <1>5, <1>8, <2>1, <2>3
    <2>6. QED
      BY <1>3, <2>3, <2>4, <2>5
  <1>13. CASE t \notin {"literal", "add", "pop", "?{", "stash"}
    <2>1. new = st
      BY <1>13 DEF Applied
    <2>2. Gives(t, "wst") = 0 /\ Gives(t, "rst") = 0
      BY <1>13, GivesExact
    <2>3. Len(wst) + 0 = Len(wst) /\ Len(rst) + 0 = Len(rst)
      BY <1>1
    <2>4. W = Len(wst) /\ R = Len(rst)
      BY <1>1, <1>7, <2>2, <2>3
    <2>5. new \in [Stacks -> Seq(Nat)] /\ new["wst"] = wst /\ new["rst"] = rst
      BY <1>5, <2>1
    <2>6. QED
      BY <1>1, <2>4, <2>5
  <1>14. QED
    BY <1>9, <1>10, <1>11, <1>12, <1>13

-----------------------------------------------------------------------------
(***************************************************************************)
(* The runs of the checker.                                                *)
(***************************************************************************)

\* What is pending when the first entry has given way to others.
LEMMA PendingMoves ==
  ASSUME NEW es \in Seq(Entry), es # <<>>, NEW first \in Seq(Entry)
  PROVE  LET new == first \o Tail(es)
         IN  /\ new \in Seq(Entry) /\ Head(es) \in Entry /\ Pending(es, Place(Head(es)))
             /\ \A p : Pending(es, p) => p = Place(Head(es)) \/ Pending(new, p)
             /\ \A p : Pending(first, p) => Pending(new, p)
  <1> DEFINE tail == Tail(es)
             new == first \o tail
  <1>1. /\ tail \in Seq(Entry) /\ Len(tail) = Len(es) - 1 /\ Head(es) \in Entry /\ Head(es) = es[1]
        /\ \A i \in 1 .. Len(tail) : tail[i] = es[i + 1]
        /\ Len(es) \in Nat \ {0} /\ Len(first) \in Nat
    BY HeadTailProperties, LenProperties, EmptySeq
  <1> HIDE DEF tail
  <1>2. /\ new \in Seq(Entry) /\ Len(new) = Len(first) + Len(tail)
        /\ \A i \in 1 .. Len(first) + Len(tail) :
             new[i] = IF i <= Len(first) THEN first[i] ELSE tail[i - Len(first)]
    BY <1>1, ConcatProperties
  <1> HIDE DEF new
  <1>3. Pending(es, Place(Head(es)))
    BY <1>1 DEF Pending
  <1>4. ASSUME NEW p, Pending(es, p), p # Place(Head(es))
        PROVE  Pending(new, p)
    <2>1. PICK i \in 1 .. Len(es) : p = Place(es[i])
      BY <1>4 DEF Pending
    <2>2. i # 1
      BY <1>1, <1>4, <2>1
    <2> DEFINE j == Len(first) + (i - 1)
    <2>3. /\ j \in 1 .. Len(first) + Len(tail) /\ ~(j <= Len(first)) /\ j - Len(first) = i - 1
          /\ i - 1 \in 1 .. Len(tail) /\ (i - 1) + 1 = i
      BY <1>1, <2>1, <2>2
    <2>4. new[j] = es[i]
      BY <1>1, <1>2, <2>3
    <2>5. QED
      BY <1>2, <2>1, <2>3, <2>4 DEF Pending
  <1>5. ASSUME NEW p, Pending(first, p)
        PROVE  Pending(new, p)
    <2>1. PICK i \in 1 .. Len(first) : p = Place(first[i])
      BY <1>5 DEF Pending
    <2>2. i \in 1 .. Len(first) + Len(tail) /\ i <= Len(first) /\ Len(tail) \in Nat
      BY <1>1, <2>1
    <2>3. new[i] = first[i]
      BY <1>2, <2>2
    <2>4. QED
      BY <1>2, <2>1, <2>2, <2>3 DEF Pending
  <1>6. QED
    BY <1>1, <1>2, <1>3, <1>4, <1>5 DEF new, tail

\* One entry or two, and their places.
LEMMA FewPending ==
  ASSUME NEW e \in Entry, NEW f \in Entry
  PROVE  /\ <<e>> \in Seq(Entry) /\ Pending(<<e>>, Place(e))
         /\ <<e, f>> \in Seq(Entry) /\ Pending(<<e, f>>, Place(e)) /\ Pending(<<e, f>>, Place(f))
  <1>1. Len(<<e>>) = 1 /\ <<e>>[1] = e /\ Len(<<e, f>>) = 2 /\ <<e, f>>[1] = e /\ <<e, f>>[2] = f
    OBVIOUS
  <1>2. 1 \in 1 .. 1 /\ 1 \in 1 .. 2 /\ 2 \in 1 .. 2
    OBVIOUS
  <1>3. Pending(<<e>>, Place(e))
    BY <1>1, <1>2 DEF Pending
  <1>4. Pending(<<e, f>>, Place(e))
    BY <1>1, <1>2 DEF Pending
  <1>5. Pending(<<e, f>>, Place(f))
    BY <1>1, <1>2 DEF Pending
  <1>6. QED
    BY <1>3, <1>4, <1>5

\* A run that ends: without a print, or with one.
LEMMA RunEnds ==
  ASSUME TypeOK, entries # <<>>, NEW how \in {"printed", "left", "failed", "cut"}, EndRun(how)
  PROVE  /\ entries' = Tail(entries) /\ entries' \in Seq(Entry)
         /\ [how |-> how, sizes |-> SizesOf(Now.st)] \in End
         /\ ends' = ends \union {[how |-> how, sizes |-> SizesOf(Now.st)]}
  <1>1. entries \in Seq(Entry)
    BY DEF TypeOK
  <1>2. Now \in Entry /\ Tail(entries) \in Seq(Entry)
    BY <1>1, HeadTailProperties DEF Now
  <1>3. SizesOf(Now.st) \in Sizes
    BY <1>2, SizesExact DEF Entry
  <1>4. QED
    BY <1>2, <1>3 DEF EndRun, End

\* What a step of the checker is: a run ends without a print, or prints, or goes on to
\* all the places where the machine may.
LEMMA CheckKinds ==
  ASSUME TypeOK, CheckStep
  PROVE  /\ stage = "check" /\ entries # <<>> /\ Now \in Entry /\ entries' \in Seq(Entry)
         /\ UNCHANGED <<stage, arena, sizes, signature, input, machine, kept, differ>>
         /\ \/ /\ \E e \in End : e.how # "printed" /\ ends' = ends \union {e}
               /\ UNCHANGED <<symbolic, names>>
            \/ /\ Now.at > Len(input) /\ entries' = Tail(entries)
               /\ ends' = ends \union {PrintedOf(SizesOf(Now.st))}
               /\ symbolic' = Now.st /\ names' = arena
            \/ /\ Now.at <= Len(input) /\ Token(Now.at) # "leave"
               /\ \E first \in Seq(Entry) :
                    /\ entries' = first \o Tail(entries)
                    /\ \A p \in Onward(Place(Now)) : Pending(first, p)
               /\ UNCHANGED <<ends, symbolic, names>>
  <1>1. /\ stage = "check" /\ entries # <<>> /\ entries \in Seq(Entry)
        /\ UNCHANGED <<stage, arena, sizes, signature, input, machine, kept, differ>>
    BY DEF CheckStep, TypeOK
  <1>2. Now \in Entry /\ Now.at \in Nat \ {0} /\ Now.st \in Symbolic
    <2>1. Now \in Entry
      BY <1>1, HeadTailProperties DEF Now
    <2>2. QED
      BY <2>1 DEF Entry
  <1>3. ASSUME Fail
        PROVE  /\ entries' \in Seq(Entry) /\ UNCHANGED <<symbolic, names>>
               /\ \E e \in End : e.how # "printed" /\ ends' = ends \union {e}
    BY <1>1, <1>3, RunEnds DEF Fail
  <1>4. CASE Now.at > Len(input)
    <2>1. CASE Fail
      BY <1>1, <1>2, <1>3, <2>1
    <2>2. CASE PrintStacks
      BY <1>1, <1>2, <1>4, <2>2, RunEnds DEF PrintStacks, PrintedOf
    <2>3. QED
      BY <1>1, <1>4, <2>1, <2>2 DEF CheckStep
  <1>5. CASE ~(Now.at > Len(input))
    <2> DEFINE t == Token(Now.at)
               st == Applied(t, Now.st)
    <2>1. input \in Seq(Tokens) /\ Len(input) \in Nat
      BY LenProperties DEF TypeOK
    <2>2. Now.at <= Len(input) /\ t \in Tokens
      BY <1>2, <1>5, <2>1, ElementOfSeq DEF Token
    <2>3. CASE t = "leave"
      <3>1. Leave
        BY <1>5, <2>3 DEF CheckStep
      <3>2. CASE Fail
        BY <1>1, <1>2, <1>3, <3>2
      <3>3. CASE EndRun("left") /\ UNCHANGED <<symbolic, names, jumps, errors>>
        BY <1>1, <1>2, <3>3, RunEnds
      <3>4. QED
        BY <3>1, <3>2, <3>3 DEF Leave
    <2>4. CASE t # "leave" /\ Takes(t) > Len(Now.st.wst)
      <3>1. Fail
        BY <1>5, <2>4 DEF CheckStep
      <3>2. QED
        BY <1>1, <1>2, <1>3, <3>1
    <2>5. CASE t # "leave" /\ ~(Takes(t) > Len(Now.st.wst))
      <3>1. Takes(t) <= Len(Now.st.wst)
        <4>1. Takes(t) \in {0, 1, 2}
          BY <2>2, GivesExact
        <4>2. Len(Now.st.wst) \in Nat
          BY <1>2, SizesExact
        <4>3. QED
          BY <2>5, <4>1, <4>2
      <3>2. st \in Symbolic /\ SizesOf(st) = After(t, SizesOf(Now.st))
        BY <1>2, <2>2, <3>1, AppliedExact
      <3> DEFINE fork == [at |-> Now.at + 1, st |-> st]
                 jump == [at |-> Now.at + 2, st |-> st]
      <3>3. /\ fork \in Entry /\ Place(fork) = <<Now.at + 1, After(t, SizesOf(Now.st))>>
            /\ jump \in Entry /\ Place(jump) = <<Now.at + 2, After(t, SizesOf(Now.st))>>
        BY <1>2, <3>2 DEF Entry, Place
      <3>4. /\ Place(Now) = <<Now.at, SizesOf(Now.st)>>
            /\ Onward(Place(Now)) = {<<Now.at + step, After(t, SizesOf(Now.st))>> : step \in Steps(t)}
        BY DEF Place, Onward
      <3>5. CASE t = "?{"
        <4>1. Branch(st)
          BY <1>5, <2>5, <3>5 DEF CheckStep
        <4>2. CASE Now.at \in jumps
          <5>1. /\ entries' = <<fork>> \o Tail(entries) /\ UNCHANGED <<symbolic, names>>
                /\ ends' = ends \union {[how |-> "cut", sizes |-> SizesOf(st)]}
            BY <4>1, <4>2 DEF Branch
          <5>2. entries' \in Seq(Entry)
            BY <1>1, <3>3, <5>1, FewPending, PendingMoves
          <5>3. [how |-> "cut", sizes |-> SizesOf(st)] \in End
            BY <3>2, SizesExact DEF End
          <5>4. QED
            BY <1>1, <1>2, <5>1, <5>2, <5>3
        <4>3. CASE Now.at \notin jumps
          <5>1. entries' = <<jump, fork>> \o Tail(entries) /\ UNCHANGED <<ends, symbolic, names>>
            BY <4>1, <4>3 DEF Branch
          <5>2. /\ <<jump, fork>> \in Seq(Entry) /\ Pending(<<jump, fork>>, Place(jump))
                /\ Pending(<<jump, fork>>, Place(fork))
            BY <3>3, FewPending
          <5>3. entries' \in Seq(Entry)
            BY <1>1, <5>1, <5>2, PendingMoves
          <5>4. \A p \in Onward(Place(Now)) : p = Place(fork) \/ p = Place(jump)
            BY <3>3, <3>4 DEF Steps
          <5> HIDE DEF fork, jump, t
          <5>5. QED
            BY <1>1, <1>2, <2>2, <2>5, <5>1, <5>2, <5>3, <5>4 DEF t
        <4>4. QED
          BY <4>2, <4>3
      <3>6. CASE t # "?{"
        <4>1. Sequential(t)
          BY <1>5, <2>5, <3>6 DEF CheckStep
        <4>2. entries' = <<fork>> \o Tail(entries) /\ UNCHANGED <<ends, symbolic, names>>
          BY <4>1 DEF Sequential
        <4>3. <<fork>> \in Seq(Entry) /\ Pending(<<fork>>, Place(fork))
          BY <3>3, FewPending
        <4>4. entries' \in Seq(Entry)
          BY <1>1, <4>2, <4>3, PendingMoves
        <4>5. \A p \in Onward(Place(Now)) : p = Place(fork)
          BY <3>3, <3>4, <3>6 DEF Steps
        <4> HIDE DEF fork, t
        <4>6. QED
          BY <1>1, <1>2, <2>2, <2>5, <4>2, <4>3, <4>4, <4>5 DEF t
      <3>7. QED
        BY <3>5, <3>6
    <2>6. QED
      BY <2>3, <2>4, <2>5
  <1>6. QED
    BY <1>4, <1>5

-----------------------------------------------------------------------------
(***************************************************************************)
(* The steps.                                                              *)
(***************************************************************************)

\* No values are stacks, and of size 0.
LEMMA NoValuesExact ==
  /\ NoValues \in Symbolic /\ SizesOf(NoValues) \in [Stacks -> 0 .. StackSize - 1]
  <1>1. /\ <<>> \in Seq(Nat) /\ Len(<<>>) = 0 /\ 0 < StackSize /\ 0 \in 0 .. StackSize - 1
    BY StackSizeAssumption
  <1>2. NoValues \in Symbolic
    BY <1>1 DEF NoValues, Symbolic
  <1>3. \A s \in Stacks : Len(NoValues[s]) = 0
    BY <1>1 DEF NoValues
  <1>4. SizesOf(NoValues) \in [Stacks -> 0 .. StackSize - 1]
    BY <1>1, <1>3 DEF SizesOf
  <1>5. QED
    BY <1>2, <1>4

\* At first there is nothing.
LEMMA InitInv == InitRepl => IInv
  <1> SUFFICES ASSUME InitRepl
               PROVE  IInv
    OBVIOUS
  <1>1. TypeOK
    <2>1. <<>> \in Seq(Tokens) /\ <<>> \in Seq(Entry)
      OBVIOUS
    <2>2. machine \in [at : Nat, reset : BOOLEAN]
      BY DEF InitRepl, NoRun
    <2>3. ends = {} /\ IsFiniteSet({})
      BY FS_EmptySet DEF InitRepl
    <2>4. QED
      BY <2>1, <2>2, <2>3, NoValuesExact DEF InitRepl, TypeOK
  <1>2. Followed /\ Executed
    BY DEF InitRepl, Followed, Executed
  <1>3. Agreed /\ Named
    BY DEF InitRepl, Agreed, Named, NamesAlive, Printed
  <1>4. QED
    BY <1>1, <1>2, <1>3 DEF IInv

\* What a turn begins with.
LEMMA BeginsTurn ==
  ASSUME TypeOK, BeginTurn
  PROVE  /\ arena' \in {"a", "b"} /\ names' \in {"none", "gone", "a", "b"}
         /\ names' = "gone" => names \notin {"none", arena}
         /\ names \in {"none", arena} => names' \in {"none", Other(arena')}
         /\ ends' = {} /\ IsFiniteSet(ends') /\ Printed' = {}
         /\ input' \in Seq(Tokens) /\ entries' \in Seq(Entry)
         /\ machine' \in [at : Nat, reset : BOOLEAN]
         /\ UNCHANGED <<symbolic, sizes>>
  <1>1. arena' = Other(arena) /\ names' = Surviving(arena') /\ arena \in {"a", "b"}
        /\ names \in {"none", "gone", "a", "b"}
    BY DEF BeginTurn, TypeOK
  <1>2. /\ arena' \in {"a", "b"} /\ names' \in {"none", "gone", "a", "b"}
        /\ names' = "gone" => names \notin {"none", arena}
        /\ names \in {"none", arena} => names' \in {"none", Other(arena')}
    BY <1>1 DEF Other, Surviving
  <1>3. ends' = {} /\ input' = <<>> /\ entries' = <<>> /\ machine' = NoRun
        /\ UNCHANGED <<symbolic, sizes>>
    BY DEF BeginTurn
  <1>4. IsFiniteSet(ends') /\ Printed' = {}
    BY <1>3, FS_EmptySet DEF Printed
  <1>5. QED
    BY <1>2, <1>3, <1>4 DEF NoRun

\* A turn that cannot begin.
LEMMA UnreadableStep ==
  ASSUME IInv, Unreadable
  PROVE  IInv'
  <1>1. /\ TypeOK /\ stage = "turn" /\ stage' = "turn" /\ kept' = TRUE /\ BeginTurn
        /\ UNCHANGED <<signature, differ>>
    BY DEF IInv, Unreadable
  <1>2. TypeOK'
    BY <1>1, BeginsTurn DEF TypeOK
  <1>3. Followed' /\ Executed' /\ Named'
    BY <1>1 DEF Followed, Executed, Named, NamesAlive
  <1>4. UNCHANGED <<symbolic, sizes>>
    BY <1>1, BeginsTurn
  <1>5. Agreed'
    BY <1>1, <1>4 DEF IInv, Agreed, SizesOf
  <1>6. QED
    BY <1>2, <1>3, <1>5 DEF IInv

\* The signature of a turn is read.
LEMMA ReadStep ==
  ASSUME IInv, ReadSignature
  PROVE  IInv'
  <1>1. /\ TypeOK /\ stage = "turn" /\ stage' = "line" /\ BeginTurn /\ UNCHANGED kept
        /\ differ' = {} => differ = {} /\ names' # "gone" /\ signature' = symbolic
    BY DEF IInv, ReadSignature
  <1>2. signature' \in Symbolic
    <2>1. PICK st \in MayRead : signature' = ReadAs(st)
      BY DEF ReadSignature
    <2>2. st \in Symbolic
      BY <1>1, NoValuesExact DEF MayRead, TypeOK
    <2>3. QED
      BY <2>1, <2>2, NoValuesExact DEF ReadAs
  <1>3. TypeOK'
    BY <1>1, <1>2, BeginsTurn DEF TypeOK
  <1>4. Followed' /\ Executed'
    BY <1>1 DEF Followed, Executed
  <1>5. Agreed'
    <2>1. ends' = {} /\ UNCHANGED <<symbolic, sizes>>
      BY <1>1, BeginsTurn
    <2>2. differ = {} => SizesOf(symbolic) = sizes
      BY <1>1 DEF IInv, Agreed
    <2>3. QED
      BY <1>1, <2>1, <2>2 DEF Agreed, SizesOf
  <1>6. Named'
    <2>1. ~kept => names \in {"none", arena}
      BY <1>1 DEF IInv, Named
    <2>2. names' = "gone" => kept'
      BY <1>1, <2>1, BeginsTurn
    <2>3. QED
      BY <1>1, <2>2 DEF Named, NamesAlive
  <1>7. QED
    BY <1>3, <1>4, <1>5, <1>6 DEF IInv

\* A turn is given up.
LEMMA GivesUp ==
  ASSUME IInv, GiveUp, stage \in {"line", "check"}, TypeOK',
         UNCHANGED <<symbolic, sizes, arena, names, ends>>,
         differ' = {} => differ = {} /\ Printed = {}
  PROVE  IInv'
  <1>1. stage' = "turn" /\ kept' = (Printed = {})
    BY DEF GiveUp
  <1>2. Followed' /\ Executed'
    BY <1>1 DEF Followed, Executed
  <1>3. Agreed'
    BY <1>1 DEF IInv, Agreed, SizesOf
  <1>4. Named'
    <2>1. Printed # {} => names = arena
      BY DEF IInv, Named, Agreed, Printed
    <2>2. ~kept' => Printed # {}
      BY <1>1
    <2>3. QED
      BY <1>1, <2>1, <2>2 DEF Named, NamesAlive
  <1>5. QED
    BY <1>2, <1>3, <1>4 DEF IInv

\* The checker begins: the first place is pending.
LEMMA CheckBegins ==
  ASSUME IInv, stage = "line", CheckLine, input' \in Seq(Tokens),
         UNCHANGED <<symbolic, names, arena, sizes, signature, machine, ends, differ>>
  PROVE  IInv'
  <1> DEFINE first == [at |-> 1, st |-> signature]
             V == {<<1, SizesOf(signature)>>}
  <1>1. /\ stage' = "check" /\ entries' = <<first>> /\ UNCHANGED kept /\ TypeOK
        /\ signature \in Symbolic
    BY DEF CheckLine, IInv, TypeOK
  <1>2. first \in Entry /\ Place(first) = <<1, SizesOf(signature)>> /\ SizesOf(signature) \in Sizes
    BY <1>1, SizesExact DEF Entry, Place
  <1>3. <<first>> \in Seq(Entry) /\ Pending(<<first>>, Place(first))
    BY <1>2, FewPending
  <1>4. TypeOK'
    BY <1>1, <1>3 DEF TypeOK
  <1>5. Covers(V)'
    <2>1. V \subseteq (Nat \ {0}) \X Sizes
      BY <1>2
    <2>2. SizesOf(signature') = SizesOf(signature)
      OBVIOUS
    <2>3. \A p \in V : Pending(entries', p)
      BY <1>1, <1>2, <1>3
    <2>4. QED
      BY <2>1, <2>2, <2>3 DEF Covers
  <1>6. Followed' /\ Executed'
    BY <1>1, <1>5 DEF Followed, Executed
  <1>7. ends = {} /\ Printed' = {} /\ Printed = {}
    BY DEF IInv, Agreed, Printed
  <1>8. Agreed'
    BY <1>1, <1>7 DEF IInv, Agreed, SizesOf
  <1>9. Named'
    BY <1>1, <1>7 DEF Named, NamesAlive
  <1>10. QED
    BY <1>4, <1>6, <1>8, <1>9 DEF IInv

\* Something is typed.
LEMMA TypeLineStep ==
  ASSUME IInv, NEW line \in TypedLines, TypeLine(line)
  PROVE  IInv'
  <1>1. /\ TypeOK /\ stage = "line" /\ input' = input \o line
        /\ UNCHANGED <<symbolic, names, arena, sizes, signature, machine, ends, differ>>
    BY DEF IInv, TypeLine, Prompting
  <1>2. input' \in Seq(Tokens)
    <2>1. line \in Seq(Tokens) /\ input \in Seq(Tokens)
      BY <1>1, LinesAssumption DEF TypeOK
    <2>2. QED
      BY <1>1, <2>1, ConcatProperties
  <1>3. CASE GiveUp /\ UNCHANGED entries
    <2>1. TypeOK'
      BY <1>1, <1>2, <1>3 DEF TypeOK, GiveUp
    <2>2. Printed = {}
      BY <1>1 DEF IInv, Agreed, Printed
    <2>3. QED
      BY <1>1, <1>3, <2>1, <2>2, GivesUp
  <1>4. CASE UNCHANGED <<stage, kept, entries>>
    <2>1. TypeOK'
      BY <1>1, <1>2, <1>4 DEF TypeOK
    <2>2. Followed' /\ Executed'
      BY <1>1, <1>4 DEF Followed, Executed
    <2>3. Agreed' /\ Named'
      BY <1>1, <1>4 DEF IInv, Agreed, Named, NamesAlive, SizesOf, Printed
    <2>4. QED
      BY <2>1, <2>2, <2>3 DEF IInv
  <1>5. CASE CheckLine
    BY <1>1, <1>2, <1>5, CheckBegins
  <1>6. QED
    BY <1>3, <1>4, <1>5 DEF TypeLine

\* What is typed comes to its end.
LEMMA EndOfInputStep ==
  ASSUME IInv, EndOfInput
  PROVE  IInv'
  <1>1. /\ TypeOK /\ stage = "line"
        /\ UNCHANGED <<symbolic, names, arena, sizes, signature, input, machine, ends, differ>>
    BY DEF IInv, EndOfInput, Prompting
  <1>2. CASE GiveUp /\ UNCHANGED entries
    <2>1. TypeOK'
      BY <1>1, <1>2 DEF TypeOK, GiveUp
    <2>2. Printed = {}
      BY <1>1 DEF IInv, Agreed, Printed
    <2>3. QED
      BY <1>1, <1>2, <2>1, <2>2, GivesUp
  <1>3. CASE CheckLine
    <2>1. input' \in Seq(Tokens)
      BY <1>1 DEF TypeOK
    <2>2. QED
      BY <1>1, <1>3, <2>1, CheckBegins
  <1>4. QED
    BY <1>2, <1>3 DEF EndOfInput

\* What is settled stays so while nothing but prints is added.
LEMMA StaysSettled ==
  ASSUME NEW p, NEW V, NEW W, Settled(p, V), V \subseteq W, ends \subseteq ends', UNCHANGED input
  PROVE  Settled(p, W)'
  <1>1. /\ \A at : Token(at)' = Token(at)
        /\ Onward(p)' = Onward(p)
    BY DEF Token, Onward
  <1>2. QED
    BY <1>1 DEF Settled

\* The runs of the checker are followed on.
LEMMA FollowedOn ==
  ASSUME TypeOK, Followed, CheckStep
  PROVE  Followed'
  <1> DEFINE here == Place(Now)
  <1>1. SUFFICES ASSUME AllPrinted'
                 PROVE  \E V : Covers(V)'
    BY DEF Followed
  <1>2. /\ stage = "check" /\ entries \in Seq(Entry) /\ entries # <<>> /\ Now \in Entry
        /\ UNCHANGED <<signature, input>>
    BY CheckKinds DEF TypeOK
  <1>3. ends \subseteq ends'
    BY CheckKinds
  <1>4. AllPrinted
    BY <1>1, <1>3 DEF AllPrinted
  <1>5. PICK V : Covers(V)
    BY <1>2, <1>4 DEF Followed
  <1>6. SizesOf(signature') = SizesOf(signature)
    BY <1>2
  <1>7. Now.at \in Nat \ {0} /\ Now.st \in Symbolic /\ here = <<Now.at, SizesOf(Now.st)>>
    BY <1>2 DEF Entry, Place
  <1>8. CASE /\ Now.at > Len(input) /\ entries' = Tail(entries)
             /\ ends' = ends \union {PrintedOf(SizesOf(Now.st))}
    <2>1. ASSUME NEW p \in V
          PROVE  Settled(p, V)' \/ Pending(entries', p)
      <3>1. CASE Settled(p, V)
        BY <1>2, <1>3, <3>1, StaysSettled
      <3>2. CASE p = here
        <4>1. p[1] > Len(input') /\ PrintedOf(p[2]) \in ends'
          BY <1>2, <1>7, <1>8, <3>2
        <4>2. QED
          BY <4>1 DEF Settled
      <3>3. CASE Pending(entries, p) /\ p # here
        <4>1. <<>> \in Seq(Entry) /\ <<>> \o Tail(entries) = Tail(entries)
          BY <1>2, HeadTailProperties, ConcatEmptySeq
        <4>2. QED
          BY <1>2, <1>8, <3>3, <4>1, PendingMoves DEF Now
      <3>4. QED
        BY <1>5, <3>1, <3>2, <3>3 DEF Covers
    <2>2. QED
      BY <1>5, <1>6, <2>1 DEF Covers
  <1>9. CASE /\ Now.at <= Len(input) /\ Token(Now.at) # "leave"
             /\ \E first \in Seq(Entry) :
                  /\ entries' = first \o Tail(entries)
                  /\ \A p \in Onward(here) : Pending(first, p)
    <2>1. PICK W : W = V \union Onward(here)
      OBVIOUS
    <2>2. PICK first \in Seq(Entry) :
            /\ entries' = first \o Tail(entries)
            /\ \A p \in Onward(here) : Pending(first, p)
      BY <1>9
    <2>3. Onward(here) \subseteq (Nat \ {0}) \X Sizes
      <3>1. ASSUME NEW p, Pending(first, p)
            PROVE  p \in (Nat \ {0}) \X Sizes
        <4>1. PICK i \in 1 .. Len(first) : p = Place(first[i])
          BY <3>1 DEF Pending
        <4>2. first[i] \in Entry
          BY <2>2, ElementOfSeq
        <4>3. first[i].at \in Nat \ {0} /\ SizesOf(first[i].st) \in Sizes
          BY <4>2, SizesExact DEF Entry
        <4>4. QED
          BY <4>1, <4>3 DEF Place
      <3>2. QED
        BY <2>2, <3>1
    <2>4. ASSUME NEW p \in W
          PROVE  Settled(p, W)' \/ Pending(entries', p)
      <3>1. CASE Settled(p, V)
        BY <1>2, <1>3, <2>1, <3>1, StaysSettled
      <3>2. CASE p = here
        <4>1. p[1] <= Len(input) /\ Token(p[1]) # "leave" /\ Onward(p) \subseteq W
          BY <1>7, <1>9, <2>1, <3>2
        <4>2. Settled(p, W)
          BY <4>1 DEF Settled
        <4>3. QED
          BY <1>2, <1>3, <4>2, StaysSettled
      <3>3. CASE Pending(entries, p) /\ p # here
        BY <1>2, <2>2, <3>3, PendingMoves DEF Now
      <3>4. CASE p \in Onward(here)
        BY <1>2, <2>2, <3>4, PendingMoves
      <3>5. QED
        BY <1>5, <2>1, <3>1, <3>2, <3>3, <3>4 DEF Covers
    <2>5. W \subseteq (Nat \ {0}) \X Sizes /\ <<1, SizesOf(signature')>> \in W
      BY <1>5, <1>6, <2>3, <2>1 DEF Covers
    <2> HIDE DEF here
    <2>6. Covers(W)'
      BY <2>4, <2>5 DEF Covers
    <2>7. QED
      BY <2>6
  <1>10. CASE \E e \in End : e.how # "printed" /\ ends' = ends \union {e}
    BY <1>1, <1>10 DEF AllPrinted
  <1>11. QED
    BY <1>8, <1>9, <1>10, CheckKinds

\* The checker goes a step.
LEMMA CheckStepKeeps ==
  ASSUME IInv, CheckStep
  PROVE  IInv'
  <1>1. /\ TypeOK /\ stage = "check" /\ stage' = "check"
        /\ entries' \in Seq(Entry) /\ Now \in Entry
        /\ UNCHANGED <<stage, arena, sizes, signature, input, machine, kept, differ>>
    BY CheckKinds DEF IInv
  <1>2. Followed' /\ Executed'
    BY <1>1, FollowedOn DEF IInv, Executed
  <1>3. Now.st \in Symbolic /\ PrintedOf(SizesOf(Now.st)) \in End
    BY <1>1, SizesExact DEF Entry, End, PrintedOf
  <1>4. CASE /\ \E e \in End : e.how # "printed" /\ ends' = ends \union {e}
             /\ UNCHANGED <<symbolic, names>>
    <2>1. PICK e \in End : e.how # "printed" /\ ends' = ends \union {e}
      BY <1>4
    <2>2. IsFiniteSet(ends') /\ ends' \subseteq End
      BY <1>1, <2>1, FS_AddElement DEF TypeOK
    <2>3. TypeOK'
      BY <1>1, <1>4, <2>2 DEF TypeOK
    <2>4. Printed' = Printed /\ ends \subseteq ends'
      BY <2>1 DEF Printed
    <2>5. Agreed'
      BY <1>1, <1>4, <2>4 DEF IInv, Agreed, SizesOf
    <2>6. Named'
      BY <1>1, <1>4, <2>4 DEF IInv, Named, NamesAlive
    <2>7. QED
      BY <1>2, <2>3, <2>5, <2>6 DEF IInv
  <1>5. CASE /\ ends' = ends \union {PrintedOf(SizesOf(Now.st))}
             /\ symbolic' = Now.st /\ names' = arena
    <2>1. IsFiniteSet(ends') /\ ends' \subseteq End
      BY <1>1, <1>3, <1>5, FS_AddElement DEF TypeOK
    <2>2. TypeOK'
      BY <1>1, <1>3, <1>5, <2>1 DEF TypeOK
    <2>3. PrintedOf(SizesOf(Now.st)) \in Printed'
      BY <1>5 DEF Printed, PrintedOf
    <2>4. SizesOf(symbolic') = SizesOf(Now.st)
      BY <1>5
    <2>5. PrintedOf(SizesOf(symbolic')) \in ends'
      BY <1>5, <2>4
    <2>6. differ' = {} => SizesOf(signature') = sizes'
      BY <1>1 DEF IInv, Agreed
    <2>7. Agreed'
      BY <1>1, <2>3, <2>5, <2>6 DEF Agreed
    <2>8. Named'
      BY <1>1, <1>5 DEF Named, NamesAlive
    <2>9. QED
      BY <1>2, <2>2, <2>7, <2>8 DEF IInv
  <1>6. CASE UNCHANGED <<ends, symbolic, names>>
    <2>1. TypeOK'
      BY <1>1, <1>6 DEF TypeOK
    <2>2. Agreed' /\ Named'
      BY <1>1, <1>6 DEF IInv, Agreed, Named, NamesAlive, SizesOf, Printed
    <2>3. QED
      BY <1>2, <2>1, <2>2 DEF IInv
  <1>7. \/ /\ \E e \in End : e.how # "printed" /\ ends' = ends \union {e}
           /\ UNCHANGED <<symbolic, names>>
        \/ /\ ends' = ends \union {PrintedOf(SizesOf(Now.st))}
           /\ symbolic' = Now.st /\ names' = arena
        \/ UNCHANGED <<ends, symbolic, names>>
    <2>1. TypeOK
      BY DEF IInv
    <2>2. QED
      BY <2>1, CheckKinds
  <1>8. QED
    BY <1>4, <1>5, <1>6, <1>7

\* A line with an error is not executed.
LEMMA RejectedStep ==
  ASSUME IInv, Rejected
  PROVE  IInv'
  <1>1. /\ TypeOK /\ stage = "check" /\ GiveUp
        /\ UNCHANGED <<symbolic, names, arena, sizes, signature, input, entries, machine, ends>>
        /\ differ' = {} => differ = {} /\ Printed = {}
    BY DEF IInv, Rejected
  <1>2. TypeOK'
    BY <1>1 DEF TypeOK, GiveUp
  <1>3. QED
    BY <1>1, <1>2, GivesUp

\* A line without an error is: all its runs have printed the same.
LEMMA AcceptedStep ==
  ASSUME IInv, Accepted
  PROVE  IInv'
  <1>1. /\ TypeOK /\ stage = "check" /\ stage' = "run" /\ entries = <<>>
        /\ machine' = [at |-> 1, reset |-> FALSE]
        /\ UNCHANGED <<symbolic, names, arena, sizes, signature, input, entries, ends, kept>>
        /\ differ' = {} => differ = {} /\ ~(Cardinality(ends) > 1) /\ Printed # {}
    BY DEF IInv, Accepted
  <1>2. TypeOK'
    BY <1>1 DEF TypeOK
  <1>3. Followed' /\ Agreed'
    BY <1>1 DEF Followed, Agreed
  <1>4. Named'
    BY <1>1 DEF IInv, Named, NamesAlive, Printed
  <1>5. Executed'
    <2>1. SUFFICES ASSUME differ' = {}
                   PROVE  /\ entries' = <<>> /\ ends' = {PrintedOf(SizesOf(symbolic'))}
                          /\ \E V : Covers(V)' /\ <<machine'.at, sizes'>> \in V
      BY DEF Executed
    <2>2. SizesOf(signature) = sizes /\ PrintedOf(SizesOf(symbolic)) \in ends
      BY <1>1, <2>1 DEF IInv, Agreed
    <2>3. ends = {PrintedOf(SizesOf(symbolic))}
      <3>1. IsFiniteSet(ends) /\ Cardinality(ends) \in Nat
        BY <1>1, FS_CardinalityType DEF TypeOK
      <3>2. Cardinality(ends) # 0
        BY <2>2, <3>1, FS_EmptySet
      <3>3. Cardinality(ends) = 1
        BY <1>1, <2>1, <3>1, <3>2
      <3>4. PICK e : ends = {e}
        BY <3>1, <3>3, FS_Singleton
      <3>5. QED
        BY <2>2, <3>4
    <2>4. AllPrinted
      BY <2>3 DEF AllPrinted, PrintedOf
    <2>5. PICK V : Covers(V)
      BY <1>1, <2>4 DEF IInv, Followed
    <2>6. Covers(V)'
      BY <1>1, <2>5 DEF Covers, Settled, Onward, Token, SizesOf
    <2>7. <<machine'.at, sizes'>> \in V
      BY <1>1, <2>2, <2>5 DEF Covers
    <2>8. SizesOf(symbolic') = SizesOf(symbolic)
      BY <1>1
    <2>9. QED
      BY <1>1, <2>3, <2>6, <2>7, <2>8
  <1>6. QED
    BY <1>2, <1>3, <1>4, <1>5 DEF IInv

\* The machine goes a step: to a place the checker was at.
LEMMA RunStepKeeps ==
  ASSUME IInv, RunStep
  PROVE  IInv'
  <1> DEFINE t == Token(machine.at)
  <1>1. /\ TypeOK /\ stage = "run" /\ machine.at \in Nat \ {0} /\ machine.at <= Len(input)
        /\ t # "leave" /\ sizes' = After(t, sizes)
        /\ UNCHANGED <<stage, symbolic, names, arena, signature, input, entries, ends, kept, differ>>
    BY DEF IInv, TypeOK, RunStep, After
  <1>2. PICK step \in {1, 2} :
          /\ step = 2 => t = "?{"
          /\ machine' = [at |-> machine.at + step, reset |-> machine.reset \/ t = "\\reset"]
    BY DEF RunStep
  <1>3. /\ machine'.at = machine.at + step /\ machine'.at \in Nat \ {0}
        /\ machine' \in [at : Nat, reset : BOOLEAN]
    <2> DEFINE at == machine.at + step
               reset == machine.reset \/ t = "\\reset"
    <2>1. machine' = [at |-> at, reset |-> reset]
      BY <1>2, Zenon
    <2>2. reset \in BOOLEAN
      OBVIOUS
    <2>3. at \in Nat \ {0}
      <3>1. machine.at \in Nat \ {0} /\ step \in {1, 2}
        BY <1>1
      <3>2. QED
        BY <3>1
    <2> HIDE DEF at, reset
    <2>4. machine'.at = at /\ machine' \in [at : Nat, reset : BOOLEAN]
      BY <2>1, <2>2, <2>3
    <2>5. QED
      BY <2>3, <2>4 DEF at
  <1>4. t \in Tokens
    BY <1>1, ElementOfSeq, LenProperties DEF TypeOK, Token
  <1>5. sizes' \in [Stacks -> 0 .. StackSize - 1]
    <2>1. \A s \in Stacks : sizes[s] \in Nat
      BY <1>1, StackSizeAssumption DEF TypeOK
    <2>2. \A s \in Stacks : Gives(t, s) \in Int
      <3>1. Gives(t, "wst") \in {1, -1, 0}
        BY <1>4, GivesExact
      <3>2. Gives(t, "rst") \in {1, 0}
        BY <1>4, GivesExact
      <3>3. QED
        BY <3>1, <3>2 DEF Stacks
    <2>3. \A s \in Stacks : (sizes[s] + Gives(t, s)) % StackSize \in 0 .. StackSize - 1
      <3>1. \A n \in Int : n % StackSize \in 0 .. StackSize - 1
        BY StackSizeAssumption
      <3>2. \A s \in Stacks : sizes[s] + Gives(t, s) \in Int
        BY <2>1, <2>2
      <3>3. QED
        BY <3>1, <3>2
    <2>4. QED
      BY <1>1, <2>3 DEF After
  <1>6. TypeOK'
    BY <1>1, <1>3, <1>5 DEF TypeOK
  <1>7. Followed' /\ Agreed'
    BY <1>1 DEF Followed, Agreed
  <1>8. Named'
    BY <1>1 DEF IInv, Named, NamesAlive, Printed
  <1>9. Executed'
    <2>1. SUFFICES ASSUME differ' = {}
                   PROVE  /\ entries' = <<>> /\ ends' = {PrintedOf(SizesOf(symbolic'))}
                          /\ \E V : Covers(V)' /\ <<machine'.at, sizes'>> \in V
      BY DEF Executed
    <2>2. /\ entries = <<>> /\ ends = {PrintedOf(SizesOf(symbolic))}
          /\ \E V : Covers(V) /\ <<machine.at, sizes>> \in V
      BY <1>1, <2>1 DEF IInv, Executed
    <2>3. PICK V : Covers(V) /\ <<machine.at, sizes>> \in V
      BY <2>2
    <2>4. Onward(<<machine.at, sizes>>) \subseteq V
      <3>1. ~Pending(entries, <<machine.at, sizes>>)
        BY <2>2 DEF Pending
      <3>2. Settled(<<machine.at, sizes>>, V)
        BY <2>3, <3>1 DEF Covers
      <3>3. Len(input) \in Nat
        BY <1>1, LenProperties DEF TypeOK
      <3>4. QED
        BY <1>1, <3>2, <3>3 DEF Settled
    <2>5. <<machine'.at, sizes'>> \in Onward(<<machine.at, sizes>>)
      BY <1>1, <1>2, <1>3 DEF Onward, Steps
    <2>6. Covers(V)'
      BY <1>1, <2>3 DEF Covers, Settled, Onward, Token, SizesOf
    <2>7. SizesOf(symbolic') = SizesOf(symbolic)
      BY <1>1
    <2>8. QED
      BY <1>1, <2>2, <2>4, <2>5, <2>6, <2>7
  <1>10. QED
    BY <1>6, <1>7, <1>8, <1>9 DEF IInv

\* The machine comes to the end of the line, or leaves.
LEMMA EndTurnStep ==
  ASSUME IInv, EndTurn
  PROVE  IInv'
  <1>1. /\ TypeOK /\ stage = "run" /\ stage' = "turn" /\ kept' = (Printed = {})
        /\ machine.at <= Len(input) => Token(machine.at) = "leave"
        /\ UNCHANGED <<arena, signature, input, entries, machine, ends>>
    BY DEF IInv, EndTurn
  <1>2. \/ /\ sizes' = SizesOf(NoValues) /\ symbolic' = NoValues /\ names' = "none"
        \/ UNCHANGED <<sizes, symbolic, names, differ>>
    BY DEF EndTurn, Forgotten
  <1>3. TypeOK'
    BY <1>1, <1>2, NoValuesExact DEF TypeOK
  <1>4. Followed' /\ Executed'
    BY <1>1 DEF Followed, Executed
  <1>5. Named'
    <2>1. Printed # {} => names = arena
      BY <1>1 DEF IInv, Named
    <2>2. ~kept' => Printed # {}
      BY <1>1
    <2>3. QED
      BY <1>1, <1>2, <2>1, <2>2 DEF Named, NamesAlive
  <1>6. Agreed'
    <2>1. SUFFICES ASSUME differ' = {}
                   PROVE  SizesOf(symbolic') = sizes'
      BY <1>1 DEF Agreed
    <2>2. CASE sizes' = SizesOf(NoValues) /\ symbolic' = NoValues
      BY <2>2
    <2>3. CASE UNCHANGED <<sizes, symbolic, differ>>
      <3>1. /\ entries = <<>> /\ ends = {PrintedOf(SizesOf(symbolic))}
            /\ \E V : Covers(V) /\ <<machine.at, sizes>> \in V
        BY <1>1, <2>1, <2>3 DEF IInv, Executed
      <3>2. PICK V : Covers(V) /\ <<machine.at, sizes>> \in V
        BY <3>1
      <3>3. ~Pending(entries, <<machine.at, sizes>>)
        BY <3>1 DEF Pending
      <3>4. Settled(<<machine.at, sizes>>, V)
        BY <3>2, <3>3 DEF Covers
      <3>5. PrintedOf(sizes) \in ends
        BY <1>1, <3>4 DEF Settled
      <3>6. sizes = SizesOf(symbolic)
        BY <3>1, <3>5 DEF PrintedOf
      <3>7. SizesOf(symbolic') = SizesOf(symbolic)
        BY <2>3
      <3>8. QED
        BY <2>3, <3>6, <3>7
    <2>4. QED
      BY <1>2, <2>2, <2>3
  <1>7. QED
    BY <1>3, <1>4, <1>5, <1>6 DEF IInv

\* Nothing happens.
LEMMA SameRepl ==
  ASSUME IInv, UNCHANGED replVars
  PROVE  IInv'
  <1>1. UNCHANGED replVars /\ TypeOK'
    BY DEF IInv, TypeOK, replVars
  <1>2. \A V : Covers(V)' <=> Covers(V)
    BY <1>1 DEF Covers, Settled, Onward, Token, SizesOf, replVars
  <1>3. AllPrinted' <=> AllPrinted
    BY <1>1 DEF AllPrinted, replVars
  <1>4. Followed'
    BY <1>1, <1>2, <1>3 DEF IInv, Followed, replVars
  <1>5. Executed'
    BY <1>1, <1>2 DEF IInv, Executed, SizesOf, replVars
  <1>6. Agreed' /\ Named'
    BY <1>1 DEF IInv, Agreed, Named, NamesAlive, Printed, SizesOf, replVars
  <1>7. QED
    BY <1>1, <1>4, <1>5, <1>6 DEF IInv

\* The invariant of the REPL is inductive.
THEOREM Inductive == ReplSpec => []IInv
  <1>1. IInv /\ [NextRepl]_replVars => IInv'
    BY UnreadableStep, ReadStep, TypeLineStep, EndOfInputStep, CheckStepKeeps, RejectedStep,
       AcceptedStep, RunStepKeeps, EndTurnStep, SameRepl DEF NextRepl
  <1>2. QED
    BY <1>1, InitInv, PTL DEF ReplSpec

\* A line is checked with stacks of the sizes the machine's have, but for what is named
\* as a reason; and the names in a signature are there.
THEOREM ChecksWhatIsThere == ReplSpec => []ReplExact
  <1>1. IInv => ReplExact
    <2>1. IInv => StacksAgree
      BY DEF IInv, Agreed, StacksAgree, Printed
    <2>2. QED
      BY <2>1 DEF IInv, Named, ReplExact
  <1>2. QED
    BY <1>1, Inductive, PTL
=============================================================================
