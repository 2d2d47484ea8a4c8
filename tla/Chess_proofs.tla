---------------------------- MODULE Chess_proofs ----------------------------
(***************************************************************************)
(* The static checker.  An instruction is a function from one record to    *)
(* another, so that most of the proof is about records: Good says what one *)
(* has to be, and each operator that takes a good one gives a good one.    *)
(* The rest of the invariant is about what the tables hold and what the    *)
(* comment that is being read may become.                                  *)
(*                                                                         *)
(* How many nodes there are decides which values there are.  A step makes  *)
(* at most more of them, and never fewer, so that the values on the stacks *)
(* of runs that wait stay values.                                          *)
(*                                                                         *)
(* What comments mean is proved from the inside out: what the second stage *)
(* makes of a text, what the first one has kept of it, and what both have  *)
(* found when a comment closes; then which comment is open, and what those *)
(* that are closed have told of each address (CInv).                       *)
(***************************************************************************)
EXTENDS ChessComments, NumberFacts, SequenceTheorems, FiniteSetTheorems, TLAPS

Shorts == 0 .. Short - 1
Bits == 0 .. Byte - 1
Widths == {1, 2}

-----------------------------------------------------------------------------
(***************************************************************************)
(* Words.                                                                  *)
(***************************************************************************)
\* A byte has four values or more.
LEMMA ByteType == Byte \in Nat /\ Byte >= 4
  BY NibbleAssumption DEF Byte

\* A short has sixteen or more, no fewer than a byte.
LEMMA ShortType == Short \in Nat /\ Short >= 16 /\ Short >= Byte
  <1> HIDE DEF Byte
  <1> QED
    BY ByteType DEF Short

\* Numbers.
LEMMA Numbers ==
  /\ Bits \subseteq Shorts /\ Bits \subseteq Nat /\ Shorts \subseteq Nat
  /\ 0 \in Bits /\ 1 \in Bits /\ 0 \in Shorts /\ 1 \in Shorts
  BY ByteType, ShortType DEF Bits, Shorts

\* What wraps around is a short.
LEMMA Wraps ==
  ASSUME NEW n \in Int
  PROVE  n % Short \in Shorts /\ n % Byte \in Bits
  BY ByteType, ShortType, Quotient DEF Shorts, Bits

\* The first widths take what those before them do, and the last of them.
LEMMA TotalExact ==
  ASSUME NEW widths \in Seq(Nat)
  PROVE  /\ Total(widths) \in [0 .. Len(widths) -> Nat]
         /\ Total(widths)[0] = 0
         /\ \A n \in 1 .. Len(widths) : Total(widths)[n] = Total(widths)[n - 1] + widths[n]
  <1> DEFINE N == Len(widths)
             step == [p \in (1 .. N) \X Nat |-> p[2] + widths[p[1]]]
             IsTotal(f) == f = [n \in 0 .. N |-> IF n = 0 THEN 0 ELSE f[n - 1] + widths[n]]
  <1>1. N \in Nat /\ \A n \in 1 .. N : widths[n] \in Nat
    OBVIOUS
  <1>2. step \in [(1 .. N) \X Nat -> Nat]
    <2> HIDE DEF N
    <2> QED
      BY <1>1
  <1>3. PICK f \in [0 .. N -> Nat] : Follows(f, N, 0, step)
    <2> HIDE DEF N, step
    <2> QED
      BY <1>1, <1>2, Recursion
  <1> HIDE DEF N
  <1>4. ASSUME NEW n \in 1 .. N
        PROVE  f[n] = f[n - 1] + widths[n]
    <2>1. <<n, f[n - 1]>> \in (1 .. N) \X Nat
      BY <1>1, <1>3
    <2>2. step[<<n, f[n - 1]>>] = f[n - 1] + widths[n]
      BY <2>1
    <2>3. QED
      BY <1>3, <2>2 DEF Follows
  <1>5. IsTotal(f)
    <2>1. f = [n \in 0 .. N |-> f[n]]
      BY <1>3
    <2>2. \A n \in 0 .. N : f[n] = IF n = 0 THEN 0 ELSE f[n - 1] + widths[n]
      BY <1>1, <1>3, <1>4 DEF Follows
    <2>3. QED
      BY <2>1, <2>2
  <1> DEFINE total == Total(widths)
  <1>6. IsTotal(total)
    <2>1. total = CHOOSE g : IsTotal(g)
      BY DEF Total, N
    <2> HIDE DEF IsTotal, total
    <2>2. QED
      BY <1>5, <2>1
  <1> HIDE DEF total
  <1>7. /\ DOMAIN total = 0 .. N /\ total = [n \in 0 .. N |-> total[n]]
        /\ total[0] = 0
        /\ \A n \in 1 .. N : total[n] = total[n - 1] + widths[n]
    <2>1. total = [n \in 0 .. N |-> IF n = 0 THEN 0 ELSE total[n - 1] + widths[n]]
      BY <1>6
    <2>2. 0 \in 0 .. N /\ \A n \in 1 .. N : n \in 0 .. N /\ n # 0
      BY <1>1
    <2>3. QED
      BY <2>1, <2>2
  <1> HIDE DEF IsTotal, step
  <1>8. \A n \in 0 .. N : total[n] \in Nat
    <2> DEFINE X == Nat
    <2>1. ASSUME NEW n \in 1 .. N, total[n - 1] \in X
          PROVE  total[n] \in X
      <3>1. total[n] = total[n - 1] + widths[n] /\ widths[n] \in Nat
        BY <1>1, <1>7
      <3>2. QED
        BY <2>1, <3>1
    <2>2. total[0] \in X
      BY <1>7
    <2>3. \A n \in 0 .. N : total[n] \in X
      <3> HIDE DEF X
      <3> QED
        BY <1>1, <2>1, <2>2, AllAlong
    <2>4. QED
      BY <2>3
  <1>9. total \in [0 .. N -> Nat]
    BY <1>7, <1>8
  <1>10. QED
    BY <1>7, <1>9 DEF N, total

\* The powers of two that a shift needs are positive.
LEMMA PowersExact ==
  /\ PowerOf2 \in [0 .. Nibble - 1 -> (Nat \ {0})]
  /\ PowerOf2[0] = 1
  /\ \A n \in 1 .. Nibble - 1 : PowerOf2[n] = 2 * PowerOf2[n - 1]
  <1> DEFINE N == Nibble - 1
             X == (Nat \ {0})
             Made(x, n) == 2 * x
             step == [pair \in (1 .. N) \X X |-> Made(pair[2], pair[1])]
             Is(f) == f = [n \in 0 .. N |-> IF n = 0 THEN 1 ELSE Made(f[n - 1], n)]
  <1>1. N \in Nat /\ 1 \in X
    BY NibbleAssumption
  <1>2. ASSUME NEW n \in 1 .. N, NEW x \in X
        PROVE  Made(x, n) \in X
    OBVIOUS
  <1> HIDE DEF N, X, Made
  <1>3. step \in [(1 .. N) \X X -> X]
    BY <1>2
  <1>4. PICK f \in [0 .. N -> X] : Follows(f, N, 1, step)
    <2> HIDE DEF step
    <2> QED
      BY <1>1, <1>3, Recursion
  <1>5. ASSUME NEW n \in 1 .. N
        PROVE  f[n] = Made(f[n - 1], n)
    <2>1. <<n, f[n - 1]>> \in (1 .. N) \X X
      BY <1>1, <1>4
    <2>2. step[<<n, f[n - 1]>>] = Made(f[n - 1], n)
      BY <2>1
    <2>3. QED
      BY <1>4, <2>2 DEF Follows
  <1>6. Is(f)
    <2>1. f = [n \in 0 .. N |-> f[n]]
      BY <1>4
    <2>2. \A n \in 0 .. N : f[n] = IF n = 0 THEN 1 ELSE Made(f[n - 1], n)
      BY <1>1, <1>4, <1>5 DEF Follows
    <2>3. QED
      BY <2>1, <2>2
  <1> DEFINE F == PowerOf2
  <1>7. Is(F)
    <2>1. F = CHOOSE g : Is(g)
      BY DEF PowerOf2, N, Made
    <2> HIDE DEF Is, F
    <2>2. QED
      BY <1>6, <2>1
  <1> HIDE DEF F
  <1>8. /\ DOMAIN F = 0 .. N /\ F = [n \in 0 .. N |-> F[n]]
        /\ F[0] = 1
        /\ \A n \in 1 .. N : F[n] = Made(F[n - 1], n)
    <2>1. F = [n \in 0 .. N |-> IF n = 0 THEN 1 ELSE Made(F[n - 1], n)]
      BY <1>7
    <2>2. 0 \in 0 .. N /\ \A n \in 1 .. N : n \in 0 .. N /\ n # 0
      BY <1>1
    <2>3. QED
      BY <2>1, <2>2
  <1> HIDE DEF Is, step
  <1>9. \A n \in 0 .. N : F[n] \in X
    <2>1. ASSUME NEW n \in 1 .. N, F[n - 1] \in X
          PROVE  F[n] \in X
      BY <1>2, <1>8, <2>1
    <2>2. F[0] \in X
      BY <1>1, <1>8
    <2>3. QED
      BY <1>1, <2>1, <2>2, AllAlong
  <1>10. F \in [0 .. N -> X]
    BY <1>8, <1>9
  <1>11. QED
    BY <1>8, <1>10 DEF N, X, F, Made

\* A shift leaves a short: what it moves to the left is cut off.
LEMMA ShiftType ==
  ASSUME NEW a \in Shorts, NEW b \in Bits
  PROVE  Shift(a, b) \in Shorts
  <1>1. Nibble \in Nat /\ Nibble > 0 /\ b \in 0 .. Nibble * Nibble - 1 /\ a \in Int
    BY NibbleAssumption, Numbers DEF Bits, Byte
  <1>2. b % Nibble \in 0 .. Nibble - 1
    BY <1>1, Quotient
  <1>3. b \div Nibble \in 0 .. Nibble - 1
    BY <1>1
  <1> DEFINE p == PowerOf2[b % Nibble]
             q == PowerOf2[b \div Nibble]
  <1>4. p \in Nat /\ p > 0 /\ q \in Nat
    <2>1. PowerOf2[b % Nibble] \in Nat \ {0} /\ PowerOf2[b \div Nibble] \in Nat \ {0}
      BY <1>2, <1>3, PowersExact
    <2>2. QED
      BY <2>1
  <1> HIDE DEF p, q
  <1>5. a \div p \in Int
    BY <1>1, <1>4
  <1>6. (a \div p) * q \in Int
    BY <1>4, <1>5
  <1> DEFINE r == (a \div p) * q
  <1>7. r % Short \in Shorts
    <2> HIDE DEF r
    <2> QED
      BY <1>6, ShortType, Quotient DEF Shorts, r
  <1>8. QED
    BY <1>7 DEF Shift, p, q

\* A result is a number, though it may not fit its width.
LEMMA ComputeType ==
  ASSUME NEW base \in Arithmetic, NEW a \in Shorts, NEW b \in Shorts
  PROVE  Compute(base, a, b) \in Int
  <1>1. a \in Int /\ b \in Nat
    BY Numbers
  <1>2. {And(a, b), Ora(a, b), Eor(a, b)} \subseteq Int
    BY BitwiseAssumption DEF Shorts
  <1>3. b # 0 => a \div b \in Int
    BY <1>1
  <1>4. a + b \in Int /\ a - b \in Int /\ a * b \in Int
    BY <1>1
  <1>5. QED
    BY <1>2, <1>3, <1>4 DEF Compute, Arithmetic

\* A relative place wraps around in its page.
LEMMA RelType ==
  ASSUME NEW from \in Int, NEW v \in Shorts
  PROVE  Rel(from, v) \in Shorts
  <1>1. v \in Int /\ Signed(v) \in Int
    BY Numbers, ByteType DEF Signed
  <1>2. from + Signed(v) \in Int
    BY <1>1
  <1>3. QED
    BY <1>2, ShortType, Quotient DEF Rel, Shorts

\* An opcode works on one of the two stacks, on bytes or on shorts.
LEMMA OpTypes ==
  ASSUME NEW op \in Opcodes
  PROVE  /\ op.base \in Poly \union {"LIT", "BRK", "JCI", "JMI", "JSI"}
         /\ op.k \in BOOLEAN /\ op.r \in BOOLEAN /\ op.s \in BOOLEAN
         /\ On(op) \in Stacks /\ Off(op) \in Stacks /\ On(op) # Off(op)
         /\ Stacks = {On(op), Off(op)}
         /\ Width(op) \in Widths
  BY DEF Opcodes, On, Off, Width, Widths, Stacks

-----------------------------------------------------------------------------
(***************************************************************************)
(* What there is.                                                          *)
(***************************************************************************)
\* Values, when there are k nodes.
Vals(k) ==
  {val \in [sem : SUBSET Semantics, v : Shorts, type : Names, whole : 0 .. k, split : Nat] :
     /\ "const" \in val.sem \/ val.v = 0
     /\ IF val.sem \intersect {"hi", "lo"} # {} THEN val.whole # 0 ELSE val.whole = 0}

\* Those of signatures.
Plain == {val \in Vals(0) : val.sem \subseteq {"short", "address", "nominal"}}
PlainStacks == [Stacks -> Seq(Plain)]
Sigs == [type : {"subroutine", "vector"}, in : PlainStacks, out : PlainStacks]
Info == {i \in [routine : BOOLEAN, sig : Sigs, marked : BOOLEAN, terminated : BOOLEAN,
                error : BOOLEAN] : i.marked => i.routine}

IsTable(f) == f \in [DOMAIN f -> Info] /\ DOMAIN f \subseteq Shorts
Marked(f) == {a \in DOMAIN f : f[a].marked}

StacksOf(k) == [Stacks -> Seq(Vals(k))]
Entries(k, marked) == [info : marked, at : Shorts, st : StacksOf(k)]

Kept(k) == [val : Vals(k), split : Nat]

Distinct(s) == \A i, j \in DOMAIN s : i # j => s[i] # s[j]
Disjoint(s, t) == \A i \in DOMAIN s, j \in DOMAIN t : s[i] # t[j]

\* The nodes that are free and those in use: none is both, or twice either.
AreShared(k, pool, used) ==
  /\ pool \in Seq(1 .. k) /\ used \in Seq(1 .. k)
  /\ Distinct(pool) /\ Distinct(used) /\ Disjoint(used, pool)

AreOwned(n, used) ==
  /\ n \in [heap : Seq(Kept(Len(n.heap))), pool : Seq(1 .. Len(n.heap)), splits : Nat]
  /\ AreShared(Len(n.heap), n.pool, used)

Doubts == {"cut", "recycled", "wide", "full", "forgotten", "back"}

Fields == {"info", "at", "pc", "done", "st", "shadow", "keeps", "used", "got", "infos", "list",
           "arcs", "nodes", "success", "doubts"}

K(m) == Len(m.nodes.heap)

Good(m) ==
  /\ DOMAIN m = Fields
  /\ AreOwned(m.nodes, m.used)
  /\ IsTable(m.infos) /\ m.info \in Marked(m.infos)
  /\ m.list \in Seq(Entries(K(m), Marked(m.infos)))
  /\ m.st \in StacksOf(K(m)) /\ m.shadow \in StacksOf(K(m)) /\ m.got \in Seq(Vals(K(m)))
  /\ m.pc \in Shorts /\ m.at \in Shorts
  /\ m.done \in BOOLEAN /\ m.keeps \in BOOLEAN /\ m.success \in BOOLEAN
  /\ m.doubts \subseteq Doubts

-----------------------------------------------------------------------------
(***************************************************************************)
(* Values.                                                                 *)
(***************************************************************************)
\* What is put together as it should be is a value.
LEMMA ValMade ==
  ASSUME NEW k \in Nat, NEW sem, sem \subseteq Semantics, NEW v \in Shorts, NEW type \in Names,
         NEW whole \in 0 .. k, NEW split \in Nat,
         "const" \in sem \/ v = 0,
         IF sem \intersect {"hi", "lo"} # {} THEN whole # 0 ELSE whole = 0
  PROVE  [sem |-> sem, v |-> v, type |-> type, whole |-> whole, split |-> split] \in Vals(k)
  BY DEF Vals

\* The parts of a value.
LEMMA ValParts ==
  ASSUME NEW k \in Nat, NEW val \in Vals(k)
  PROVE  /\ val.sem \subseteq Semantics /\ val.v \in Shorts /\ val.type \in Names
         /\ val.whole \in 0 .. k /\ val.split \in Nat
         /\ val = [sem |-> val.sem, v |-> val.v, type |-> val.type, whole |-> val.whole,
                   split |-> val.split]
         /\ "const" \in val.sem \/ val.v = 0
         /\ IF val.sem \intersect {"hi", "lo"} # {} THEN val.whole # 0 ELSE val.whole = 0
         /\ ValueSize(val) \in Widths
  BY DEF Vals, ValueSize, Widths

\* What has no whole is a value, however few nodes there are.
LEMMA ValType ==
  ASSUME NEW k \in Nat, NEW sem, sem \subseteq Semantics \ {"hi", "lo"}, NEW v \in Shorts,
         "const" \in sem \/ v = 0
  PROVE  Val(sem, v) \in Vals(k)
  <1>1. <<>> \in Names /\ 0 \in 0 .. k /\ 0 \in Nat /\ sem \intersect {"hi", "lo"} = {}
    BY DEF Names
  <1>2. QED
    BY <1>1, ValMade DEF Val

\* With more nodes there are more values.
LEMMA ValsGrow ==
  ASSUME NEW k \in Nat, NEW l \in Nat, k <= l
  PROVE  /\ Vals(k) \subseteq Vals(l) /\ Seq(Vals(k)) \subseteq Seq(Vals(l))
         /\ StacksOf(k) \subseteq StacksOf(l) /\ Seq(Kept(k)) \subseteq Seq(Kept(l))
         /\ \A marked : Seq(Entries(k, marked)) \subseteq Seq(Entries(l, marked))
  <1>1. Vals(k) \subseteq Vals(l)
    BY DEF Vals
  <1>2. Seq(Vals(k)) \subseteq Seq(Vals(l))
    BY <1>1
  <1>3. StacksOf(k) \subseteq StacksOf(l)
    BY <1>2 DEF StacksOf
  <1>4. Kept(k) \subseteq Kept(l)
    BY <1>1 DEF Kept
  <1>5. \A marked : Entries(k, marked) \subseteq Entries(l, marked)
    BY <1>3 DEF Entries
  <1>6. QED
    BY <1>1, <1>2, <1>3, <1>4, <1>5

\* What signatures have needs no node.
LEMMA PlainVals ==
  ASSUME NEW k \in Nat
  PROVE  /\ Plain \subseteq Vals(k) /\ Seq(Plain) \subseteq Seq(Vals(k))
         /\ PlainStacks \subseteq StacksOf(k)
  <1>1. Plain \subseteq Vals(k)
    BY ValsGrow DEF Plain
  <1>2. Seq(Plain) \subseteq Seq(Vals(k))
    BY <1>1
  <1>3. QED
    BY <1>1, <1>2 DEF PlainStacks, StacksOf

\* What is below the last of a sequence, and the last.
LEMMA FrontLast ==
  ASSUME NEW S, NEW s \in Seq(S), s # <<>>
  PROVE  /\ Len(s) \in Nat /\ Len(s) >= 1
         /\ Front(s) \in Seq(S) /\ Len(Front(s)) = Len(s) - 1
         /\ \A i \in 1 .. Len(s) - 1 : Front(s)[i] = s[i]
         /\ Last(s) = s[Len(s)] /\ Last(s) \in S
  <1>1. Len(s) \in Nat /\ Len(s) >= 1 /\ \A i \in 1 .. Len(s) : s[i] \in S
    OBVIOUS
  <1>2. Front(s) = SubSeq(s, 1, Len(s) - 1) /\ Last(s) = s[Len(s)]
    BY DEF Front, Last
  <1> DEFINE f == SubSeq(s, 1, Len(s) - 1)
  <1>3. f \in Seq(S) /\ Len(f) = Len(s) - 1 /\ \A i \in 1 .. Len(s) - 1 : f[i] = s[i]
    <2> DEFINE n == Len(s) - 1
    <2>1. 1 \in Int /\ n \in Int /\ n = n - 1 + 1 /\ \A i \in 1 .. n : s[i] \in S
      BY <1>1
    <2>2. n >= 0 /\ \A i \in 1 .. n : 1 + i - 1 = i
      BY <1>1
    <2> HIDE DEF n
    <2>3. /\ SubSeq(s, 1, n) \in Seq(S)
          /\ Len(SubSeq(s, 1, n)) = IF 1 <= n THEN n - 1 + 1 ELSE 0
          /\ \A i \in 1 .. n - 1 + 1 : SubSeq(s, 1, n)[i] = s[1 + i - 1]
      BY <2>1, SubSeqProperties
    <2>4. QED
      BY <2>1, <2>2, <2>3 DEF n
  <1>4. QED
    BY <1>1, <1>2, <1>3

\* The last of some values adds its size to that of those below it.
LEMMA BytesExact ==
  ASSUME NEW k \in Nat, NEW vals \in Seq(Vals(k))
  PROVE  /\ Bytes(vals) \in Nat
         /\ vals = <<>> => Bytes(vals) = 0
         /\ vals # <<>> => /\ Front(vals) \in Seq(Vals(k)) /\ Last(vals) \in Vals(k)
                           /\ Bytes(vals) = Bytes(Front(vals)) + ValueSize(Last(vals))
                           /\ Bytes(Front(vals)) \in Nat
  <1> DEFINE widths(s) == [i \in DOMAIN s |-> ValueSize(s[i])]
  <1>1. ASSUME NEW s \in Seq(Vals(k))
        PROVE  /\ widths(s) \in Seq(Nat) /\ Len(widths(s)) = Len(s)
               /\ \A i \in 1 .. Len(s) : widths(s)[i] = ValueSize(s[i])
    <2>1. \A i \in 1 .. Len(s) : ValueSize(s[i]) \in Widths
      BY ValParts
    <2>2. DOMAIN s = 1 .. Len(s) /\ Len(s) \in Nat
      OBVIOUS
    <2>3. \A n \in Widths : n \in Nat
      BY DEF Widths
    <2>4. QED
      BY <2>1, <2>2, <2>3
  <1>2. ASSUME NEW s \in Seq(Vals(k))
        PROVE  /\ Total(widths(s)) \in [0 .. Len(s) -> Nat] /\ Total(widths(s))[0] = 0
               /\ \A n \in 1 .. Len(s) : Total(widths(s))[n] = Total(widths(s))[n - 1] + ValueSize(s[n])
               /\ Bytes(s) = Total(widths(s))[Len(s)] /\ Bytes(s) \in Nat
    <2> DEFINE w == widths(s)
    <2>1. w \in Seq(Nat) /\ Len(w) = Len(s) /\ Len(s) \in Nat
          /\ \A i \in 1 .. Len(s) : w[i] = ValueSize(s[i])
      BY <1>1
    <2>2. Bytes(s) = Total(w)[Len(s)]
      BY DEF Bytes
    <2> HIDE DEF w
    <2>3. /\ Total(w) \in [0 .. Len(s) -> Nat] /\ Total(w)[0] = 0
          /\ \A n \in 1 .. Len(s) : Total(w)[n] = Total(w)[n - 1] + w[n]
      BY <2>1, TotalExact
    <2>4. Bytes(s) \in Nat /\ \A n \in 1 .. Len(s) : Total(w)[n] = Total(w)[n - 1] + ValueSize(s[n])
      BY <2>1, <2>2, <2>3
    <2>5. QED
      BY <2>2, <2>3, <2>4, Zenon DEF w
  <1> HIDE DEF widths
  <1>3. Bytes(vals) \in Nat
    BY <1>2
  <1>4. vals = <<>> => Bytes(vals) = 0
    <2>1. Len(<<>>) = 0
      OBVIOUS
    <2>2. QED
      BY <1>2, <2>1
  <1>5. ASSUME vals # <<>>
        PROVE  /\ Front(vals) \in Seq(Vals(k)) /\ Last(vals) \in Vals(k)
               /\ Bytes(vals) = Bytes(Front(vals)) + ValueSize(Last(vals))
               /\ Bytes(Front(vals)) \in Nat
    <2> DEFINE f == Front(vals)
               N == Len(vals)
    <2>1. /\ N \in Nat /\ N >= 1 /\ f \in Seq(Vals(k)) /\ Len(f) = N - 1
          /\ Last(vals) = vals[N] /\ Last(vals) \in Vals(k)
          /\ \A i \in 1 .. N - 1 : f[i] = vals[i]
      BY <1>5, FrontLast
    <2> DEFINE T == Total(widths(vals))
               U == Total(widths(f))
    <2> HIDE DEF f, N
    <2>2. /\ T \in [0 .. N -> Nat] /\ T[0] = 0
          /\ \A n \in 1 .. N : T[n] = T[n - 1] + ValueSize(vals[n])
          /\ Bytes(vals) = T[N]
      BY <1>2 DEF N
    <2>3. /\ U \in [0 .. N - 1 -> Nat] /\ U[0] = 0
          /\ \A n \in 1 .. N - 1 : U[n] = U[n - 1] + ValueSize(f[n])
          /\ Bytes(f) = U[N - 1] /\ Bytes(f) \in Nat
      BY <1>2, <2>1
    <2> DEFINE S == {n \in 0 .. N - 1 : U[n] = T[n]}
    <2> HIDE DEF T, U
    <2>4. 0 \in S
      BY <2>1, <2>2, <2>3
    <2>5. ASSUME NEW n \in 0 .. N - 1, n \in S, n + 1 <= N - 1
          PROVE  n + 1 \in S
      <3>1. n + 1 \in 1 .. N - 1 /\ n + 1 \in 1 .. N /\ (n + 1) - 1 = n /\ n + 1 \in 0 .. N - 1
        BY <2>1, <2>5
      <3>2. U[n + 1] = U[n] + ValueSize(f[n + 1]) /\ T[n + 1] = T[n] + ValueSize(vals[n + 1])
        BY <2>2, <2>3, <3>1
      <3>3. f[n + 1] = vals[n + 1]
        BY <2>1, <3>1
      <3>4. QED
        BY <2>5, <3>1, <3>2, <3>3
    <2>6. 0 .. N - 1 \subseteq S
      <3> HIDE DEF S
      <3>1. 0 \in Int /\ N - 1 \in Int
        BY <2>1
      <3> QED
        BY <2>4, <2>5, <3>1, Upwards
    <2>7. U[N - 1] = T[N - 1] /\ T[N] = T[N - 1] + ValueSize(vals[N])
      BY <2>1, <2>2, <2>6
    <2>8. QED
      BY <2>1, <2>2, <2>3, <2>7 DEF f
  <1>6. QED
    BY <1>3, <1>4, <1>5

\* An entry of the table changes, but not whether it is marked.
LEMMA TableKept ==
  ASSUME NEW f, IsTable(f), NEW a \in DOMAIN f, NEW i \in Info, i.marked = f[a].marked,
         NEW g, g = [f EXCEPT ![a] = i]
  PROVE  IsTable(g) /\ Marked(g) = Marked(f)
  <1>1. DOMAIN g = DOMAIN f /\ \A b \in DOMAIN f : g[b] = IF b = a THEN i ELSE f[b]
    BY DEF IsTable
  <1>2. IsTable(g)
    BY <1>1 DEF IsTable
  <1>3. \A b : b \in Marked(g) <=> b \in Marked(f)
    BY <1>1 DEF Marked
  <1>4. QED
    BY <1>2, <1>3

LEMMA FailGood ==
  ASSUME NEW m, Good(m)
  PROVE  Good(Fail(m)) /\ Fail(m).nodes = m.nodes /\ Fail(m).done /\ Fail(m).got = m.got
  <1> DEFINE x == Fail(m)
  <1>1. /\ DOMAIN x = Fields /\ x.info = m.info /\ x.at = m.at /\ x.pc = m.pc /\ x.done = TRUE
        /\ x.st = m.st /\ x.shadow = m.shadow /\ x.keeps = m.keeps /\ x.used = m.used
        /\ x.got = m.got /\ x.list = m.list /\ x.nodes = m.nodes /\ x.doubts = m.doubts
        /\ x.success = FALSE
        /\ x.infos = [m.infos EXCEPT ![m.info].error = TRUE]
    BY DEF Good, Fields, Fail
  <1> HIDE DEF x
  <1>2. IsTable(x.infos) /\ Marked(x.infos) = Marked(m.infos)
    <2> DEFINE i == [m.infos[m.info] EXCEPT !.error = TRUE]
    <2>1. m.info \in DOMAIN m.infos /\ m.infos[m.info] \in Info /\ IsTable(m.infos)
      BY DEF Good, IsTable, Marked
    <2>2. i \in Info /\ i.marked = m.infos[m.info].marked
      BY <2>1 DEF Info
    <2>3. x.infos = [m.infos EXCEPT ![m.info] = i]
      BY <1>1
    <2> HIDE DEF i
    <2>4. QED
      BY <2>1, <2>2, <2>3, TableKept
  <1>3. QED
    BY <1>1, <1>2 DEF Good, K, x

-----------------------------------------------------------------------------
(***************************************************************************)
(* Nodes.                                                                  *)
(***************************************************************************)
\* A sequence with something in front of it that it did not have.
LEMMA InFront ==
  ASSUME NEW S, NEW x \in S, NEW s \in Seq(S), Distinct(s), \A i \in 1 .. Len(s) : s[i] # x
  PROVE  /\ <<x>> \o s \in Seq(S) /\ Distinct(<<x>> \o s)
         /\ \A i \in 1 .. Len(<<x>> \o s) : (<<x>> \o s)[i] = x \/ \E j \in 1 .. Len(s) : (<<x>> \o s)[i] = s[j]
  <1> DEFINE now == <<x>> \o s
  <1>1. /\ now \in Seq(S) /\ Len(now) = Len(s) + 1 /\ now[1] = x /\ Len(s) \in Nat
        /\ \A i \in 1 .. Len(s) : now[i + 1] = s[i]
        /\ DOMAIN now = 1 .. Len(s) + 1 /\ DOMAIN s = 1 .. Len(s)
    OBVIOUS
  <1> HIDE DEF now
  <1>2. ASSUME NEW i \in 1 .. Len(s) + 1, i # 1
        PROVE  i - 1 \in 1 .. Len(s) /\ now[i] = s[i - 1]
    <2>1. i - 1 \in 1 .. Len(s) /\ (i - 1) + 1 = i
      BY <1>1, <1>2
    <2>2. QED
      BY <1>1, <2>1
  <1>3. ASSUME NEW i \in 1 .. Len(s) + 1, NEW j \in 1 .. Len(s) + 1, i # j
        PROVE  now[i] # now[j]
    <2>1. CASE i = 1
      BY <1>1, <1>2, <1>3, <2>1
    <2>2. CASE j = 1
      BY <1>1, <1>2, <1>3, <2>2
    <2>3. CASE i # 1 /\ j # 1
      <3>1. i - 1 # j - 1
        BY <1>1, <1>3
      <3>2. s[i - 1] # s[j - 1]
        BY <1>1, <1>2, <2>3, <3>1 DEF Distinct
      <3>3. QED
        BY <1>2, <2>3, <3>2
    <2>4. QED
      BY <2>1, <2>2, <2>3
  <1>4. Distinct(now)
    BY <1>1, <1>3 DEF Distinct
  <1>5. \A i \in 1 .. Len(now) : now[i] = x \/ \E j \in 1 .. Len(s) : now[i] = s[j]
    BY <1>1, <1>2
  <1>6. QED
    BY <1>1, <1>4, <1>5 DEF now

\* What is behind the first of a sequence.
LEMMA Behind ==
  ASSUME NEW S, NEW s \in Seq(S), s # <<>>, Distinct(s)
  PROVE  /\ Head(s) = s[1] /\ Head(s) \in S /\ 1 \in DOMAIN s
         /\ Tail(s) \in Seq(S) /\ Distinct(Tail(s))
         /\ \A i \in DOMAIN Tail(s) : Tail(s)[i] # Head(s) /\ \E j \in DOMAIN s : Tail(s)[i] = s[j]
  <1> DEFINE t == Tail(s)
  <1>1. /\ Len(s) \in Nat /\ Len(s) >= 1 /\ DOMAIN s = 1 .. Len(s) /\ Head(s) = s[1] /\ s[1] \in S
        /\ t \in Seq(S) /\ Len(t) = Len(s) - 1 /\ DOMAIN t = 1 .. Len(s) - 1
        /\ \A i \in 1 .. Len(s) - 1 : t[i] = s[i + 1]
    OBVIOUS
  <1> HIDE DEF t
  <1>2. \A i \in 1 .. Len(s) - 1 : i + 1 \in DOMAIN s /\ i + 1 # 1 /\ 1 \in DOMAIN s
    BY <1>1
  <1>3. \A i \in 1 .. Len(s) - 1 : t[i] # s[1]
    BY <1>1, <1>2 DEF Distinct
  <1>4. ASSUME NEW i \in 1 .. Len(s) - 1, NEW j \in 1 .. Len(s) - 1, i # j
        PROVE  t[i] # t[j]
    <2>1. i + 1 # j + 1
      BY <1>1, <1>4
    <2>2. QED
      BY <1>1, <1>2, <2>1 DEF Distinct
  <1>5. Distinct(t)
    BY <1>1, <1>4 DEF Distinct
  <1>6. \A i \in DOMAIN t : t[i] # s[1] /\ \E j \in DOMAIN s : t[i] = s[j]
    BY <1>1, <1>2, <1>3
  <1>7. QED
    BY <1>1, <1>5, <1>6 DEF t

\* A node that is taken was not in use, and is not free any more.
LEMMA OneTaken ==
  ASSUME NEW k \in Nat, NEW pool, NEW used, AreShared(k, pool, used),
         NEW node, node = IF pool = <<>> THEN k + 1 ELSE Head(pool),
         NEW l, l = IF pool = <<>> THEN k + 1 ELSE k
  PROVE  node \in 1 .. l /\ AreShared(l, Rest(pool), <<node>> \o used)
  <1>1. /\ pool \in Seq(1 .. k) /\ used \in Seq(1 .. k)
        /\ Distinct(pool) /\ Distinct(used) /\ Disjoint(used, pool)
        /\ l \in Nat /\ k <= l /\ 1 .. k \subseteq 1 .. l
    BY DEF AreShared
  <1>2. used \in Seq(1 .. l) /\ DOMAIN used = 1 .. Len(used)
    BY <1>1
  <1>3. /\ node \in 1 .. l /\ \A i \in 1 .. Len(used) : used[i] # node
        /\ Rest(pool) \in Seq(1 .. l) /\ Distinct(Rest(pool))
        /\ \A i \in DOMAIN Rest(pool) : Rest(pool)[i] # node
        /\ \A i \in DOMAIN Rest(pool) : \E j \in DOMAIN pool : Rest(pool)[i] = pool[j]
    <2>1. CASE pool = <<>>
      <3>1. node = k + 1 /\ l = k + 1 /\ Rest(pool) = <<>>
        BY <2>1 DEF Rest
      <3>2. \A i \in 1 .. Len(used) : used[i] \in 1 .. k
        BY <1>1
      <3>3. Rest(pool) \in Seq(1 .. l) /\ DOMAIN Rest(pool) = {}
        BY <3>1
      <3>4. QED
        BY <3>1, <3>2, <3>3 DEF Distinct
    <2>2. CASE pool # <<>>
      <3>1. node = Head(pool) /\ l = k /\ Rest(pool) = Tail(pool)
        BY <2>2 DEF Rest
      <3>2. /\ node = pool[1] /\ node \in 1 .. k /\ 1 \in DOMAIN pool
            /\ Tail(pool) \in Seq(1 .. k) /\ Distinct(Tail(pool))
            /\ \A i \in DOMAIN Tail(pool) :
                 Tail(pool)[i] # node /\ \E j \in DOMAIN pool : Tail(pool)[i] = pool[j]
        BY <1>1, <2>2, <3>1, Behind
      <3>3. \A i \in 1 .. Len(used) : used[i] # node
        BY <1>1, <1>2, <3>2 DEF Disjoint
      <3>4. QED
        BY <3>1, <3>2, <3>3
    <2>3. QED
      BY <2>1, <2>2
  <1> DEFINE now == <<node>> \o used
             rest == Rest(pool)
  <1>4. /\ now \in Seq(1 .. l) /\ Distinct(now) /\ DOMAIN now = 1 .. Len(now)
        /\ \A i \in 1 .. Len(now) : now[i] = node \/ \E j \in 1 .. Len(used) : now[i] = used[j]
    <2> DEFINE S == 1 .. l
    <2>1. node \in S /\ used \in Seq(S) /\ Distinct(used) /\ \A i \in 1 .. Len(used) : used[i] # node
      BY <1>1, <1>2, <1>3
    <2> HIDE DEF S
    <2>2. /\ now \in Seq(S) /\ Distinct(now)
          /\ \A i \in 1 .. Len(now) : now[i] = node \/ \E j \in 1 .. Len(used) : now[i] = used[j]
      BY <2>1, InFront
    <2>3. DOMAIN now = 1 .. Len(now)
      BY <2>2
    <2>4. QED
      BY <2>2, <2>3 DEF S
  <1> HIDE DEF now, rest
  <1>5. ASSUME NEW i \in DOMAIN now, NEW j \in DOMAIN rest
        PROVE  now[i] # rest[j]
    <2>1. rest[j] # node /\ \E a \in DOMAIN pool : rest[j] = pool[a]
      BY <1>3 DEF rest
    <2>2. \A a \in DOMAIN used : used[a] # rest[j]
      BY <1>1, <2>1 DEF Disjoint
    <2>3. QED
      BY <1>2, <1>4, <2>1, <2>2
  <1>6. QED
    BY <1>3, <1>4, <1>5 DEF AreShared, Disjoint, now, rest

\* The whole that was split is kept at its node.
LEMMA HeapKept ==
  ASSUME NEW k \in Nat, NEW heap \in Seq(Kept(k)), Len(heap) = k, NEW kept \in Kept(k)
  PROVE  /\ Len(Append(heap, kept)) = k + 1 /\ Append(heap, kept) \in Seq(Kept(k + 1))
         /\ \A node \in 1 .. k : /\ Len([heap EXCEPT ![node] = kept]) = k
                                 /\ [heap EXCEPT ![node] = kept] \in Seq(Kept(k))
  <1>1. Len(Append(heap, kept)) = k + 1 /\ Append(heap, kept) \in Seq(Kept(k))
    OBVIOUS
  <1>2. Seq(Kept(k)) \subseteq Seq(Kept(k + 1))
    <2>1. k + 1 \in Nat /\ k <= k + 1
      OBVIOUS
    <2>2. QED
      BY <2>1, ValsGrow
  <1>3. ASSUME NEW node \in 1 .. k
        PROVE  /\ Len([heap EXCEPT ![node] = kept]) = k
               /\ [heap EXCEPT ![node] = kept] \in Seq(Kept(k))
    <2>1. DOMAIN heap = 1 .. k
      OBVIOUS
    <2>2. QED
      BY <2>1
  <1>4. QED
    BY <1>1, <1>2, <1>3

-----------------------------------------------------------------------------
(***************************************************************************)
(* Taking values from the stacks.                                          *)
(***************************************************************************)
\* The number of nodes, and what there is of the stacks.
LEMMA GoodParts ==
  ASSUME NEW m, Good(m)
  PROVE  /\ K(m) \in Nat /\ m.nodes.heap \in Seq(Kept(K(m)))
         /\ m.nodes.splits \in Nat
         /\ m.nodes = [heap |-> m.nodes.heap, pool |-> m.nodes.pool, splits |-> m.nodes.splits]
         /\ AreShared(K(m), m.nodes.pool, m.used)
         /\ \A s \in Stacks : m.st[s] \in Seq(Vals(K(m))) /\ m.shadow[s] \in Seq(Vals(K(m)))
         /\ m.st = [s \in Stacks |-> m.st[s]] /\ m.shadow = [s \in Stacks |-> m.shadow[s]]
         /\ m.infos[m.info] \in Info /\ m.info \in DOMAIN m.infos /\ m.info \in Shorts
         /\ \A a \in DOMAIN m.infos : m.infos[a] \in Info /\ a \in Shorts
  <1>1. /\ m.nodes \in [heap : Seq(Kept(K(m))), pool : Seq(1 .. K(m)), splits : Nat]
        /\ AreShared(K(m), m.nodes.pool, m.used)
    BY DEF Good, AreOwned, K
  <1>2. K(m) \in Nat
    BY <1>1 DEF K
  <1>3. m.info \in DOMAIN m.infos /\ \A a \in DOMAIN m.infos : m.infos[a] \in Info /\ a \in Shorts
    BY DEF Good, IsTable, Marked
  <1>4. m.st \in [Stacks -> Seq(Vals(K(m)))] /\ m.shadow \in [Stacks -> Seq(Vals(K(m)))]
    BY DEF Good, StacksOf
  <1>5. QED
    BY <1>1, <1>2, <1>3, <1>4

LEMMA GotGood ==
  ASSUME NEW m, Good(m), NEW val \in Vals(K(m))
  PROVE  LET x == Got(m, val)
         IN  /\ Good(x) /\ x.nodes = m.nodes /\ Len(x.got) = Len(m.got) + 1
             /\ x.got[Len(x.got)] = val
  <1> DEFINE x == Got(m, val)
  <1>1. /\ DOMAIN x = Fields /\ x.info = m.info /\ x.at = m.at /\ x.pc = m.pc /\ x.done = m.done
        /\ x.st = m.st /\ x.shadow = m.shadow /\ x.keeps = m.keeps /\ x.used = m.used
        /\ x.got = Append(m.got, val) /\ x.list = m.list /\ x.nodes = m.nodes /\ x.doubts = m.doubts
        /\ x.success = m.success /\ x.infos = m.infos
    BY DEF Good, Fields, Got
  <1> HIDE DEF x
  <1>2. m.got \in Seq(Vals(K(m)))
    BY DEF Good
  <1>3. x.got \in Seq(Vals(K(m))) /\ Len(x.got) = Len(m.got) + 1 /\ x.got[Len(x.got)] = val
    BY <1>1, <1>2
  <1>4. QED
    BY <1>1, <1>3 DEF Good, K, x

\* A half has a node with its whole.
LEMMA HalfType ==
  ASSUME NEW k \in Nat, NEW which \in {"hi", "lo"}, NEW top \in Vals(k), NEW v \in Shorts,
         NEW l \in Nat, NEW node \in 1 .. l, NEW split \in Nat
  PROVE  Half(which, top, v, node, split) \in Vals(l)
  <1> DEFINE sem == {which} \union (top.sem \intersect {"const", "forked"})
             w == IF "const" \in top.sem THEN v ELSE 0
  <1>1. sem \subseteq Semantics /\ sem \intersect {"hi", "lo"} # {}
    BY DEF Semantics
  <1>2. w \in Shorts /\ ("const" \in sem \/ w = 0) /\ <<>> \in Names /\ node \in 0 .. l /\ node # 0
    BY Numbers DEF Names
  <1> HIDE DEF sem, w
  <1>3. [sem |-> sem, v |-> w, type |-> <<>>, whole |-> node, split |-> split] \in Vals(l)
    BY <1>1, <1>2, ValMade
  <1>4. QED
    BY <1>3 DEF Half, sem, w

\* What is taken from stacks leaves them stacks.
LEMMA StackChanged ==
  ASSUME NEW k \in Nat, NEW l \in Nat, k <= l, NEW st \in StacksOf(k), NEW side \in Stacks,
         NEW s \in Seq(Vals(l)), NEW new, new = [st EXCEPT ![side] = s]
  PROVE  new \in StacksOf(l) /\ new[side] = s
  <1>1. st \in StacksOf(l)
    BY ValsGrow
  <1>2. QED
    BY <1>1 DEF StacksOf

LEMMA SplitGood ==
  ASSUME NEW m, Good(m), NEW place \in {"st", "shadow"}, NEW side \in Stacks,
         m[place][side] # <<>>
  PROVE  LET x == Split(m, place, side)
         IN  Good(x) /\ K(m) <= K(x) /\ Len(x.got) = Len(m.got) + 1
  <1> DEFINE k == K(m)
             old == m[place][side]
             top == Last(old)
             node == IF m.nodes.pool = <<>> THEN Len(m.nodes.heap) + 1 ELSE Head(m.nodes.pool)
             n == m.nodes.splits + 1
             kept == [val |-> top, split |-> n]
             hi == Half("hi", top, top.v \div Byte, node, n)
             lo == Half("lo", top, top.v % Byte, node, n)
             heap == IF node > Len(m.nodes.heap) THEN Append(m.nodes.heap, kept)
                     ELSE [m.nodes.heap EXCEPT ![node] = kept]
             l == IF m.nodes.pool = <<>> THEN k + 1 ELSE k
             s == Append(Front(old), hi)
             x == Split(m, place, side)
  <1>1. /\ DOMAIN x = Fields /\ x.info = m.info /\ x.at = m.at /\ x.pc = m.pc /\ x.done = m.done
        /\ x.keeps = m.keeps /\ x.list = m.list /\ x.doubts = m.doubts
        /\ x.success = m.success /\ x.infos = m.infos
        /\ x.used = <<node>> \o m.used /\ x.got = Append(m.got, lo)
        /\ x.st = IF place = "st" THEN [m.st EXCEPT ![side] = s] ELSE m.st
        /\ x.shadow = IF place = "shadow" THEN [m.shadow EXCEPT ![side] = s] ELSE m.shadow
    <2>1. /\ DOMAIN x = Fields /\ x.info = m.info /\ x.at = m.at /\ x.pc = m.pc /\ x.done = m.done
          /\ x.keeps = m.keeps /\ x.list = m.list /\ x.doubts = m.doubts
      BY DEF Good, Fields, Split, Got
    <2>2. /\ x.success = m.success /\ x.infos = m.infos
          /\ x.used = <<node>> \o m.used /\ x.got = Append(m.got, lo)
      BY DEF Good, Fields, Split, Got
    <2>3. /\ x.st = IF place = "st" THEN [m.st EXCEPT ![side] = s] ELSE m.st
          /\ x.shadow = IF place = "shadow" THEN [m.shadow EXCEPT ![side] = s] ELSE m.shadow
      BY DEF Good, Fields, Split, Got
    <2> HIDE DEF x, node, lo, s
    <2>4. QED
      BY <2>1, <2>2, <2>3
  <1>2. x.nodes = [heap |-> heap, pool |-> Rest(m.nodes.pool), splits |-> n]
    <2>1. m.nodes = [heap |-> m.nodes.heap, pool |-> m.nodes.pool, splits |-> m.nodes.splits]
      BY GoodParts
    <2>2. x.nodes = [m.nodes EXCEPT !.heap = heap, !.pool = Rest(@), !.splits = n]
      BY DEF Good, Fields, Split, Got
    <2> HIDE DEF heap, n, x
    <2>3. QED
      BY <2>1, <2>2
  <1>3. /\ k \in Nat /\ m.nodes.heap \in Seq(Kept(k)) /\ Len(m.nodes.heap) = k
        /\ m.nodes.splits \in Nat /\ AreShared(k, m.nodes.pool, m.used)
        /\ old \in Seq(Vals(k)) /\ n \in Nat
        /\ m.st \in StacksOf(k) /\ m.shadow \in StacksOf(k) /\ m.got \in Seq(Vals(k))
    <2>1. /\ k \in Nat /\ m.nodes.heap \in Seq(Kept(k)) /\ m.nodes.splits \in Nat
          /\ AreShared(k, m.nodes.pool, m.used)
          /\ m.st[side] \in Seq(Vals(k)) /\ m.shadow[side] \in Seq(Vals(k))
      BY GoodParts
    <2>2. old \in Seq(Vals(k))
      BY <2>1
    <2>3. Len(m.nodes.heap) = k
      BY DEF K
    <2>4. m.st \in StacksOf(k) /\ m.shadow \in StacksOf(k) /\ m.got \in Seq(Vals(k))
      BY DEF Good
    <2>5. QED
      BY <2>1, <2>2, <2>3, <2>4
  <1>4. Front(old) \in Seq(Vals(k)) /\ top \in Vals(k)
    BY <1>3, FrontLast
  <1>5. kept \in Kept(k) /\ top.v \in Shorts
    BY <1>3, <1>4, ValParts DEF Kept
  <1> HIDE DEF top, old
  <1>6. node \in 1 .. l /\ AreShared(l, Rest(m.nodes.pool), <<node>> \o m.used)
    <2> DEFINE pool == m.nodes.pool
    <2>1. node = (IF pool = <<>> THEN k + 1 ELSE Head(pool)) /\ AreShared(k, pool, m.used)
      BY <1>3
    <2> HIDE DEF pool, node, k
    <2>2. QED
      BY <1>3, <2>1, OneTaken DEF pool
  <1>7. l \in Nat /\ k <= l /\ Len(heap) = l /\ heap \in Seq(Kept(l))
    <2> DEFINE was == m.nodes.heap
    <2>1. k \in Nat /\ was \in Seq(Kept(k)) /\ Len(was) = k /\ kept \in Kept(k)
      BY <1>3, <1>5
    <2>2. CASE m.nodes.pool = <<>>
      <3>1. node = k + 1 /\ l = k + 1 /\ heap = Append(was, kept)
        BY <2>1, <2>2
      <3> HIDE DEF node, l, kept, k, heap, was
      <3>2. Len(Append(was, kept)) = k + 1 /\ Append(was, kept) \in Seq(Kept(k + 1))
        BY <2>1, HeapKept
      <3>3. QED
        BY <2>1, <3>1, <3>2
    <2>3. CASE m.nodes.pool # <<>>
      <3>1. l = k
        BY <2>3
      <3> HIDE DEF l
      <3>2. node \in 1 .. k
        BY <1>6, <3>1
      <3> HIDE DEF node
      <3>3. heap = [was EXCEPT ![node] = kept]
        BY <2>1, <3>2
      <3> HIDE DEF kept, k, heap, was
      <3>4. /\ Len([was EXCEPT ![node] = kept]) = k
            /\ [was EXCEPT ![node] = kept] \in Seq(Kept(k))
        BY <2>1, <3>2, HeapKept
      <3>5. QED
        BY <2>1, <3>1, <3>3, <3>4
    <2>4. QED
      BY <2>2, <2>3
  <1> HIDE DEF l, heap
  <1>8. hi \in Vals(l) /\ lo \in Vals(l)
    <2>1. top.v \div Byte \in Shorts /\ top.v % Byte \in Shorts
      <3>1. top.v % Byte \in Bits
        <4> DEFINE v == top.v
        <4>1. v \in Int
          BY <1>5 DEF Shorts
        <4> HIDE DEF v
        <4>2. v % Byte \in Bits
          BY <4>1, Wraps
        <4>3. QED
          BY <4>2 DEF v
      <3>2. top.v \div Byte \in Shorts
        <4> DEFINE v == top.v
        <4>1. v \in Nat /\ v < Short /\ Byte \in Nat /\ Byte > 0
          BY <1>5, ByteType, ShortType DEF Shorts
        <4> HIDE DEF v
        <4>2. v \div Byte \in Nat /\ v \div Byte <= v
          BY <4>1
        <4>3. QED
          BY <4>1, <4>2, ShortType DEF Shorts, v
      <3>3. QED
        BY <3>1, <3>2, Numbers
    <2> HIDE DEF top, node, n, k
    <2>2. QED
      BY <1>3, <1>4, <1>6, <1>7, <2>1, HalfType
  <1> HIDE DEF hi, lo, node, n, top, old, x
  <1>9. s \in Seq(Vals(l)) /\ x.got \in Seq(Vals(l)) /\ Len(x.got) = Len(m.got) + 1
    <2>1. Front(old) \in Seq(Vals(l)) /\ m.got \in Seq(Vals(l))
      BY <1>3, <1>4, <1>7, ValsGrow
    <2>2. QED
      BY <1>1, <1>8, <2>1
  <1> HIDE DEF s, k
  <1>10. x.st \in StacksOf(l) /\ x.shadow \in StacksOf(l)
    <2>1. [m.st EXCEPT ![side] = s] \in StacksOf(l) /\ [m.shadow EXCEPT ![side] = s] \in StacksOf(l)
      BY <1>3, <1>7, <1>9, StackChanged
    <2>2. m.st \in StacksOf(l) /\ m.shadow \in StacksOf(l)
      BY <1>3, <1>7, ValsGrow
    <2>3. QED
      BY <1>1, <2>1, <2>2
  <1>11. K(x) = l /\ AreOwned(x.nodes, x.used)
    <2>1. x.nodes.heap = heap /\ x.nodes.pool = Rest(m.nodes.pool) /\ x.nodes.splits = n
          /\ x.nodes = [heap |-> x.nodes.heap, pool |-> x.nodes.pool, splits |-> x.nodes.splits]
      BY <1>2
    <2>2. Rest(m.nodes.pool) \in Seq(1 .. l)
      BY <1>6 DEF AreShared
    <2>3. QED
      BY <1>1, <1>3, <1>6, <1>7, <2>1, <2>2 DEF AreOwned, K
  <1>12. x.list \in Seq(Entries(l, Marked(x.infos)))
    BY <1>1, <1>3, <1>7, ValsGrow DEF Good, k
  <1>13. Good(x)
    BY <1>1, <1>9, <1>10, <1>11, <1>12 DEF Good
  <1>14. QED
    BY <1>7, <1>9, <1>11, <1>13 DEF x, k

\* The size of a stack is not more than its bytes are.
LEMMA SizeExact ==
  ASSUME NEW k \in Nat, NEW vals \in Seq(Vals(k))
  PROVE  Size(vals) \in Nat /\ Size(vals) <= Bytes(vals)
  <1> DEFINE n == Bytes(vals)
  <1>1. n \in Nat /\ StackMax \in Nat /\ StackMax > 0
    <2>1. n \in Nat
      BY BytesExact
    <2>2. StackMax \in Nat /\ StackMax > 0
      BY ByteType DEF StackMax
    <2>3. QED
      BY <2>1, <2>2
  <1> HIDE DEF n
  <1>2. n % StackMax \in Nat /\ n % StackMax <= n
    <2>1. /\ n % StackMax \in 0 .. StackMax - 1 /\ n \div StackMax \in Int
          /\ n = StackMax * (n \div StackMax) + (n % StackMax)
      BY <1>1, Quotient
    <2>2. n \div StackMax >= 0
      BY <1>1
    <2>3. StackMax * (n \div StackMax) >= 0
      BY <1>1, <2>1, <2>2
    <2>4. QED
      BY <1>1, <2>1, <2>3
  <1>3. QED
    BY <1>2 DEF Size, n

\* Where the size says something is, it is.
LEMMA Present ==
  ASSUME NEW k \in Nat, NEW vals \in Seq(Vals(k)), NEW n \in Widths, ~(n > Size(vals))
  PROVE  /\ vals # <<>>
         /\ ~(ValueSize(Last(vals)) >= n) => ValueSize(Last(vals)) = 1 /\ Front(vals) # <<>>
  <1>1. Bytes(vals) \in Nat /\ Bytes(vals) >= n /\ n \in Nat /\ n >= 1 /\ n <= 2
    <2>1. Bytes(vals) \in Nat
      BY BytesExact
    <2>2. Size(vals) \in Nat /\ Size(vals) <= Bytes(vals)
      BY SizeExact
    <2>3. n \in Nat /\ n >= 1 /\ n <= 2
      BY DEF Widths
    <2>4. QED
      BY <2>1, <2>2, <2>3
  <1>2. vals # <<>>
    BY <1>1, BytesExact
  <1>3. ASSUME ~(ValueSize(Last(vals)) >= n)
        PROVE  ValueSize(Last(vals)) = 1 /\ Front(vals) # <<>>
    <2>1. /\ Front(vals) \in Seq(Vals(k)) /\ Last(vals) \in Vals(k)
          /\ Bytes(vals) = Bytes(Front(vals)) + ValueSize(Last(vals))
          /\ Bytes(Front(vals)) \in Nat
      BY <1>2, BytesExact
    <2>2. ValueSize(Last(vals)) \in Widths
      BY <2>1, ValParts
    <2>3. ValueSize(Last(vals)) = 1 /\ n = 2
      BY <1>1, <1>3, <2>2 DEF Widths
    <2>4. Bytes(Front(vals)) # 0
      BY <1>1, <2>1, <2>3
    <2>5. QED
      BY <2>1, <2>3, <2>4, BytesExact
  <1>4. QED
    BY <1>2, <1>3

\* One more operand has been got, perhaps from a value that was split.
Pops(m, x) == Good(x) /\ K(m) <= K(x) /\ Len(x.got) = Len(m.got) + 1

LEMMA PopByteOrWholeGood ==
  ASSUME NEW m, Good(m), NEW place \in {"st", "shadow"}, NEW side \in Stacks, NEW n \in Widths,
         m[place][side] # <<>>
  PROVE  LET x == PopByteOrWhole(m, place, side, n)
         IN  /\ Pops(m, x)
             /\ ValueSize(Last(m[place][side])) = n => x[place][side] = Front(m[place][side])
  <1> DEFINE old == m[place][side]
             x == PopByteOrWhole(m, place, side, n)
             y == [m EXCEPT ![place][side] = Front(@)]
  <1>1. K(m) \in Nat /\ old \in Seq(Vals(K(m))) /\ old # <<>>
    BY GoodParts
  <1>2. Front(old) \in Seq(Vals(K(m))) /\ Last(old) \in Vals(K(m))
    BY <1>1, FrontLast
  <1>3. CASE ValueSize(Last(old)) = n
    <2>1. x = Got(y, Last(old))
      BY <1>3 DEF PopByteOrWhole
    <2>2. /\ DOMAIN y = Fields /\ y.info = m.info /\ y.at = m.at /\ y.pc = m.pc /\ y.done = m.done
          /\ y.keeps = m.keeps /\ y.list = m.list /\ y.doubts = m.doubts
          /\ y.success = m.success /\ y.infos = m.infos
          /\ y.used = m.used /\ y.got = m.got /\ y.nodes = m.nodes
          /\ y.st = IF place = "st" THEN [m.st EXCEPT ![side] = Front(old)] ELSE m.st
          /\ y.shadow = IF place = "shadow" THEN [m.shadow EXCEPT ![side] = Front(old)] ELSE m.shadow
      BY DEF Good, Fields
    <2> HIDE DEF y, old
    <2>3. m.st \in StacksOf(K(m)) /\ m.shadow \in StacksOf(K(m)) /\ K(m) <= K(m)
      BY <1>1 DEF Good
    <2>4. y.st \in StacksOf(K(m)) /\ y.shadow \in StacksOf(K(m))
      BY <1>1, <1>2, <2>2, <2>3, StackChanged
    <2>5. Good(y) /\ K(y) = K(m)
      BY <2>2, <2>4 DEF Good, K
    <2>6. y[place][side] = Front(old)
      BY <1>1, <1>2, <2>2, <2>3, StackChanged
    <2>7. Good(x) /\ x.nodes = y.nodes /\ Len(x.got) = Len(y.got) + 1
      BY <1>2, <2>1, <2>5, GotGood
    <2>8. x[place] = y[place]
      BY <2>1, <2>2 DEF Got, Fields
    <2>9. QED
      BY <1>1, <2>2, <2>5, <2>6, <2>7, <2>8 DEF Pops, K, old, x
  <1>4. CASE ValueSize(Last(old)) # n
    <2>1. x = Split(m, place, side)
      BY <1>4 DEF PopByteOrWhole
    <2>2. QED
      BY <1>4, <2>1, SplitGood DEF Pops
  <1>5. QED
    BY <1>3, <1>4

\* Two halves make a short, of which nothing is known but what is of both.
LEMMA MergedType ==
  ASSUME NEW k \in Nat, NEW hi \in Vals(k), NEW lo \in Vals(k)
  PROVE  Merged(hi, lo) \in Vals(k)
  <1> DEFINE sem == {"short"} \union (hi.sem \intersect lo.sem \intersect {"const", "forked", "address"})
             v == IF "const" \in hi.sem \intersect lo.sem
                  THEN Ora((hi.v * Byte) % Short, lo.v) ELSE 0
  <1>1. hi.v \in Shorts /\ lo.v \in Shorts
    BY ValParts
  <1>2. (hi.v * Byte) % Short \in Shorts
    <2> DEFINE n == hi.v * Byte
    <2>1. n \in Int
      BY <1>1, ByteType DEF Shorts
    <2> HIDE DEF n
    <2>2. n % Short \in Shorts
      BY <2>1, Wraps
    <2>3. QED
      BY <2>2 DEF n
  <1>3. Ora((hi.v * Byte) % Short, lo.v) \in Shorts
    BY <1>1, <1>2, BitwiseAssumption DEF Shorts
  <1>4. sem \subseteq Semantics /\ sem \intersect {"hi", "lo"} = {} /\ v \in Shorts
        /\ ("const" \in sem \/ v = 0) /\ <<>> \in Names /\ 0 \in 0 .. k /\ 0 \in Nat
    BY <1>3, Numbers DEF Semantics, Names
  <1>5. Merged(hi, lo) = [sem |-> sem, v |-> v, type |-> <<>>, whole |-> 0, split |-> 0]
    <2>1. Merged(hi, lo) = [Val(sem, 0) EXCEPT !.v = v]
      BY DEF Merged
    <2> HIDE DEF sem, v
    <2>2. QED
      BY <2>1 DEF Val
  <1> HIDE DEF sem, v
  <1>6. QED
    BY <1>4, <1>5, ValMade

LEMMA MergeGotGood ==
  ASSUME NEW m, Good(m), Len(m.got) >= 2
  PROVE  LET x == MergeGot(m)
         IN  Good(x) /\ x.nodes = m.nodes /\ Len(x.got) = Len(m.got) - 1
  <1> DEFINE x == MergeGot(m)
             n == Len(m.got)
             got == Append(SubSeq(m.got, 1, n - 2), Merged(m.got[n], m.got[n - 1]))
  <1>1. /\ DOMAIN x = Fields /\ x.info = m.info /\ x.at = m.at /\ x.pc = m.pc /\ x.done = m.done
        /\ x.st = m.st /\ x.shadow = m.shadow /\ x.keeps = m.keeps /\ x.used = m.used
        /\ x.got = got /\ x.list = m.list /\ x.nodes = m.nodes /\ x.doubts = m.doubts
        /\ x.success = m.success /\ x.infos = m.infos
    BY DEF Good, Fields, MergeGot
  <1>2. m.got \in Seq(Vals(K(m))) /\ K(m) \in Nat
    BY GoodParts DEF Good
  <1>3. got \in Seq(Vals(K(m))) /\ Len(got) = n - 1
    <2> DEFINE g == m.got
               V == Vals(K(m))
               p == n - 2
    <2>1. n \in Nat /\ p \in Int /\ p >= 0 /\ p = p - 1 + 1 /\ 1 \in Int
          /\ g \in Seq(V) /\ g[n] \in V /\ g[n - 1] \in V /\ \A i \in 1 .. p : g[i] \in V
      BY <1>2
    <2>2. Merged(g[n], g[n - 1]) \in V
      BY <1>2, <2>1, MergedType
    <2> HIDE DEF g, V, p
    <2>3. SubSeq(g, 1, p) \in Seq(V) /\ Len(SubSeq(g, 1, p)) = IF 1 <= p THEN p - 1 + 1 ELSE 0
      BY <2>1, SubSeqProperties
    <2>4. Len(SubSeq(g, 1, p)) = p
      BY <2>1, <2>3
    <2>5. Append(SubSeq(g, 1, p), Merged(g[n], g[n - 1])) \in Seq(V)
          /\ Len(Append(SubSeq(g, 1, p), Merged(g[n], g[n - 1]))) = p + 1
      BY <2>2, <2>3, <2>4
    <2>6. QED
      BY <2>1, <2>5 DEF g, V, p
  <1> HIDE DEF x, got
  <1>4. QED
    BY <1>1, <1>3 DEF Good, K, x, n

\* What is pushed when something was not there.
LEMMA ErrorType ==
  ASSUME NEW k \in Nat
  PROVE  ValueError \in Vals(k)
  BY ValType, Numbers DEF ValueError, Semantics

LEMMA PopFromGood ==
  ASSUME NEW m, Good(m), NEW place \in {"st", "shadow"}, NEW side \in Stacks, NEW n \in Widths
  PROVE  Pops(m, PopFrom(m, place, side, n))
  <1> DEFINE old == m[place][side]
             x == PopFrom(m, place, side, n)
  <1>1. K(m) \in Nat /\ old \in Seq(Vals(K(m)))
    BY GoodParts
  <1>2. CASE n > Size(old)
    <2>1. x = Got(Fail(m), ValueError)
      BY <1>2 DEF PopFrom
    <2>2. Good(Fail(m)) /\ Fail(m).nodes = m.nodes /\ Fail(m).got = m.got
      BY FailGood
    <2>3. K(Fail(m)) = K(m) /\ ValueError \in Vals(K(m))
      BY <1>1, <2>2, ErrorType DEF K
    <2>4. Good(x) /\ x.nodes = Fail(m).nodes /\ Len(x.got) = Len(Fail(m).got) + 1
      BY <2>1, <2>2, <2>3, GotGood
    <2>5. QED
      BY <1>1, <2>2, <2>4 DEF Pops, K
  <1>3. CASE ~(n > Size(old)) /\ ValueSize(Last(old)) >= n
    <2>1. x = PopByteOrWhole(m, place, side, n)
      BY <1>3 DEF PopFrom
    <2>2. old # <<>>
      BY <1>1, <1>3, Present
    <2>3. QED
      BY <2>1, <2>2, PopByteOrWholeGood
  <1>4. CASE ~(n > Size(old)) /\ ~(ValueSize(Last(old)) >= n)
    <2> DEFINE y == PopByteOrWhole(m, place, side, 1)
               z == PopByteOrWhole(y, place, side, 1)
    <2>1. x = MergeGot(z)
      BY <1>4 DEF PopFrom
    <2>2. old # <<>> /\ ValueSize(Last(old)) = 1 /\ Front(old) # <<>>
      BY <1>1, <1>4, Present
    <2>3. 1 \in Widths
      BY DEF Widths
    <2>4. Pops(m, y) /\ y[place][side] = Front(old)
      BY <2>2, <2>3, PopByteOrWholeGood
    <2> HIDE DEF y
    <2>5. Pops(y, z)
      BY <2>2, <2>3, <2>4, PopByteOrWholeGood DEF Pops
    <2> HIDE DEF z
    <2>6. Len(m.got) \in Nat /\ K(y) \in Nat /\ K(z) \in Nat
      <3>1. m.got \in Seq(Vals(K(m)))
        BY DEF Good
      <3>2. K(y) \in Nat /\ K(z) \in Nat
        BY <2>4, <2>5, GoodParts DEF Pops
      <3>3. QED
        BY <3>1, <3>2
    <2>7. Good(x) /\ x.nodes = z.nodes /\ Len(x.got) = Len(z.got) - 1
      <3>1. Good(z) /\ Len(z.got) >= 2
        BY <2>4, <2>5, <2>6 DEF Pops
      <3>2. QED
        BY <2>1, <3>1, MergeGotGood
    <2>8. QED
      BY <1>1, <2>4, <2>5, <2>6, <2>7 DEF Pops, K
  <1>5. QED
    BY <1>2, <1>3, <1>4

LEMMA PopOperandGood ==
  ASSUME NEW m, Good(m), NEW side \in Stacks, NEW n \in Widths
  PROVE  Pops(m, PopOperand(m, side, n))
  <1>1. CASE m.done
    <2>1. K(m) \in Nat /\ PopOperand(m, side, n) = Got(m, ValueError)
      BY <1>1, GoodParts DEF PopOperand
    <2>2. QED
      BY <2>1, ErrorType, GotGood DEF Pops, K
  <1>2. CASE ~m.done
    <2> DEFINE place == IF m.keeps THEN "shadow" ELSE "st"
    <2>1. PopOperand(m, side, n) = PopFrom(m, place, side, n) /\ place \in {"st", "shadow"}
      BY <1>2 DEF PopOperand
    <2> HIDE DEF place
    <2>2. QED
      BY <2>1, PopFromGood
  <1>3. QED
    BY <1>1, <1>2

\* Before anything is got.
Fresh(m) == [m EXCEPT !.got = <<>>]

LEMMA NothingGot ==
  ASSUME NEW m, Good(m)
  PROVE  Good(Fresh(m)) /\ Fresh(m).nodes = m.nodes /\ Fresh(m).got = <<>>
  <1> DEFINE x == Fresh(m)
  <1>1. /\ DOMAIN x = Fields /\ x.info = m.info /\ x.at = m.at /\ x.pc = m.pc /\ x.done = m.done
        /\ x.st = m.st /\ x.shadow = m.shadow /\ x.keeps = m.keeps /\ x.used = m.used
        /\ x.got = <<>> /\ x.list = m.list /\ x.nodes = m.nodes /\ x.doubts = m.doubts
        /\ x.success = m.success /\ x.infos = m.infos
    BY DEF Good, Fields, Fresh
  <1> HIDE DEF x
  <1>2. x.got \in Seq(Vals(K(m)))
    BY <1>1
  <1>3. QED
    BY <1>1, <1>2 DEF Good, K, x

\* One operand after the other leaves as many as there are.
LEMMA PopsAlong ==
  ASSUME NEW m, Good(m), NEW n \in Nat, NEW f, f[0] = m,
         \A i \in 1 .. n : Good(f[i - 1]) => Pops(f[i - 1], f[i])
  PROVE  Good(f[n]) /\ K(m) <= K(f[n]) /\ Len(f[n].got) = Len(m.got) + n
  <1> DEFINE l == Len(m.got)
             Q(i) == Good(f[i]) /\ K(m) <= K(f[i]) /\ Len(f[i].got) = l + i
             M == {i \in 0 .. n : Q(i)}
  <1>1. K(m) \in Nat
    BY GoodParts
  <1>2. l \in Nat
    <2> DEFINE V == Vals(K(m))
    <2>1. m.got \in Seq(V)
      BY DEF Good
    <2> HIDE DEF V
    <2>2. QED
      BY <2>1
  <1> HIDE DEF l
  <1>3. 0 \in M
    <2>1. Len(f[0].got) = l + 0 /\ K(m) <= K(f[0])
      BY <1>1, <1>2 DEF l
    <2>2. 0 \in 0 .. n /\ Q(0)
      BY <2>1
    <2>3. QED
      BY <2>2
  <1>4. ASSUME NEW i \in 0 .. n, i \in M, i + 1 <= n
        PROVE  i + 1 \in M
    <2>1. i + 1 \in 1 .. n /\ (i + 1) - 1 = i /\ i + 1 \in 0 .. n
      BY <1>4
    <2>2. Pops(f[i], f[i + 1])
      BY <1>4, <2>1
    <2>3. K(f[i]) \in Nat /\ K(f[i + 1]) \in Nat
      BY <1>4, <2>2, GoodParts DEF Pops
    <2>4. Q(i)
      BY <1>4
    <2>5. /\ Good(f[i + 1]) /\ K(f[i]) <= K(f[i + 1])
          /\ Len(f[i + 1].got) = Len(f[i].got) + 1
      BY <2>2 DEF Pops
    <2>6. Q(i + 1)
      BY <1>1, <1>2, <2>3, <2>4, <2>5
    <2> HIDE DEF Q
    <2>7. QED
      BY <2>1, <2>6
  <1>5. 0 .. n \subseteq M
    <2> HIDE DEF M
    <2>1. 0 \in Int /\ n \in Int
      OBVIOUS
    <2>2. QED
      BY <1>3, <1>4, <2>1, Upwards
  <1>6. n \in 0 .. n
    OBVIOUS
  <1>7. QED
    BY <1>5, <1>6 DEF l

\* Operands are popped one after the other.
LEMMA PoppedExact ==
  ASSUME NEW m, NEW side, NEW widths, Len(widths) \in Nat
  PROVE  \E f : /\ f[0] = m
                /\ \A i \in 1 .. Len(widths) : f[i] = PopOperand(f[i - 1], side, widths[i])
                /\ Popped(m, side, widths) = f[Len(widths)]
  <1> DEFINE n == Len(widths)
             first == m
             step(x, i) == PopOperand(x, side, widths[i])
             Is(f, k) == f = [i \in 0 .. k |-> IF i = 0 THEN first ELSE step(f[i - 1], i)]
             M == {k \in 0 .. n : \E f : Is(f, k)}
  <1>1. n \in Nat /\ Popped(m, side, widths) = (CHOOSE f : Is(f, n))[n]
    BY DEF Popped
  <1> HIDE DEF n, first, step
  <1>2. 0 \in M
    <2> DEFINE f == [i \in 0 .. 0 |-> first]
    <2>1. Is(f, 0)
      OBVIOUS
    <2> HIDE DEF f, Is
    <2>2. QED
      BY <1>1, <2>1
  <1>3. ASSUME NEW k \in 0 .. n, k \in M, k + 1 <= n
        PROVE  k + 1 \in M
    <2>1. PICK f : Is(f, k)
      BY <1>3
    <2> DEFINE g == [i \in 0 .. k + 1 |-> IF i = k + 1 THEN step(f[k], k + 1) ELSE f[i]]
    <2>2. ASSUME NEW i \in 0 .. k + 1
          PROVE  g[i] = IF i = 0 THEN first ELSE step(g[i - 1], i)
      <3>1. CASE i = k + 1
        <4>1. i # 0 /\ i - 1 = k /\ k \in 0 .. k + 1 /\ k # k + 1
          BY <1>1, <3>1
        <4>2. g[k] = f[k] /\ g[i] = step(f[k], k + 1)
          BY <3>1, <4>1
        <4> HIDE DEF g
        <4>3. QED
          BY <3>1, <4>1, <4>2
      <3>2. CASE i # k + 1
        <4>1. i \in 0 .. k /\ (i # 0 => i - 1 \in 0 .. k + 1 /\ i - 1 # k + 1)
          BY <3>2
        <4>2. g[i] = f[i] /\ (i # 0 => g[i - 1] = f[i - 1])
          BY <3>2, <4>1
        <4>3. f[i] = IF i = 0 THEN first ELSE step(f[i - 1], i)
          BY <2>1, <4>1
        <4> HIDE DEF g
        <4>4. QED
          BY <4>2, <4>3
      <3>3. QED
        BY <3>1, <3>2
    <2>3. Is(g, k + 1)
      <3>1. g = [i \in 0 .. k + 1 |-> g[i]]
        OBVIOUS
      <3> HIDE DEF g
      <3>2. QED
        BY <2>2, <3>1
    <2> HIDE DEF g, Is
    <2>4. QED
      BY <1>3, <2>3
  <1>4. 0 .. n \subseteq M
    <2> HIDE DEF M
    <2>1. 0 \in Int /\ n \in Int
      BY <1>1
    <2>2. QED
      BY <1>2, <1>3, <2>1, Upwards
  <1> DEFINE F == CHOOSE f : Is(f, n)
  <1>5. Is(F, n)
    <2>1. \E f : Is(f, n)
      BY <1>1, <1>4
    <2> HIDE DEF Is
    <2>2. QED
      BY <2>1
  <1>6. Popped(m, side, widths) = F[n]
    BY <1>1
  <1> HIDE DEF F
  <1>7. 0 \in 0 .. n /\ \A i \in 1 .. n : i \in 0 .. n /\ i # 0
    BY <1>1
  <1>8. F[0] = first
    BY <1>5, <1>7
  <1>9. \A i \in 1 .. n : F[i] = step(F[i - 1], i)
    BY <1>5, <1>7
  <1>10. QED
    BY <1>6, <1>8, <1>9 DEF n, first, step

LEMMA PoppedGood ==
  ASSUME NEW m, Good(m), NEW side \in Stacks, NEW widths \in Seq(Widths)
  PROVE  LET x == Popped(m, side, widths)
         IN  Good(x) /\ K(m) <= K(x) /\ Len(x.got) = Len(m.got) + Len(widths)
  <1>1. PICK f : /\ f[0] = m
                 /\ \A i \in 1 .. Len(widths) : f[i] = PopOperand(f[i - 1], side, widths[i])
                 /\ Popped(m, side, widths) = f[Len(widths)]
    BY PoppedExact
  <1>2. Len(widths) \in Nat /\ \A i \in 1 .. Len(widths) : widths[i] \in Widths
    OBVIOUS
  <1>3. ASSUME NEW i \in 1 .. Len(widths), Good(f[i - 1])
        PROVE  Pops(f[i - 1], f[i])
    BY <1>1, <1>2, <1>3, PopOperandGood
  <1>4. QED
    BY <1>1, <1>2, <1>3, PopsAlong

\* A sequence backwards has the same elements.
LEMMA Backwards ==
  ASSUME NEW S, NEW s \in Seq(S)
  PROVE  /\ Reverse(s) \in Seq(S) /\ Len(Reverse(s)) = Len(s) /\ Len(s) \in Nat
         /\ \A i \in 1 .. Len(s) : /\ Reverse(s)[i] = s[Len(s) + 1 - i] /\ Reverse(s)[i] \in S
                                   /\ Len(s) + 1 - i \in 1 .. Len(s)
  <1>1. Reverse(s) = [i \in 1 .. Len(s) |-> s[(Len(s) - i) + 1]]
    BY DEF Reverse
  <1>2. Len(s) \in Nat /\ \A i \in 1 .. Len(s) : /\ (Len(s) - i) + 1 = Len(s) + 1 - i
                                                 /\ Len(s) + 1 - i \in 1 .. Len(s)
    OBVIOUS
  <1>3. \A i \in 1 .. Len(s) : s[Len(s) + 1 - i] \in S
    BY <1>2
  <1>4. QED
    BY <1>1, <1>2, <1>3

\* The size of what a signature has.
LEMMA PlainSize ==
  ASSUME NEW val \in Plain
  PROVE  ValueSize(val) \in Widths /\ val.sem \subseteq Semantics
  <1>1. val \in Vals(0) /\ 0 \in Nat
    BY DEF Plain
  <1>2. QED
    BY <1>1, ValParts

\* So are the values that are cast.
LEMMA PopCastExact ==
  ASSUME NEW m, NEW side, NEW cast, Len(cast) \in Nat
  PROVE  \E f : /\ f[0] = Fresh(m)
                /\ \A i \in 1 .. Len(cast) : f[i] = PopFrom(f[i - 1], "st", side, ValueSize(Reverse(cast)[i]))
                /\ PopCast(m, side, cast) = f[Len(cast)]
  <1> DEFINE n == Len(cast)
             first == Fresh(m)
             step(x, i) == PopFrom(x, "st", side, ValueSize(Reverse(cast)[i]))
             Is(f, k) == f = [i \in 0 .. k |-> IF i = 0 THEN first ELSE step(f[i - 1], i)]
             M == {k \in 0 .. n : \E f : Is(f, k)}
  <1>1. n \in Nat /\ PopCast(m, side, cast) = (CHOOSE f : Is(f, n))[n]
    BY DEF PopCast, Fresh
  <1> HIDE DEF n, first, step
  <1>2. 0 \in M
    <2> DEFINE f == [i \in 0 .. 0 |-> first]
    <2>1. Is(f, 0)
      OBVIOUS
    <2> HIDE DEF f, Is
    <2>2. QED
      BY <1>1, <2>1
  <1>3. ASSUME NEW k \in 0 .. n, k \in M, k + 1 <= n
        PROVE  k + 1 \in M
    <2>1. PICK f : Is(f, k)
      BY <1>3
    <2> DEFINE g == [i \in 0 .. k + 1 |-> IF i = k + 1 THEN step(f[k], k + 1) ELSE f[i]]
    <2>2. ASSUME NEW i \in 0 .. k + 1
          PROVE  g[i] = IF i = 0 THEN first ELSE step(g[i - 1], i)
      <3>1. CASE i = k + 1
        <4>1. i # 0 /\ i - 1 = k /\ k \in 0 .. k + 1 /\ k # k + 1
          BY <1>1, <3>1
        <4>2. g[k] = f[k] /\ g[i] = step(f[k], k + 1)
          BY <3>1, <4>1
        <4> HIDE DEF g
        <4>3. QED
          BY <3>1, <4>1, <4>2
      <3>2. CASE i # k + 1
        <4>1. i \in 0 .. k /\ (i # 0 => i - 1 \in 0 .. k + 1 /\ i - 1 # k + 1)
          BY <3>2
        <4>2. g[i] = f[i] /\ (i # 0 => g[i - 1] = f[i - 1])
          BY <3>2, <4>1
        <4>3. f[i] = IF i = 0 THEN first ELSE step(f[i - 1], i)
          BY <2>1, <4>1
        <4> HIDE DEF g
        <4>4. QED
          BY <4>2, <4>3
      <3>3. QED
        BY <3>1, <3>2
    <2>3. Is(g, k + 1)
      <3>1. g = [i \in 0 .. k + 1 |-> g[i]]
        OBVIOUS
      <3> HIDE DEF g
      <3>2. QED
        BY <2>2, <3>1
    <2> HIDE DEF g, Is
    <2>4. QED
      BY <1>3, <2>3
  <1>4. 0 .. n \subseteq M
    <2> HIDE DEF M
    <2>1. 0 \in Int /\ n \in Int
      BY <1>1
    <2>2. QED
      BY <1>2, <1>3, <2>1, Upwards
  <1> DEFINE F == CHOOSE f : Is(f, n)
  <1>5. Is(F, n)
    <2>1. \E f : Is(f, n)
      BY <1>1, <1>4
    <2> HIDE DEF Is
    <2>2. QED
      BY <2>1
  <1>6. PopCast(m, side, cast) = F[n]
    BY <1>1
  <1> HIDE DEF F
  <1>7. 0 \in 0 .. n /\ \A i \in 1 .. n : i \in 0 .. n /\ i # 0
    BY <1>1
  <1>8. F[0] = first
    BY <1>5, <1>7
  <1>9. \A i \in 1 .. n : F[i] = step(F[i - 1], i)
    BY <1>5, <1>7
  <1>10. QED
    BY <1>6, <1>8, <1>9 DEF n, first, step

LEMMA PopCastGood ==
  ASSUME NEW m, Good(m), NEW side \in Stacks, NEW cast \in Seq(Plain)
  PROVE  LET x == PopCast(m, side, cast)
         IN  Good(x) /\ K(m) <= K(x) /\ Len(x.got) = Len(cast)
  <1>1. PICK f : /\ f[0] = Fresh(m)
                 /\ \A i \in 1 .. Len(cast) :
                      f[i] = PopFrom(f[i - 1], "st", side, ValueSize(Reverse(cast)[i]))
                 /\ PopCast(m, side, cast) = f[Len(cast)]
    <2>1. Len(cast) \in Nat
      OBVIOUS
    <2>2. QED
      BY <2>1, PopCastExact
  <1>2. Len(cast) \in Nat /\ \A i \in 1 .. Len(cast) : ValueSize(Reverse(cast)[i]) \in Widths
    BY Backwards, PlainSize
  <1>3. ASSUME NEW i \in 1 .. Len(cast), Good(f[i - 1])
        PROVE  Pops(f[i - 1], f[i])
    BY <1>1, <1>2, <1>3, PopFromGood
  <1> DEFINE y == Fresh(m)
  <1>4. Good(y) /\ K(y) = K(m) /\ Len(y.got) = 0
    BY NothingGot DEF K
  <1> HIDE DEF y
  <1>5. Good(f[Len(cast)]) /\ K(y) <= K(f[Len(cast)]) /\ Len(f[Len(cast)].got) = Len(y.got) + Len(cast)
    <2>1. f[0] = y
      BY <1>1 DEF y
    <2>2. QED
      BY <1>2, <1>3, <1>4, <2>1, PopsAlong
  <1>6. QED
    BY <1>1, <1>2, <1>4, <1>5

-----------------------------------------------------------------------------
(***************************************************************************)
(* Pushing values, and checking those of signatures.                       *)
(***************************************************************************)
LEMMA DoubtGood ==
  ASSUME NEW m, Good(m), NEW why \in Doubts, NEW holds
  PROVE  Good(Doubt(m, why, holds)) /\ Doubt(m, why, holds).nodes = m.nodes
  <1> DEFINE x == [m EXCEPT !.doubts = @ \union {why}]
  <1>1. /\ DOMAIN x = Fields /\ x.info = m.info /\ x.at = m.at /\ x.pc = m.pc /\ x.done = m.done
        /\ x.st = m.st /\ x.shadow = m.shadow /\ x.keeps = m.keeps /\ x.used = m.used
        /\ x.got = m.got /\ x.list = m.list /\ x.nodes = m.nodes
        /\ x.doubts = m.doubts \union {why}
        /\ x.success = m.success /\ x.infos = m.infos
    BY DEF Good, Fields
  <1> HIDE DEF x
  <1>2. x.doubts \subseteq Doubts
    BY <1>1 DEF Good
  <1>3. Good(x)
    BY <1>1, <1>2 DEF Good, K
  <1>4. Doubt(m, why, holds) = m \/ Doubt(m, why, holds) = x
    BY DEF Doubt, x
  <1>5. QED
    BY <1>1, <1>3, <1>4

LEMMA FailIfGood ==
  ASSUME NEW m, Good(m), NEW wrong
  PROVE  Good(FailIf(m, wrong)) /\ FailIf(m, wrong).nodes = m.nodes
  BY FailGood DEF FailIf

\* A stack is replaced by another.
LEMMA StackGood ==
  ASSUME NEW m, Good(m), NEW side \in Stacks, NEW s \in Seq(Vals(K(m)))
  PROVE  LET x == [m EXCEPT !.st[side] = s] IN Good(x) /\ x.nodes = m.nodes
  <1> DEFINE x == [m EXCEPT !.st[side] = s]
  <1>1. /\ DOMAIN x = Fields /\ x.info = m.info /\ x.at = m.at /\ x.pc = m.pc /\ x.done = m.done
        /\ x.st = [m.st EXCEPT ![side] = s] /\ x.shadow = m.shadow /\ x.keeps = m.keeps
        /\ x.used = m.used /\ x.got = m.got /\ x.list = m.list /\ x.nodes = m.nodes
        /\ x.doubts = m.doubts /\ x.success = m.success /\ x.infos = m.infos
    BY DEF Good, Fields
  <1> HIDE DEF x
  <1>2. K(m) \in Nat /\ K(m) <= K(m) /\ m.st \in StacksOf(K(m))
    <2>1. K(m) \in Nat
      BY GoodParts
    <2>2. m.st \in StacksOf(K(m))
      BY DEF Good
    <2>3. QED
      BY <2>1, <2>2
  <1>3. x.st \in StacksOf(K(m))
    BY <1>1, <1>2, StackChanged
  <1>4. QED
    BY <1>1, <1>3 DEF Good, K, x

\* The half of a short has its whole at a node.
LEMMA WholeKept ==
  ASSUME NEW m, Good(m), NEW val \in Vals(K(m)), "lo" \in val.sem
  PROVE  m.nodes.heap[val.whole].val \in Vals(K(m))
  <1>1. K(m) \in Nat /\ m.nodes.heap \in Seq(Kept(K(m))) /\ Len(m.nodes.heap) = K(m)
    BY GoodParts DEF K
  <1>2. val.whole \in 0 .. K(m) /\ val.whole # 0
    BY <1>1, ValParts
  <1>3. val.whole \in 1 .. K(m)
    BY <1>1, <1>2
  <1>4. m.nodes.heap[val.whole] \in Kept(K(m))
    BY <1>1, <1>3
  <1>5. QED
    BY <1>4 DEF Kept

LEMMA PushGood ==
  ASSUME NEW m, Good(m), NEW side \in Stacks, NEW val \in Vals(K(m))
  PROVE  Good(Push(m, side, val)) /\ Push(m, side, val).nodes = m.nodes
  <1> DEFINE s == m.st[side]
             x == Push(m, side, val)
             whole == m.nodes.heap[val.whole].val
             y == [m EXCEPT !.st[side] = Append(Front(s), whole)]
             z == [m EXCEPT !.st[side] = Append(s, val)]
             recycled == /\ Last(s).whole = val.whole
                         /\ {m.nodes.heap[val.whole].split, Last(s).split} # {val.split}
             full == Bytes(s) + ValueSize(val) >= StackMax
             wide == "const" \in val.sem /\ val.v >= Byte ^ ValueSize(val)
             full1 == Doubt(z, "full", full)
  <1>1. s \in Seq(Vals(K(m)))
    BY GoodParts
  <1>2. {"recycled", "full", "wide"} \subseteq Doubts
    BY DEF Doubts
  <1>3. \/ x = m
        \/ x = Fail(m)
        \/ s # <<>> /\ Joins(Last(s), val) /\ x = Doubt(y, "recycled", recycled)
        \/ x = Doubt(full1, "wide", wide)
    BY DEF Push
  <1> HIDE DEF recycled, full, wide, x
  <1>4. CASE s # <<>> /\ Joins(Last(s), val) /\ x = Doubt(y, "recycled", recycled)
    <2>1. "lo" \in val.sem
      BY <1>4 DEF Joins
    <2>2. whole \in Vals(K(m)) /\ Front(s) \in Seq(Vals(K(m)))
      BY <1>1, <1>4, <2>1, WholeKept, FrontLast
    <2>3. Append(Front(s), whole) \in Seq(Vals(K(m)))
      <3> HIDE DEF whole, s
      <3> QED
        BY <2>2
    <2>4. Good(y) /\ y.nodes = m.nodes
      <3> DEFINE t == Append(Front(s), whole)
      <3>1. t \in Seq(Vals(K(m))) /\ y = [m EXCEPT !.st[side] = t]
        BY <2>3
      <3> HIDE DEF t, y
      <3>2. QED
        BY <3>1, StackGood
    <2> HIDE DEF y
    <2>5. QED
      BY <1>2, <1>4, <2>4, DoubtGood DEF x
  <1>5. CASE x = Doubt(full1, "wide", wide)
    <2>1. Append(s, val) \in Seq(Vals(K(m)))
      BY <1>1
    <2>2. Good(z) /\ z.nodes = m.nodes
      <3> DEFINE t == Append(s, val)
      <3>1. t \in Seq(Vals(K(m))) /\ z = [m EXCEPT !.st[side] = t]
        BY <2>1
      <3> HIDE DEF t, z
      <3>2. QED
        BY <3>1, StackGood
    <2> HIDE DEF z
    <2>3. Good(full1) /\ full1.nodes = m.nodes
      BY <1>2, <2>2, DoubtGood
    <2> HIDE DEF full1
    <2>4. QED
      BY <1>2, <1>5, <2>3, DoubtGood DEF x
  <1>6. QED
    BY <1>3, <1>4, <1>5, FailGood DEF x

\* Values are pushed one after the other.
LEMMA PushAllExact ==
  ASSUME NEW m, NEW side, NEW vals, Len(vals) \in Nat
  PROVE  \E f : /\ f[0] = m
                /\ \A i \in 1 .. Len(vals) : f[i] = Push(f[i - 1], side, vals[i])
                /\ PushAll(m, side, vals) = f[Len(vals)]
  <1> DEFINE n == Len(vals)
             first == m
             step(x, i) == Push(x, side, vals[i])
             Is(f, k) == f = [i \in 0 .. k |-> IF i = 0 THEN first ELSE step(f[i - 1], i)]
             M == {k \in 0 .. n : \E f : Is(f, k)}
  <1>1. n \in Nat /\ PushAll(m, side, vals) = (CHOOSE f : Is(f, n))[n]
    BY DEF PushAll
  <1> HIDE DEF n, first, step
  <1>2. 0 \in M
    <2> DEFINE f == [i \in 0 .. 0 |-> first]
    <2>1. Is(f, 0)
      OBVIOUS
    <2> HIDE DEF f, Is
    <2>2. QED
      BY <1>1, <2>1
  <1>3. ASSUME NEW k \in 0 .. n, k \in M, k + 1 <= n
        PROVE  k + 1 \in M
    <2>1. PICK f : Is(f, k)
      BY <1>3
    <2> DEFINE g == [i \in 0 .. k + 1 |-> IF i = k + 1 THEN step(f[k], k + 1) ELSE f[i]]
    <2>2. ASSUME NEW i \in 0 .. k + 1
          PROVE  g[i] = IF i = 0 THEN first ELSE step(g[i - 1], i)
      <3>1. CASE i = k + 1
        <4>1. i # 0 /\ i - 1 = k /\ k \in 0 .. k + 1 /\ k # k + 1
          BY <1>1, <3>1
        <4>2. g[k] = f[k] /\ g[i] = step(f[k], k + 1)
          BY <3>1, <4>1
        <4> HIDE DEF g
        <4>3. QED
          BY <3>1, <4>1, <4>2
      <3>2. CASE i # k + 1
        <4>1. i \in 0 .. k /\ (i # 0 => i - 1 \in 0 .. k + 1 /\ i - 1 # k + 1)
          BY <3>2
        <4>2. g[i] = f[i] /\ (i # 0 => g[i - 1] = f[i - 1])
          BY <3>2, <4>1
        <4>3. f[i] = IF i = 0 THEN first ELSE step(f[i - 1], i)
          BY <2>1, <4>1
        <4> HIDE DEF g
        <4>4. QED
          BY <4>2, <4>3
      <3>3. QED
        BY <3>1, <3>2
    <2>3. Is(g, k + 1)
      <3>1. g = [i \in 0 .. k + 1 |-> g[i]]
        OBVIOUS
      <3> HIDE DEF g
      <3>2. QED
        BY <2>2, <3>1
    <2> HIDE DEF g, Is
    <2>4. QED
      BY <1>3, <2>3
  <1>4. 0 .. n \subseteq M
    <2> HIDE DEF M
    <2>1. 0 \in Int /\ n \in Int
      BY <1>1
    <2>2. QED
      BY <1>2, <1>3, <2>1, Upwards
  <1> DEFINE F == CHOOSE f : Is(f, n)
  <1>5. Is(F, n)
    <2>1. \E f : Is(f, n)
      BY <1>1, <1>4
    <2> HIDE DEF Is
    <2>2. QED
      BY <2>1
  <1>6. PushAll(m, side, vals) = F[n]
    BY <1>1
  <1> HIDE DEF F
  <1>7. 0 \in 0 .. n /\ \A i \in 1 .. n : i \in 0 .. n /\ i # 0
    BY <1>1
  <1>8. F[0] = first
    BY <1>5, <1>7
  <1>9. \A i \in 1 .. n : F[i] = step(F[i - 1], i)
    BY <1>5, <1>7
  <1>10. QED
    BY <1>6, <1>8, <1>9 DEF n, first, step

LEMMA PushAllGood ==
  ASSUME NEW m, Good(m), NEW side \in Stacks, NEW vals \in Seq(Vals(K(m)))
  PROVE  Good(PushAll(m, side, vals)) /\ PushAll(m, side, vals).nodes = m.nodes
  <1> DEFINE n == Len(vals)
  <1>1. n \in Nat /\ \A i \in 1 .. n : vals[i] \in Vals(K(m))
    OBVIOUS
  <1>2. PICK f : /\ f[0] = m
                 /\ \A i \in 1 .. n : f[i] = Push(f[i - 1], side, vals[i])
                 /\ PushAll(m, side, vals) = f[n]
    BY <1>1, PushAllExact
  <1> DEFINE M == {i \in 0 .. n : Good(f[i]) /\ f[i].nodes = m.nodes}
  <1> HIDE DEF n
  <1>3. 0 \in M
    BY <1>1, <1>2
  <1>4. ASSUME NEW i \in 0 .. n, i \in M, i + 1 <= n
        PROVE  i + 1 \in M
    <2>1. i + 1 \in 1 .. n /\ (i + 1) - 1 = i /\ i + 1 \in 0 .. n
      BY <1>1, <1>4
    <2>2. f[i + 1] = Push(f[i], side, vals[i + 1]) /\ vals[i + 1] \in Vals(K(f[i]))
      BY <1>1, <1>2, <1>4, <2>1 DEF K
    <2>3. Good(f[i + 1]) /\ f[i + 1].nodes = f[i].nodes
      BY <1>4, <2>2, PushGood
    <2>4. QED
      BY <1>4, <2>1, <2>3
  <1>5. 0 .. n \subseteq M
    <2> HIDE DEF M
    <2>1. 0 \in Int /\ n \in Int
      BY <1>1
    <2>2. QED
      BY <1>3, <1>4, <2>1, Upwards
  <1>6. n \in 0 .. n
    BY <1>1
  <1>7. QED
    BY <1>2, <1>5, <1>6

LEMMA CheckElementGood ==
  ASSUME NEW m, Good(m), NEW dir, NEW side \in Stacks, NEW sig \in Plain
  PROVE  Good(CheckElement(m, dir, side, sig))
  <1> DEFINE x == PopFrom(m, "st", side, ValueSize(sig))
  <1>1. Good(x)
    BY PlainSize, PopFromGood DEF Pops
  <1> HIDE DEF x
  <1>2. QED
    BY <1>1, FailIfGood DEF CheckElement, x

\* The elements of a signature are checked one after the other.
LEMMA CheckElementsExact ==
  ASSUME NEW m, NEW dir, NEW side, NEW sig, Len(sig) \in Nat
  PROVE  \E f : /\ f[0] = m
                /\ \A i \in 1 .. Len(sig) : f[i] = CheckElement(f[i - 1], dir, side, Reverse(sig)[i])
                /\ CheckElements(m, dir, side, sig) = f[Len(sig)]
  <1> DEFINE n == Len(sig)
             first == m
             step(x, i) == CheckElement(x, dir, side, Reverse(sig)[i])
             Is(f, k) == f = [i \in 0 .. k |-> IF i = 0 THEN first ELSE step(f[i - 1], i)]
             M == {k \in 0 .. n : \E f : Is(f, k)}
  <1>1. n \in Nat /\ CheckElements(m, dir, side, sig) = (CHOOSE f : Is(f, n))[n]
    BY DEF CheckElements
  <1> HIDE DEF n, first, step
  <1>2. 0 \in M
    <2> DEFINE f == [i \in 0 .. 0 |-> first]
    <2>1. Is(f, 0)
      OBVIOUS
    <2> HIDE DEF f, Is
    <2>2. QED
      BY <1>1, <2>1
  <1>3. ASSUME NEW k \in 0 .. n, k \in M, k + 1 <= n
        PROVE  k + 1 \in M
    <2>1. PICK f : Is(f, k)
      BY <1>3
    <2> DEFINE g == [i \in 0 .. k + 1 |-> IF i = k + 1 THEN step(f[k], k + 1) ELSE f[i]]
    <2>2. ASSUME NEW i \in 0 .. k + 1
          PROVE  g[i] = IF i = 0 THEN first ELSE step(g[i - 1], i)
      <3>1. CASE i = k + 1
        <4>1. i # 0 /\ i - 1 = k /\ k \in 0 .. k + 1 /\ k # k + 1
          BY <1>1, <3>1
        <4>2. g[k] = f[k] /\ g[i] = step(f[k], k + 1)
          BY <3>1, <4>1
        <4> HIDE DEF g
        <4>3. QED
          BY <3>1, <4>1, <4>2
      <3>2. CASE i # k + 1
        <4>1. i \in 0 .. k /\ (i # 0 => i - 1 \in 0 .. k + 1 /\ i - 1 # k + 1)
          BY <3>2
        <4>2. g[i] = f[i] /\ (i # 0 => g[i - 1] = f[i - 1])
          BY <3>2, <4>1
        <4>3. f[i] = IF i = 0 THEN first ELSE step(f[i - 1], i)
          BY <2>1, <4>1
        <4> HIDE DEF g
        <4>4. QED
          BY <4>2, <4>3
      <3>3. QED
        BY <3>1, <3>2
    <2>3. Is(g, k + 1)
      <3>1. g = [i \in 0 .. k + 1 |-> g[i]]
        OBVIOUS
      <3> HIDE DEF g
      <3>2. QED
        BY <2>2, <3>1
    <2> HIDE DEF g, Is
    <2>4. QED
      BY <1>3, <2>3
  <1>4. 0 .. n \subseteq M
    <2> HIDE DEF M
    <2>1. 0 \in Int /\ n \in Int
      BY <1>1
    <2>2. QED
      BY <1>2, <1>3, <2>1, Upwards
  <1> DEFINE F == CHOOSE f : Is(f, n)
  <1>5. Is(F, n)
    <2>1. \E f : Is(f, n)
      BY <1>1, <1>4
    <2> HIDE DEF Is
    <2>2. QED
      BY <2>1
  <1>6. CheckElements(m, dir, side, sig) = F[n]
    BY <1>1
  <1> HIDE DEF F
  <1>7. 0 \in 0 .. n /\ \A i \in 1 .. n : i \in 0 .. n /\ i # 0
    BY <1>1
  <1>8. F[0] = first
    BY <1>5, <1>7
  <1>9. \A i \in 1 .. n : F[i] = step(F[i - 1], i)
    BY <1>5, <1>7
  <1>10. QED
    BY <1>6, <1>8, <1>9 DEF n, first, step

LEMMA CheckElementsGood ==
  ASSUME NEW m, Good(m), NEW dir, NEW side \in Stacks, NEW sig \in Seq(Plain)
  PROVE  Good(CheckElements(m, dir, side, sig))
  <1> DEFINE n == Len(sig)
  <1>1. n \in Nat /\ \A i \in 1 .. n : Reverse(sig)[i] \in Plain
    BY Backwards
  <1>2. PICK f : /\ f[0] = m
                 /\ \A i \in 1 .. n : f[i] = CheckElement(f[i - 1], dir, side, Reverse(sig)[i])
                 /\ CheckElements(m, dir, side, sig) = f[n]
    BY <1>1, CheckElementsExact
  <1> DEFINE M == {i \in 0 .. n : Good(f[i])}
  <1> HIDE DEF n
  <1>3. 0 \in M
    BY <1>1, <1>2
  <1>4. ASSUME NEW i \in 0 .. n, i \in M, i + 1 <= n
        PROVE  i + 1 \in M
    <2>1. i + 1 \in 1 .. n /\ (i + 1) - 1 = i /\ i + 1 \in 0 .. n
      BY <1>1, <1>4
    <2>2. Good(f[i + 1])
      BY <1>1, <1>2, <1>4, <2>1, CheckElementGood
    <2>3. QED
      BY <2>1, <2>2
  <1>5. 0 .. n \subseteq M
    <2> HIDE DEF M
    <2>1. 0 \in Int /\ n \in Int
      BY <1>1
    <2>2. QED
      BY <1>3, <1>4, <2>1, Upwards
  <1>6. n \in 0 .. n
    BY <1>1
  <1>7. QED
    BY <1>2, <1>5, <1>6

LEMMA CheckStackGood ==
  ASSUME NEW m, Good(m), NEW dir, NEW side \in Stacks, NEW sig \in Seq(Plain)
  PROVE  Good(CheckStack(m, dir, side, sig))
  BY FailGood, CheckElementsGood DEF CheckStack

LEMMA CheckStacksGood ==
  ASSUME NEW m, Good(m), NEW dir, NEW sig \in PlainStacks
  PROVE  Good(CheckStacks(m, dir, sig))
  <1>1. /\ "ws" \in Stacks /\ "rs" \in Stacks
        /\ sig["ws"] \in Seq(Plain) /\ sig["rs"] \in Seq(Plain)
    BY DEF PlainStacks, Stacks
  <1>2. Good(CheckStack(m, dir, "ws", sig["ws"]))
    BY <1>1, CheckStackGood
  <1>3. QED
    BY <1>1, <1>2, CheckStackGood DEF CheckStacks

-----------------------------------------------------------------------------
(***************************************************************************)
(* Ends of runs, and routines whose code is not run.                       *)
(***************************************************************************)
\* The run goes on elsewhere.
LEMMA PcGood ==
  ASSUME NEW m, Good(m), NEW pc \in Shorts
  PROVE  LET x == [m EXCEPT !.pc = pc] IN Good(x) /\ x.nodes = m.nodes
  <1> DEFINE x == [m EXCEPT !.pc = pc]
  <1>1. /\ DOMAIN x = Fields /\ x.info = m.info /\ x.at = m.at /\ x.pc = pc /\ x.done = m.done
        /\ x.st = m.st /\ x.shadow = m.shadow /\ x.keeps = m.keeps /\ x.used = m.used
        /\ x.got = m.got /\ x.list = m.list /\ x.nodes = m.nodes /\ x.doubts = m.doubts
        /\ x.success = m.success /\ x.infos = m.infos
    BY DEF Good, Fields
  <1> HIDE DEF x
  <1>2. QED
    BY <1>1 DEF Good, K, x

\* The run ends.
LEMMA TerminateGood ==
  ASSUME NEW m, Good(m)
  PROVE  LET x == Terminate(m) IN Good(x) /\ x.nodes = m.nodes
  <1> DEFINE x == Terminate(m)
  <1>1. /\ DOMAIN x = Fields /\ x.info = m.info /\ x.at = m.at /\ x.pc = m.pc /\ x.done = TRUE
        /\ x.st = m.st /\ x.shadow = m.shadow /\ x.keeps = m.keeps /\ x.used = m.used
        /\ x.got = m.got /\ x.list = m.list /\ x.nodes = m.nodes /\ x.doubts = m.doubts
        /\ x.success = m.success /\ x.infos = m.infos
    BY DEF Good, Fields, Terminate
  <1> HIDE DEF x
  <1>2. QED
    BY <1>1 DEF Good, K, x

\* A jump is remembered.
LEMMA ArcGood ==
  ASSUME NEW m, Good(m), NEW a
  PROVE  LET x == [m EXCEPT !.arcs = a] IN Good(x) /\ x.nodes = m.nodes
  <1> DEFINE x == [m EXCEPT !.arcs = a]
  <1>1. /\ DOMAIN x = Fields /\ x.info = m.info /\ x.at = m.at /\ x.pc = m.pc /\ x.done = m.done
        /\ x.st = m.st /\ x.shadow = m.shadow /\ x.keeps = m.keeps /\ x.used = m.used
        /\ x.got = m.got /\ x.list = m.list /\ x.nodes = m.nodes /\ x.doubts = m.doubts
        /\ x.success = m.success /\ x.infos = m.infos
    BY DEF Good, Fields
  <1> HIDE DEF x
  <1>2. QED
    BY <1>1 DEF Good, K, x

\* A run waits.
LEMMA ForkedGood ==
  ASSUME NEW m, Good(m), NEW st \in StacksOf(K(m))
  PROVE  Good(Forked(m, st)) /\ Forked(m, st).nodes = m.nodes /\ Forked(m, st).st = m.st
  <1> DEFINE x == Forked(m, st)
             entry == [info |-> m.info, at |-> m.pc, st |-> st]
             E == Entries(K(m), Marked(m.infos))
  <1>1. /\ DOMAIN x = Fields /\ x.info = m.info /\ x.at = m.at /\ x.pc = m.pc /\ x.done = m.done
        /\ x.st = m.st /\ x.shadow = m.shadow /\ x.keeps = m.keeps /\ x.used = m.used
        /\ x.got = m.got /\ x.list = <<entry>> \o m.list /\ x.nodes = m.nodes
        /\ x.doubts = m.doubts /\ x.success = m.success /\ x.infos = m.infos
    BY DEF Good, Fields, Forked
  <1> HIDE DEF x
  <1>2. entry \in E /\ m.list \in Seq(E)
    BY DEF Good, Entries
  <1>3. x.list \in Seq(E)
    <2> HIDE DEF entry, E
    <2> QED
      BY <1>1, <1>2
  <1>4. QED
    BY <1>1, <1>3 DEF Good, K, x

\* A routine is seen to end, or not to.
LEMMA EndedGood ==
  ASSUME NEW m, Good(m), NEW ends \in BOOLEAN
  PROVE  Good(Ended(m, ends))
  <1> DEFINE x == [m EXCEPT !.infos[m.info].terminated = ends]
             i == [m.infos[m.info] EXCEPT !.terminated = ends]
  <1>1. /\ DOMAIN x = Fields /\ x.info = m.info /\ x.at = m.at /\ x.pc = m.pc /\ x.done = m.done
        /\ x.st = m.st /\ x.shadow = m.shadow /\ x.keeps = m.keeps /\ x.used = m.used
        /\ x.got = m.got /\ x.list = m.list /\ x.nodes = m.nodes /\ x.doubts = m.doubts
        /\ x.success = m.success /\ x.infos = [m.infos EXCEPT ![m.info] = i]
    BY DEF Good, Fields
  <1> HIDE DEF x
  <1>2. IsTable(x.infos) /\ Marked(x.infos) = Marked(m.infos)
    <2>1. m.info \in DOMAIN m.infos /\ m.infos[m.info] \in Info /\ IsTable(m.infos)
      BY DEF Good, IsTable, Marked
    <2>2. i \in Info /\ i.marked = m.infos[m.info].marked
      BY <2>1 DEF Info
    <2> HIDE DEF i
    <2>3. QED
      BY <1>1, <2>1, <2>2, TableKept
  <1>3. Good(x)
    BY <1>1, <1>2 DEF Good, K
  <1>4. "forgotten" \in Doubts
    BY DEF Doubts
  <1>5. QED
    BY <1>3, <1>4, DoubtGood DEF Ended, x

\* The signature of a routine.
LEMMA SigType ==
  ASSUME NEW m, Good(m), NEW a \in DOMAIN m.infos
  PROVE  /\ m.infos[a].sig \in Sigs
         /\ m.infos[a].sig.in \in PlainStacks /\ m.infos[a].sig.out \in PlainStacks
  <1>1. m.infos[a] \in Info
    BY GoodParts
  <1>2. m.infos[a].sig \in Sigs
    BY <1>1 DEF Info
  <1>3. QED
    BY <1>2 DEF Sigs

LEMMA CheckReturnGood ==
  ASSUME NEW m, Good(m)
  PROVE  Good(CheckReturn(m))
  <1>1. Own(m).out \in PlainStacks
    BY GoodParts, SigType DEF Own
  <1>2. QED
    BY <1>1, CheckStacksGood DEF CheckReturn

LEMMA BRKGood ==
  ASSUME NEW m, Good(m)
  PROVE  Good(BRK(m))
  <1>1. Good(FailIf(m, Own(m).type = "subroutine"))
    BY FailIfGood
  <1>2. Good(Ended(FailIf(m, Own(m).type = "subroutine"), TRUE))
    BY <1>1, EndedGood
  <1>3. QED
    BY <1>2, CheckReturnGood, TerminateGood DEF BRK

LEMMA AbsJmpGood ==
  ASSUME NEW m, Good(m), NEW addr \in Vals(K(m)), NEW ends \in BOOLEAN
  PROVE  Good(AbsJmp(m, addr, ends))
  <1>1. CASE Returns(addr)
    <2>1. Good(FailIf(m, Own(m).type = "vector"))
      BY FailIfGood
    <2>2. Good(Ended(FailIf(m, Own(m).type = "vector"), ends))
      BY <2>1, EndedGood
    <2>3. QED
      BY <1>1, <2>2, CheckReturnGood, TerminateGood DEF AbsJmp
  <1>2. CASE ~Returns(addr) /\ "const" \in addr.sem
    <2>1. addr.v \in Shorts
      BY GoodParts, ValParts
    <2>2. AbsJmp(m, addr, ends) = [m EXCEPT !.pc = addr.v]
      BY <1>2 DEF AbsJmp
    <2>3. QED
      BY <2>1, <2>2, PcGood
  <1>3. CASE ~Returns(addr) /\ "const" \notin addr.sem
    BY <1>3, FailGood DEF AbsJmp
  <1>4. QED
    BY <1>1, <1>2, <1>3

LEMMA SimulateGood ==
  ASSUME NEW m, Good(m), NEW sig \in Sigs
  PROVE  Good(Simulate(m, sig))
  <1> DEFINE x == CheckStacks(m, "in", sig.in)
             y == PushAll(x, "ws", sig.out["ws"])
  <1>1. /\ "ws" \in Stacks /\ "rs" \in Stacks /\ sig.in \in PlainStacks
        /\ sig.out["ws"] \in Seq(Plain) /\ sig.out["rs"] \in Seq(Plain)
    BY DEF Sigs, PlainStacks, Stacks
  <1>2. Good(x)
    BY <1>1, CheckStacksGood
  <1> HIDE DEF x
  <1>3. K(x) \in Nat
    BY <1>2, GoodParts
  <1>4. sig.out["ws"] \in Seq(Vals(K(x)))
    BY <1>1, <1>3, PlainVals
  <1>5. Good(y)
    BY <1>1, <1>2, <1>4, PushAllGood
  <1> HIDE DEF y
  <1>6. K(y) \in Nat
    BY <1>5, GoodParts
  <1>7. sig.out["rs"] \in Seq(Vals(K(y)))
    BY <1>1, <1>6, PlainVals
  <1>8. Good(PushAll(y, "rs", sig.out["rs"]))
    BY <1>1, <1>5, <1>7, PushAllGood
  <1>9. QED
    BY <1>8 DEF Simulate, x, y

\* The operand that was got last.
LEMMA LastGot ==
  ASSUME NEW m, NEW x, Good(m), Pops(m, x)
  PROVE  Good(x) /\ Last(x.got) \in Vals(K(x))
  <1>1. x.got \in Seq(Vals(K(x))) /\ Len(x.got) = Len(m.got) + 1
    BY DEF Pops, Good
  <1>2. Len(m.got) \in Nat
    <2>1. m.got \in Seq(Vals(K(m)))
      BY DEF Good
    <2>2. QED
      BY <2>1
  <1>3. x.got # <<>>
    BY <1>1, <1>2
  <1>4. Last(x.got) \in Vals(K(x))
    BY <1>1, <1>3, FrontLast
  <1>5. QED
    BY <1>4 DEF Pops

LEMMA GoBackGood ==
  ASSUME NEW m, Good(m), NEW ends \in BOOLEAN
  PROVE  Good(GoBack(m, ends))
  <1> DEFINE back == PopFrom(m, "st", "rs", 2)
             to == Last(back.got)
  <1>1. "rs" \in Stacks /\ 2 \in Widths /\ "st" \in {"st", "shadow"} /\ "back" \in Doubts
    BY DEF Stacks, Widths, Doubts
  <1>2. Pops(m, back)
    BY <1>1, PopFromGood
  <1> HIDE DEF back
  <1>3. Good(back) /\ to \in Vals(K(back))
    BY <1>2, LastGot
  <1> HIDE DEF to
  <1>4. Good(AbsJmp(back, to, ends))
    BY <1>3, AbsJmpGood
  <1>5. Good(JumpBack(back, to, ends))
    BY <1>1, <1>4, DoubtGood DEF JumpBack
  <1>6. GoBack(m, ends) = Fail(m) \/ GoBack(m, ends) = JumpBack(back, to, ends)
    BY DEF GoBack, back, to
  <1>7. QED
    BY <1>5, <1>6, FailGood

LEMMA ShortCircuitGood ==
  ASSUME NEW m, Good(m), NEW target \in DOMAIN m.infos
  PROVE  Good(ShortCircuit(m, target))
  <1> DEFINE sig == m.infos[target].sig
             ends == target # m.info
             x == Simulate(m, sig)
  <1>1. ends \in BOOLEAN /\ sig \in Sigs
    BY SigType
  <1>2. \/ ShortCircuit(m, target) = GoBack(x, ends)
        \/ ShortCircuit(m, target) = Fail(m)
        \/ ShortCircuit(m, target) = Ended(Terminate(CheckReturn(x)), ends)
    BY DEF ShortCircuit
  <1>3. Good(x)
    BY <1>1, SimulateGood
  <1> HIDE DEF x, ends, sig
  <1>4. Good(GoBack(x, ends))
    BY <1>1, <1>3, GoBackGood
  <1>5. Good(Terminate(CheckReturn(x)))
    BY <1>3, CheckReturnGood, TerminateGood
  <1>6. Good(Ended(Terminate(CheckReturn(x)), ends))
    BY <1>1, <1>5, EndedGood
  <1>7. QED
    BY <1>2, <1>4, <1>6, FailGood

-----------------------------------------------------------------------------
(***************************************************************************)
(* Jumps.                                                                  *)
(***************************************************************************)
LEMMA LandGood ==
  ASSUME NEW m, Good(m), NEW from
  PROVE  Good(Land(m, from))
  <1>1. CASE m.done
    BY <1>1 DEF Land
  <1>2. CASE ~m.done /\ IsRoutine(m, m.pc)
    <2>1. m.pc \in DOMAIN m.infos
      BY <1>2 DEF IsRoutine
    <2>2. QED
      BY <1>2, <2>1, ShortCircuitGood DEF Land
  <1>3. CASE ~m.done /\ ~IsRoutine(m, m.pc)
    <2> DEFINE was == Doubt(m, "cut", ~Covers(m.arcs[<<from, m.pc>>], Image(m)))
               a == [c \in DOMAIN m.arcs \union {<<from, m.pc>>} |->
                       IF c \in DOMAIN m.arcs THEN m.arcs[c] ELSE Image(m)]
    <2>1. Land(m, from) = Arc(m, from)
      BY <1>3 DEF Land
    <2>2. Arc(m, from) = Terminate(was) \/ Arc(m, from) = [m EXCEPT !.arcs = a]
      BY DEF Arc
    <2>3. Good(was)
      <3>1. "cut" \in Doubts
        BY DEF Doubts
      <3>2. QED
        BY <3>1, DoubtGood
    <2> HIDE DEF was, a
    <2>4. Good(Terminate(was)) /\ Good([m EXCEPT !.arcs = a])
      BY <2>3, TerminateGood, ArcGood
    <2>5. QED
      BY <2>1, <2>2, <2>4
  <1>4. QED
    BY <1>1, <1>2, <1>3

LEMMA JumpGood ==
  ASSUME NEW m, Good(m), NEW addr \in Vals(K(m))
  PROVE  Good(Jump(m, addr))
  <1> DEFINE x == IF "short" \in addr.sem THEN AbsJmp(m, addr, TRUE) ELSE Relative(m, addr)
  <1>1. Good(AbsJmp(m, addr, TRUE))
    BY AbsJmpGood
  <1>2. Good(Relative(m, addr))
    <2>1. addr.v \in Shorts /\ m.pc \in Shorts
      BY GoodParts, ValParts DEF Good
    <2>2. Rel(m.pc, addr.v % Byte) \in Shorts
      <3> DEFINE v == addr.v % Byte
      <3>1. v \in Shorts /\ m.pc \in Int
        <4> DEFINE w == addr.v
        <4>1. w \in Int /\ m.pc \in Int
          BY <2>1 DEF Shorts
        <4> HIDE DEF w
        <4>2. w % Byte \in Bits
          BY <4>1, Wraps
        <4>3. QED
          BY <4>1, <4>2, Numbers DEF w
      <3> HIDE DEF v
      <3>2. QED
        BY <3>1, RelType DEF v
    <2>3. Good([m EXCEPT !.pc = Rel(m.pc, addr.v % Byte)])
      <3> DEFINE pc == Rel(m.pc, addr.v % Byte)
      <3>1. pc \in Shorts
        BY <2>2
      <3> HIDE DEF pc
      <3>2. Good([m EXCEPT !.pc = pc])
        BY <3>1, PcGood
      <3>3. QED
        BY <3>2 DEF pc
    <2>4. QED
      BY <2>3, FailGood DEF Relative
  <1>3. Good(x)
    BY <1>1, <1>2
  <1> HIDE DEF x
  <1>4. Good(Land(x, m.pc))
    BY <1>3, LandGood
  <1>5. QED
    BY <1>4 DEF Jump, x

LEMMA JumpStashGood ==
  ASSUME NEW m, Good(m), NEW side \in Stacks, NEW addr \in Vals(K(m))
  PROVE  Good(JumpStash(m, side, addr))
  <1> DEFINE back == Val({"short", "address", "const"}, m.pc)
             x == Push(m, side, back)
  <1>1. back \in Vals(K(m))
    <2>1. m.pc \in Shorts /\ K(m) \in Nat
      BY GoodParts DEF Good
    <2>2. {"short", "address", "const"} \subseteq Semantics \ {"hi", "lo"}
      BY DEF Semantics
    <2>3. QED
      BY <2>1, <2>2, ValType
  <1> HIDE DEF back
  <1>2. Good(x) /\ K(x) = K(m)
    BY <1>1, PushGood DEF K
  <1> HIDE DEF x
  <1>3. Good(Jump(x, addr))
    BY <1>2, JumpGood
  <1>4. QED
    BY <1>3 DEF JumpStash, x, back

LEMMA JumpConditionalGood ==
  ASSUME NEW m, Good(m), NEW cond, NEW addr \in Vals(K(m))
  PROVE  Good(JumpConditional(m, cond, addr))
  <1>1. Good(Forked(m, m.st)) /\ K(Forked(m, m.st)) = K(m)
    <2>1. m.st \in StacksOf(K(m))
      BY DEF Good
    <2>2. QED
      BY <2>1, ForkedGood DEF K
  <1>2. Good(Jump(m, addr)) /\ Good(Jump(Forked(m, m.st), addr))
    BY <1>1, JumpGood
  <1>3. QED
    BY <1>2 DEF JumpConditional

-----------------------------------------------------------------------------
(***************************************************************************)
(* What instructions make of values.                                       *)
(***************************************************************************)
LEMMA IncType ==
  ASSUME NEW k \in Nat, NEW val \in Vals(k)
  PROVE  INC(val) \in Vals(k)
  <1> DEFINE sem == val.sem \ {"nominal", "hi", "lo"}
             v == IF "const" \in val.sem THEN (val.v + 1) % Short ELSE val.v
  <1>1. /\ val.sem \subseteq Semantics /\ val.v \in Shorts /\ ("const" \in val.sem \/ val.v = 0)
        /\ val = [sem |-> val.sem, v |-> val.v, type |-> val.type, whole |-> val.whole,
                  split |-> val.split]
    BY ValParts
  <1>2. INC(val) = [sem |-> sem, v |-> v, type |-> <<>>, whole |-> 0, split |-> 0]
    <2>1. val \in [{"sem", "v", "type", "whole", "split"} -> {val[f] : f \in DOMAIN val}]
          /\ DOMAIN val = {"sem", "v", "type", "whole", "split"}
      BY <1>1
    <2>2. INC(val) = [val EXCEPT !.sem = sem, !.type = <<>>, !.whole = 0, !.split = 0, !.v = v]
      BY <2>1 DEF INC
    <2> HIDE DEF sem, v
    <2>3. QED
      BY <1>1, <2>2
  <1>3. v \in Shorts
    <2> DEFINE n == val.v + 1
    <2>1. n \in Int
      BY <1>1 DEF Shorts
    <2> HIDE DEF n
    <2>2. n % Short \in Shorts
      BY <2>1, Wraps
    <2>3. QED
      BY <1>1, <2>2 DEF n
  <1>4. sem \subseteq Semantics /\ sem \intersect {"hi", "lo"} = {} /\ ("const" \in sem \/ v = 0)
        /\ <<>> \in Names /\ 0 \in 0 .. k /\ 0 \in Nat
    BY <1>1 DEF Names
  <1> HIDE DEF sem, v
  <1>5. QED
    BY <1>2, <1>3, <1>4, ValMade

LEMMA BinOpType ==
  ASSUME NEW k \in Nat, NEW a \in Vals(k), NEW b \in Vals(k), NEW op \in Opcodes,
         op.base \in Arithmetic \union {"SFT"}
  PROVE  BinOp(op, a, b) \in Vals(k)
  <1> DEFINE const == "const" \in a.sem \intersect b.sem
             v == IF op.base = "SFT" THEN Shift(a.v, b.v % Byte)
                  ELSE Compute(op.base, a.v, b.v) % Short
             points == op.base \in {"ADD", "SUB"} /\ "address" \in a.sem \union b.sem
             sem == Sized(Width(op)) \union (IF const THEN {"const"} ELSE {})
                      \union (IF points THEN {"address"} ELSE {})
             w == IF const THEN v ELSE 0
  <1>1. BinOp(op, a, b) = Val(sem, w)
    BY DEF BinOp
  <1>2. a.v \in Shorts /\ b.v \in Shorts
    BY ValParts
  <1>3. v \in Shorts
    <2> DEFINE av == a.v
               bv == b.v
    <2>1. av \in Shorts /\ bv \in Shorts /\ bv \in Int
      BY <1>2 DEF Shorts
    <2> HIDE DEF av, bv
    <2>2. CASE op.base = "SFT"
      <3>1. Shift(av, bv % Byte) \in Shorts
        BY <2>1, Wraps, ShiftType
      <3>2. QED
        BY <2>2, <3>1 DEF av, bv
    <2>3. CASE op.base # "SFT"
      <3> DEFINE n == Compute(op.base, av, bv)
      <3>1. n \in Int
        BY <2>1, <2>3, ComputeType
      <3> HIDE DEF n
      <3>2. n % Short \in Shorts
        BY <3>1, Wraps
      <3>3. QED
        BY <2>3, <3>2 DEF n, av, bv
    <2>4. QED
      BY <2>2, <2>3
  <1>4. sem \subseteq Semantics \ {"hi", "lo"} /\ ("const" \in sem \/ w = 0) /\ w \in Shorts
    <2> HIDE DEF v
    <2>1. Sized(Width(op)) \subseteq {"short"}
      BY DEF Sized
    <2>2. QED
      BY <1>3, <2>1, Numbers DEF Semantics
  <1> HIDE DEF sem, w
  <1>5. QED
    BY <1>1, <1>4, ValType

LEMMA TruthType ==
  ASSUME NEW k \in Nat, NEW holds
  PROVE  Truth(holds) \in Vals(k)
  <1> DEFINE v == IF holds THEN 1 ELSE 0
  <1>1. v \in Shorts /\ {"const", "forked"} \subseteq Semantics \ {"hi", "lo"}
    BY Numbers DEF Semantics
  <1> HIDE DEF v
  <1>2. Val({"const", "forked"}, v) \in Vals(k)
    BY <1>1, ValType
  <1>3. QED
    BY <1>2 DEF Truth, v

LEMMA BooleanOpGood ==
  ASSUME NEW m, Good(m), NEW op \in Opcodes, NEW a, NEW b
  PROVE  Good(BooleanOp(m, op, a, b))
  <1> DEFINE s == Append(m.st[On(op)], Truth(FALSE))
             st == [m.st EXCEPT ![On(op)] = s]
             x == Forked(m, st)
  <1>1. On(op) \in Stacks /\ K(m) \in Nat /\ m.st[On(op)] \in Seq(Vals(K(m)))
    BY OpTypes, GoodParts
  <1>2. m.st \in StacksOf(K(m))
    BY DEF Good
  <1>3. s \in Seq(Vals(K(m)))
    <2> DEFINE old == m.st[On(op)]
               new == Truth(FALSE)
    <2>1. new \in Vals(K(m)) /\ old \in Seq(Vals(K(m)))
      BY <1>1, TruthType
    <2> HIDE DEF old, new
    <2>2. Append(old, new) \in Seq(Vals(K(m)))
      BY <2>1
    <2>3. QED
      BY <2>2 DEF old, new
  <1> HIDE DEF s
  <1>4. st \in StacksOf(K(m))
    <2>1. K(m) <= K(m)
      BY <1>1
    <2>2. QED
      BY <1>1, <1>2, <1>3, <2>1, StackChanged
  <1> HIDE DEF st
  <1>5. Good(x) /\ K(x) = K(m)
    BY <1>4, ForkedGood DEF K
  <1> HIDE DEF x
  <1>6. Good(Push(x, On(op), Truth(TRUE)))
    BY <1>1, <1>5, TruthType, PushGood
  <1>7. Good(Push(m, On(op), Truth(Holds(op.base, a.v, b.v))))
    BY <1>1, TruthType, PushGood
  <1>8. QED
    BY <1>6, <1>7 DEF BooleanOp, x, st, s

\* What is known of a value that is loaded is at most that it is a routine.
LEMMA LoadedTypes ==
  ASSUME NEW k \in Nat, NEW m, NEW a, NEW w
  PROVE  /\ Val(Sized(w), 0) \in Vals(k)
         /\ Val(Labelled(m, a) \union Sized(w), 0) \in Vals(k)
         /\ Val(Sized(w) \union Labelled(m, a), 0) \in Vals(k)
         /\ Val(Sized(w) \union {}, 0) \in Vals(k)
  <1>1. /\ Sized(w) \subseteq Semantics \ {"hi", "lo"}
        /\ Labelled(m, a) \subseteq Semantics \ {"hi", "lo"} /\ 0 \in Shorts
    BY Numbers DEF Sized, Labelled, Semantics
  <1> DEFINE V(sem) == Val(sem, 0)
  <1>2. ASSUME NEW sem, sem \subseteq Semantics \ {"hi", "lo"}
        PROVE  V(sem) \in Vals(k)
    BY <1>1, <1>2, ValType
  <1>3. QED
    <2> HIDE DEF V
    <2>1. /\ Labelled(m, a) \union Sized(w) \subseteq Semantics \ {"hi", "lo"}
          /\ Sized(w) \union Labelled(m, a) \subseteq Semantics \ {"hi", "lo"}
          /\ Sized(w) \union {} \subseteq Semantics \ {"hi", "lo"}
      BY <1>1
    <2>2. /\ V(Sized(w)) \in Vals(k) /\ V(Labelled(m, a) \union Sized(w)) \in Vals(k)
          /\ V(Sized(w) \union Labelled(m, a)) \in Vals(k) /\ V(Sized(w) \union {}) \in Vals(k)
      BY <1>1, <1>2, <2>1
    <2>3. QED
      BY <2>2 DEF V

LEMMA LoadedType ==
  ASSUME NEW k \in Nat, NEW m, NEW op, NEW addr
  PROVE  Loaded(m, op, addr) \in Vals(k)
  <1> DEFINE target == IF op.base = "LDR" THEN Rel(m.pc, addr.v % Byte) ELSE addr.v
  <1>1. \/ Loaded(m, op, addr) = Val(Sized(Width(op)) \union Labelled(m, target), 0)
        \/ Loaded(m, op, addr) = Val(Sized(Width(op)) \union {}, 0)
    BY DEF Loaded
  <1> HIDE DEF target
  <1>2. QED
    BY <1>1, LoadedTypes

\* What is known of the bytes of the program: which belong to symbols.
IsRom ==
  /\ DOMAIN rom = DOMAIN symbols
  /\ \A a \in DOMAIN symbols :
       /\ symbols[a].name \in Names
       /\ IF symbols[a].t = "opcode" THEN rom[a] \in Opcodes ELSE rom[a] \in Bits

LEMMA RomType ==
  ASSUME IsRom, NEW addr
  PROVE  RomAt(addr) \in Bits /\ SymbolAt(addr).name \in Names
  <1>1. CASE addr \in DOMAIN symbols
    <2>1. symbols[addr].name \in Names /\ addr \in DOMAIN rom
      BY <1>1 DEF IsRom
    <2>2. CASE symbols[addr].t = "opcode"
      <3>1. Encoded(rom[addr]) \in Bits
        BY <1>1, <2>2, EncodedAssumption DEF IsRom, Bits
      <3>2. QED
        BY <1>1, <2>1, <2>2, <3>1 DEF RomAt, SymbolAt
    <2>3. CASE symbols[addr].t # "opcode"
      BY <1>1, <2>1, <2>3 DEF RomAt, SymbolAt, IsRom
    <2>4. QED
      BY <2>2, <2>3
  <1>2. CASE addr \notin DOMAIN symbols
    <2>1. addr \notin DOMAIN rom /\ <<>> \in Names
      BY <1>2 DEF IsRom, Names
    <2>2. QED
      BY <1>2, <2>1, Numbers DEF RomAt, SymbolAt, NoSymbol
  <1>3. QED
    BY <1>1, <1>2

LEMMA LitByteType ==
  ASSUME IsRom, NEW k \in Nat, NEW addr
  PROVE  LitByte(addr) \in Vals(k)
  <1> DEFINE v == RomAt(addr)
             name == SymbolAt(addr).name
             sem == {"address", "const", "nominal"}
  <1>1. v \in Shorts /\ name \in Names
    BY RomType, Numbers
  <1>2. \/ LitByte(addr) = Val({}, 0)
        \/ LitByte(addr) = [Val(sem, v) EXCEPT !.type = name]
        \/ LitByte(addr) = Val({"const"}, v)
    BY DEF LitByte
  <1> HIDE DEF v, name
  <1>3. /\ {} \subseteq Semantics \ {"hi", "lo"} /\ {"const"} \subseteq Semantics \ {"hi", "lo"}
        /\ sem \subseteq Semantics /\ sem \intersect {"hi", "lo"} = {} /\ "const" \in sem
        /\ 0 \in Shorts /\ 0 \in 0 .. k /\ 0 \in Nat
    BY Numbers DEF Semantics
  <1>4. Val({}, 0) \in Vals(k) /\ Val({"const"}, v) \in Vals(k)
    <2>1. Val({}, 0) \in Vals(k)
      BY <1>3, ValType
    <2>2. Val({"const"}, v) \in Vals(k)
      BY <1>1, <1>3, ValType
    <2>3. QED
      BY <2>1, <2>2
  <1> HIDE DEF sem
  <1>5. [Val(sem, v) EXCEPT !.type = name]
          = [sem |-> sem, v |-> v, type |-> name, whole |-> 0, split |-> 0]
    BY DEF Val
  <1>6. [sem |-> sem, v |-> v, type |-> name, whole |-> 0, split |-> 0] \in Vals(k)
    BY <1>1, <1>3, ValMade
  <1>7. QED
    BY <1>2, <1>4, <1>5, <1>6

LEMMA LitValuesType ==
  ASSUME IsRom, NEW k \in Nat, NEW m, NEW w
  PROVE  LitValues(m, w) \in Seq(Vals(k))
  <1> DEFINE hi == m.pc
             lo == (m.pc + 1) % Short
             isDoor(addr) == addr \in DOMAIN m.infos
             byte(addr) == IF isDoor(addr) THEN Door(m, addr, 1) ELSE LitByte(addr)
             known == SymbolAt(hi) # NoSymbol
             sem == {"short"} \union (IF known THEN {"const"} ELSE {})
                      \union (IF SymbolAt(hi).t = "ref" THEN {"address"} ELSE {})
             v == IF known THEN RomAt(hi) * Byte + RomAt(lo) ELSE 0
  <1>1. \/ LitValues(m, w) = <<byte(hi)>>
        \/ LitValues(m, w) = <<Door(m, hi, 2)>>
        \/ LitValues(m, w) = <<byte(hi), byte(lo)>>
        \/ LitValues(m, w) = <<LitByte(hi), LitByte(lo)>>
        \/ LitValues(m, w) = <<Val(sem, v)>>
    BY DEF LitValues
  <1>2. Door(m, hi, 2) \in Vals(k)
    BY LoadedTypes DEF Door
  <1>3. ASSUME NEW a
        PROVE  byte(a) \in Vals(k) /\ LitByte(a) \in Vals(k)
    <2>1. Door(m, a, 1) \in Vals(k)
      BY LoadedTypes DEF Door
    <2>2. LitByte(a) \in Vals(k)
      BY LitByteType
    <2>3. QED
      BY <2>1, <2>2
  <1>4. v \in Shorts
    <2> DEFINE h == RomAt(hi)
               l == RomAt(lo)
    <2>1. h \in 0 .. Byte - 1 /\ l \in 0 .. Byte - 1
      BY RomType DEF Bits
    <2> HIDE DEF h, l
    <2>2. h * Byte + l \in 0 .. Byte * Byte - 1
      BY <2>1, ByteType, TwoDigits
    <2>3. h * Byte + l \in Shorts
      BY <2>2 DEF Shorts, Short
    <2>4. QED
      BY <2>3, Numbers DEF h, l
  <1>5. sem \subseteq Semantics \ {"hi", "lo"} /\ ("const" \in sem \/ v = 0)
    BY DEF Semantics
  <1> HIDE DEF sem, v, byte, hi, lo
  <1>6. Val(sem, v) \in Vals(k)
    BY <1>4, <1>5, ValType
  <1>7. /\ byte(hi) \in Vals(k) /\ byte(lo) \in Vals(k)
        /\ LitByte(hi) \in Vals(k) /\ LitByte(lo) \in Vals(k)
    BY <1>3
  <1> DEFINE V == Vals(k)
  <1>8. \A a, b \in V : <<a>> \in Seq(V) /\ <<a, b>> \in Seq(V)
    <2> HIDE DEF V
    <2> QED
      OBVIOUS
  <1>9. QED
    BY <1>1, <1>2, <1>6, <1>7, <1>8

LEMMA LITGood ==
  ASSUME IsRom, NEW m, Good(m), NEW op \in Opcodes
  PROVE  Good(LIT(m, op))
  <1> DEFINE pc == (m.pc + Width(op)) % Short
             x == [m EXCEPT !.pc = pc]
             vals == LitValues(m, Width(op))
  <1>1. LIT(m, op) = PushAll(x, On(op), vals)
    BY DEF LIT, Good, Fields
  <1>2. pc \in Shorts
    <2> DEFINE n == m.pc + Width(op)
    <2>1. n \in Int
      BY OpTypes DEF Good, Widths, Shorts
    <2> HIDE DEF n
    <2>2. n % Short \in Shorts
      BY <2>1, Wraps
    <2>3. QED
      BY <2>2 DEF n
  <1> HIDE DEF pc
  <1>3. Good(x) /\ K(x) = K(m)
    BY <1>2, PcGood DEF K
  <1> HIDE DEF x
  <1>4. vals \in Seq(Vals(K(x)))
    BY <1>3, GoodParts, LitValuesType
  <1> HIDE DEF vals
  <1>5. On(op) \in Stacks
    BY OpTypes
  <1>6. QED
    BY <1>1, <1>3, <1>4, <1>5, PushAllGood

LEMMA PopImmediateGood ==
  ASSUME IsRom, NEW m, Good(m)
  PROVE  LET x == PopImmediate(m)
         IN  Good(x) /\ Len(x.got) = Len(m.got) + 1
  <1> DEFINE lo == (m.pc + 1) % Short
             next == (m.pc + 2) % Short
             sound == SymbolAt(m.pc).t = "ref" /\ SymbolAt(m.pc) = SymbolAt(lo)
             y == [m EXCEPT !.pc = next]
             z == FailIf(y, ~sound)
             v == (next + RomAt(m.pc) * Byte + RomAt(lo)) % Short
             to == IF sound THEN Val({"short", "address", "const"}, v) ELSE ValueError
  <1>1. PopImmediate(m) = Got(z, to)
    BY DEF PopImmediate
  <1>2. next \in Shorts
    <2> DEFINE n == m.pc + 2
    <2>1. n \in Int
      BY DEF Good, Shorts
    <2> HIDE DEF n
    <2>2. n % Short \in Shorts
      BY <2>1, Wraps
    <2>3. QED
      BY <2>2 DEF n
  <1>3. v \in Shorts
    <2> DEFINE h == RomAt(m.pc)
               l == RomAt(lo)
               n == next + h * Byte + l
    <2>1. h \in Int /\ l \in Int
      <3>1. h \in Bits /\ l \in Bits
        BY RomType
      <3> HIDE DEF h, l
      <3>2. QED
        BY <3>1 DEF Bits
    <2> HIDE DEF h, l, next
    <2>2. n \in Int
      BY <1>2, <2>1, ByteType DEF Shorts
    <2> HIDE DEF n
    <2>3. n % Short \in Shorts
      BY <2>2, Wraps
    <2>4. QED
      BY <2>3 DEF n, h, l
  <1> HIDE DEF v, next, sound
  <1>4. Good(y) /\ y.nodes = m.nodes
    BY <1>2, PcGood
  <1>5. y.got = m.got
    BY DEF Good, Fields
  <1> HIDE DEF y
  <1>6. Good(z) /\ z.nodes = y.nodes /\ z.got = y.got
    BY <1>4, FailGood DEF FailIf
  <1> HIDE DEF z
  <1>7. to \in Vals(K(z))
    <2>1. K(z) \in Nat
      BY <1>6, GoodParts
    <2>2. {"short", "address", "const"} \subseteq Semantics \ {"hi", "lo"}
      BY DEF Semantics
    <2>3. QED
      BY <1>3, <2>1, <2>2, ValType, ErrorType
  <1> HIDE DEF to
  <1>8. QED
    BY <1>1, <1>5, <1>6, <1>7, GotGood

-----------------------------------------------------------------------------
(***************************************************************************)
(* An instruction, and what its results are cast to.                       *)
(***************************************************************************)
Immediate == {"JCI", "JMI", "JSI"}

\* How many operands there are.
Arity(op) == Len(Operands(op)) + (IF op.base \in Immediate THEN 1 ELSE 0)

LEMMA OperandsType ==
  ASSUME NEW op \in Opcodes
  PROVE  Operands(op) \in Seq(Widths)
  <1> DEFINE w == Width(op)
             V == Widths
  <1>1. w \in V /\ 1 \in V /\ 2 \in V
    BY OpTypes DEF Widths
  <1>2. \/ Operands(op) = <<w>> \/ Operands(op) = <<1>> \/ Operands(op) = <<w, w, w>>
        \/ Operands(op) = <<w, 1>> \/ Operands(op) = <<1, w>> \/ Operands(op) = <<2>>
        \/ Operands(op) = <<2, w>> \/ Operands(op) = <<>> \/ Operands(op) = <<w, w>>
    BY DEF Operands
  <1> HIDE DEF w, V
  <1>3. /\ <<w>> \in Seq(V) /\ <<1>> \in Seq(V) /\ <<w, w, w>> \in Seq(V)
        /\ <<w, 1>> \in Seq(V) /\ <<1, w>> \in Seq(V) /\ <<2>> \in Seq(V)
        /\ <<2, w>> \in Seq(V) /\ <<>> \in Seq(V) /\ <<w, w>> \in Seq(V)
    BY <1>1
  <1>4. QED
    BY <1>2, <1>3 DEF V

LEMMA PopOperandsGood ==
  ASSUME IsRom, NEW m, Good(m), m.got = <<>>, NEW op \in Opcodes
  PROVE  LET x == PopOperands(m, op) IN Good(x) /\ Len(x.got) = Arity(op)
  <1> DEFINE y == IF op.base \in Immediate THEN PopImmediate(m) ELSE m
             n == IF op.base \in Immediate THEN 1 ELSE 0
             x == Popped(y, On(op), Operands(op))
  <1>1. PopOperands(m, op) = x
    BY DEF PopOperands, Immediate
  <1>2. Good(y) /\ Len(y.got) = n
    <2> DEFINE z == PopImmediate(m)
    <2>1. Len(m.got) = 0
      OBVIOUS
    <2>2. Good(z) /\ Len(z.got) = 1
      <3>1. Good(z) /\ Len(z.got) = Len(m.got) + 1
        BY PopImmediateGood
      <3> HIDE DEF z
      <3>2. QED
        BY <2>1, <3>1
    <2> HIDE DEF z
    <2>3. CASE op.base \in Immediate
      <3>1. y = z /\ n = 1
        BY <2>3 DEF z
      <3>2. QED
        BY <2>2, <3>1
    <2>4. CASE op.base \notin Immediate
      <3>1. y = m /\ n = 0
        BY <2>4
      <3>2. QED
        BY <2>1, <3>1
    <2>5. QED
      BY <2>3, <2>4
  <1>3. Len(Operands(op)) \in Nat /\ n \in Nat
    BY OperandsType
  <1> HIDE DEF y
  <1>4. Good(x) /\ Len(x.got) = Len(y.got) + Len(Operands(op))
    BY <1>2, OpTypes, OperandsType, PoppedGood
  <1> HIDE DEF x
  <1>5. Len(x.got) = Len(Operands(op)) + n
    BY <1>2, <1>3, <1>4
  <1>6. QED
    BY <1>1, <1>4, <1>5 DEF Arity

\* What is pushed is what was got, of as many as there are.
LEMMA ShuffledGood ==
  ASSUME NEW x, Good(x), NEW op \in Opcodes, op.base \in Shuffles \ {"INC"},
         Len(x.got) = Arity(op)
  PROVE  Good(PushAll(x, On(op), [i \in DOMAIN Shuffled(op.base) |-> x.got[Shuffled(op.base)[i]]]))
  <1> DEFINE s == Shuffled(op.base)
             vals == [i \in DOMAIN s |-> x.got[s[i]]]
             V == Vals(K(x))
  <1>1. x.got \in Seq(V)
    BY DEF Good
  <1>2. op.base \in {"POP", "NIP", "SWP", "ROT", "DUP", "OVR"} /\ op.base \notin Immediate
    BY DEF Shuffles, Immediate
  <1>3. s \in Seq(1 .. Len(x.got))
    <2> DEFINE w == Width(op)
    <2>1. CASE op.base \in {"POP", "DUP"}
      <3>1. Operands(op) = <<w>> /\ (s = <<>> \/ s = <<1, 1>>)
        BY <1>2, <2>1 DEF Operands, Shuffled
      <3>2. Len(x.got) = 1
        <4> HIDE DEF w
        <4> QED
          BY <1>2, <3>1 DEF Arity
      <3>3. <<>> \in Seq(1 .. 1) /\ <<1, 1>> \in Seq(1 .. 1)
        OBVIOUS
      <3>4. QED
        BY <3>1, <3>2, <3>3
    <2>2. CASE op.base \in {"NIP", "SWP", "OVR"}
      <3>1. Operands(op) = <<w, w>> /\ (s = <<1>> \/ s = <<1, 2>> \/ s = <<2, 1, 2>>)
        BY <1>2, <2>2 DEF Operands, Shuffled
      <3>2. Len(x.got) = 2
        <4> HIDE DEF w
        <4> QED
          BY <1>2, <3>1 DEF Arity
      <3>3. <<1>> \in Seq(1 .. 2) /\ <<1, 2>> \in Seq(1 .. 2) /\ <<2, 1, 2>> \in Seq(1 .. 2)
        OBVIOUS
      <3>4. QED
        BY <3>1, <3>2, <3>3
    <2>3. CASE op.base = "ROT"
      <3>1. Operands(op) = <<w, w, w>> /\ s = <<2, 1, 3>>
        BY <1>2, <2>3 DEF Operands, Shuffled
      <3>2. Len(x.got) = 3
        <4> HIDE DEF w
        <4> QED
          BY <1>2, <3>1 DEF Arity
      <3>3. <<2, 1, 3>> \in Seq(1 .. 3)
        OBVIOUS
      <3>4. QED
        BY <3>1, <3>2, <3>3
    <2>4. QED
      BY <1>2, <2>1, <2>2, <2>3
  <1> HIDE DEF s
  <1>4. vals \in Seq(V)
    <2>1. DOMAIN s = 1 .. Len(s) /\ Len(s) \in Nat /\ \A i \in 1 .. Len(s) : s[i] \in 1 .. Len(x.got)
      BY <1>3
    <2>2. \A i \in 1 .. Len(s) : x.got[s[i]] \in V
      <3> HIDE DEF V
      <3> QED
        BY <1>1, <2>1
    <2>3. vals \in [1 .. Len(s) -> V]
      BY <2>1, <2>2
    <2>4. QED
      BY <2>1, <2>3
  <1>5. On(op) \in Stacks
    BY OpTypes
  <1>6. Good(PushAll(x, On(op), vals))
    <2> HIDE DEF vals
    <2> QED
      BY <1>4, <1>5, PushAllGood
  <1>7. QED
    BY <1>6 DEF s

\* The bases, by how many operands they have.
LEMMA Arities ==
  ASSUME NEW op \in Opcodes
  PROVE  /\ op.base \in {"INC", "JMP", "JSR", "STH", "LDZ", "LDR", "LDA", "DEI", "JMI", "JSI"}
              => Arity(op) >= 1
         /\ op.base \in Comparisons \union Arithmetic \union {"SFT", "JCN", "JCI"} => Arity(op) >= 2
  <1> DEFINE w == Width(op)
  <1>1. /\ Len(<<w>>) = 1 /\ Len(<<1>>) = 1 /\ Len(<<2>>) = 1 /\ Len(<<>>) = 0
        /\ Len(<<w, w>>) = 2 /\ Len(<<w, 1>>) = 2 /\ Len(<<1, w>>) = 2
    OBVIOUS
  <1>2. op.base \in {"INC", "JMP", "JSR", "STH"} => Operands(op) = <<w>> /\ op.base \notin Immediate
    BY DEF Operands, Immediate
  <1>3. op.base \in {"LDZ", "LDR", "DEI"} => Operands(op) = <<1>> /\ op.base \notin Immediate
    BY DEF Operands, Immediate
  <1>4. op.base = "LDA" => Operands(op) = <<2>> /\ op.base \notin Immediate
    BY DEF Operands, Immediate
  <1>5. op.base \in {"JMI", "JSI"} => Operands(op) = <<>> /\ op.base \in Immediate
    BY DEF Operands, Immediate
  <1>6. op.base = "JCI" => Operands(op) = <<1>> /\ op.base \in Immediate
    BY DEF Operands, Immediate
  <1>7. op.base = "JCN" => Operands(op) = <<w, 1>> /\ op.base \notin Immediate
    BY DEF Operands, Immediate
  <1>8. op.base = "SFT" => Operands(op) = <<1, w>> /\ op.base \notin Immediate
    BY DEF Operands, Immediate
  <1>9. op.base \in Comparisons \union Arithmetic
          => Operands(op) = <<w, w>> /\ op.base \notin Immediate
    BY DEF Operands, Immediate, Comparisons, Arithmetic
  <1> HIDE DEF w
  <1>10. QED
    BY <1>1, <1>2, <1>3, <1>4, <1>5, <1>6, <1>7, <1>8, <1>9 DEF Arity

LEMMA ExecutedGood ==
  ASSUME IsRom, NEW x, Good(x), NEW op \in Opcodes, Len(x.got) = Arity(op)
  PROVE  Good(Executed(x, op))
  <1> DEFINE top == x.got[1]
             next == x.got[2]
             y == Executed(x, op)
             One == {"INC", "JMP", "JSR", "STH", "LDZ", "LDR", "LDA", "DEI", "JMI", "JSI"}
             Two == Comparisons \union Arithmetic \union {"SFT", "JCN", "JCI"}
  <1>1. x.got \in Seq(Vals(K(x))) /\ K(x) \in Nat
    BY GoodParts DEF Good
  <1>2. /\ op.base \in One \union Two => top \in Vals(K(x))
        /\ op.base \in Two => next \in Vals(K(x))
    <2>1. Len(x.got) \in Nat /\ (op.base \in One => Len(x.got) >= 1)
          /\ (op.base \in Two => Len(x.got) >= 2)
      <3> HIDE DEF One, Two
      <3>1. Len(x.got) \in Nat
        BY <1>1
      <3>2. (op.base \in One => Arity(op) >= 1) /\ (op.base \in Two => Arity(op) >= 2)
        BY Arities DEF One, Two
      <3>3. QED
        BY <3>1, <3>2
    <2> HIDE DEF One, Two
    <2>2. /\ op.base \in One \union Two => 1 \in 1 .. Len(x.got)
          /\ op.base \in Two => 2 \in 1 .. Len(x.got)
      BY <2>1
    <2>3. QED
      BY <1>1, <2>2
  <1> HIDE DEF top, next
  <1>3. On(op) \in Stacks /\ Off(op) \in Stacks
    BY OpTypes
  <1>4. CASE op.base = "BRK"
    <2>1. y = BRK(x)
      BY <1>4 DEF Executed, Shuffles, Comparisons, Arithmetic
    <2>2. QED
      BY <2>1, BRKGood
  <1>5. CASE op.base = "INC"
    <2>1. y = Push(x, On(op), INC(top))
      BY <1>5 DEF Executed, Shuffles, Comparisons, Arithmetic, top
    <2>2. INC(top) \in Vals(K(x))
      BY <1>1, <1>2, <1>5, IncType
    <2>3. QED
      BY <1>3, <2>1, <2>2, PushGood
  <1>6. CASE op.base \in Shuffles \ {"INC"}
    <2>1. y = PushAll(x, On(op), [i \in DOMAIN Shuffled(op.base) |-> x.got[Shuffled(op.base)[i]]])
      BY <1>6 DEF Executed, Shuffles, Comparisons, Arithmetic
    <2>2. QED
      BY <1>6, <2>1, ShuffledGood
  <1>7. CASE op.base \in Comparisons
    <2>1. y = BooleanOp(x, op, next, top)
      BY <1>7 DEF Executed, Shuffles, Comparisons, Arithmetic, top, next
    <2>2. QED
      BY <2>1, BooleanOpGood
  <1>8. CASE op.base \in Arithmetic \union {"SFT"}
    <2>1. y = Push(x, On(op), BinOp(op, next, top))
      BY <1>8 DEF Executed, Shuffles, Comparisons, Arithmetic, top, next
    <2>2. BinOp(op, next, top) \in Vals(K(x))
      BY <1>1, <1>2, <1>8, BinOpType
    <2>3. QED
      BY <1>3, <2>1, <2>2, PushGood
  <1>9. CASE op.base \in {"JMP", "JMI"}
    <2>1. y = Jump(x, top)
      BY <1>9 DEF Executed, Shuffles, Comparisons, Arithmetic, top
    <2>2. QED
      BY <1>2, <1>9, <2>1, JumpGood
  <1>10. CASE op.base \in {"JCN", "JCI"}
    <2>1. y = JumpConditional(x, next, top)
      BY <1>10 DEF Executed, Shuffles, Comparisons, Arithmetic, top, next
    <2>2. QED
      BY <1>2, <1>10, <2>1, JumpConditionalGood
  <1>12. CASE op.base \in {"JSR", "JSI"}
    <2>1. y = JumpStash(x, Off(op), top)
      BY <1>12 DEF Executed, Shuffles, Comparisons, Arithmetic, top
    <2>2. QED
      BY <1>2, <1>3, <1>12, <2>1, JumpStashGood
  <1>13. CASE op.base = "STH"
    <2>1. y = Push(x, Off(op), top)
      BY <1>13 DEF Executed, Shuffles, Comparisons, Arithmetic, top
    <2>2. QED
      BY <1>2, <1>3, <1>13, <2>1, PushGood
  <1>14. CASE op.base \in {"LDZ", "LDR", "LDA"}
    <2>1. y = Push(x, On(op), Loaded(x, op, top))
      BY <1>14 DEF Executed, Shuffles, Comparisons, Arithmetic, top
    <2>2. Loaded(x, op, top) \in Vals(K(x))
      BY <1>1, LoadedType
    <2>3. QED
      BY <1>3, <2>1, <2>2, PushGood
  <1>15. CASE op.base = "DEI"
    <2>1. y = Push(x, On(op), Val(Sized(Width(op)), 0))
      BY <1>15 DEF Executed, Shuffles, Comparisons, Arithmetic, DEI
    <2>2. Val(Sized(Width(op)), 0) \in Vals(K(x))
      BY <1>1, LoadedTypes
    <2>3. QED
      BY <1>3, <2>1, <2>2, PushGood
  <1>16. CASE op.base \in {"STZ", "STR", "STA", "DEO"}
    BY <1>16 DEF Executed, Shuffles, Comparisons, Arithmetic
  <1>17. CASE op.base = "LIT"
    <2>1. y = LIT(x, op)
      BY <1>17 DEF Executed, Shuffles, Comparisons, Arithmetic
    <2>2. QED
      BY <2>1, LITGood
  <1>18. op.base \in Poly \union {"LIT", "BRK", "JCI", "JMI", "JSI"}
    BY OpTypes
  <1>19. QED
    <2> HIDE DEF y
    <2> QED
      BY <1>4, <1>5, <1>6, <1>7, <1>8, <1>9, <1>10, <1>12, <1>13, <1>14, <1>15, <1>16,
         <1>17, <1>18 DEF Poly, y

\* A cast keeps the value and the node of what is cast.
LEMMA RecastType ==
  ASSUME NEW k \in Nat, NEW input \in Vals(k), NEW output \in Plain
  PROVE  Recast(input, output) \in Vals(k)
  <1> DEFINE sem == output.sem \union (input.sem \intersect {"const", "forked", "hi", "lo"})
  <1>1. output \in Vals(0) /\ output.sem \subseteq {"short", "address", "nominal"} /\ 0 \in Nat
    BY DEF Plain
  <1>2. /\ output.type \in Names /\ output.sem \subseteq Semantics
        /\ output = [sem |-> output.sem, v |-> output.v, type |-> output.type,
                     whole |-> output.whole, split |-> output.split]
    BY <1>1, ValParts
  <1>3. /\ input.sem \subseteq Semantics /\ input.v \in Shorts /\ input.whole \in 0 .. k
        /\ input.split \in Nat /\ ("const" \in input.sem \/ input.v = 0)
        /\ IF input.sem \intersect {"hi", "lo"} # {} THEN input.whole # 0 ELSE input.whole = 0
    BY ValParts
  <1>4. Recast(input, output) = [sem |-> sem, v |-> input.v, type |-> output.type,
                                 whole |-> input.whole, split |-> input.split]
    <2>1. DOMAIN output = {"sem", "v", "type", "whole", "split"}
      BY <1>2
    <2>2. Recast(input, output) = [output EXCEPT !.sem = sem, !.v = input.v,
                                                 !.whole = input.whole, !.split = input.split]
      BY <2>1 DEF Recast
    <2> HIDE DEF sem
    <2>3. QED
      BY <1>2, <2>2
  <1>5. /\ sem \subseteq Semantics /\ ("const" \in sem \/ input.v = 0)
        /\ sem \intersect {"hi", "lo"} = input.sem \intersect {"hi", "lo"}
    BY <1>1, <1>2, <1>3
  <1> HIDE DEF sem
  <1>6. QED
    BY <1>2, <1>3, <1>4, <1>5, ValMade

LEMMA ApplyCastGood ==
  ASSUME NEW m, Good(m), NEW side \in Stacks, NEW cast \in Seq(Plain)
  PROVE  Good(ApplyCast(m, side, cast))
  <1> DEFINE x == PopCast(m, side, cast)
             V == Vals(K(x))
             add == [i \in DOMAIN cast |-> Recast(x.got[Len(cast) + 1 - i], cast[i])]
             s == x.st[side] \o add
             y == [x EXCEPT !.st[side] = s]
  <1>1. Good(x) /\ Len(x.got) = Len(cast)
    BY PopCastGood
  <1>2. ApplyCast(m, side, cast) = Fail(m) \/ ApplyCast(m, side, cast) = y
    BY DEF ApplyCast, Good, Fields
  <1> HIDE DEF x
  <1>3. x.got \in Seq(V) /\ x.st[side] \in Seq(V) /\ K(x) \in Nat
    BY <1>1, GoodParts DEF Good
  <1>4. add \in Seq(V)
    <2>1. DOMAIN cast = 1 .. Len(cast) /\ Len(cast) \in Nat /\ \A i \in 1 .. Len(cast) : cast[i] \in Plain
      OBVIOUS
    <2>2. \A i \in 1 .. Len(cast) : Len(cast) + 1 - i \in 1 .. Len(x.got)
      BY <1>1, <2>1
    <2>3. \A i \in 1 .. Len(cast) : x.got[Len(cast) + 1 - i] \in V
      <3> HIDE DEF V
      <3> QED
        BY <1>3, <2>2
    <2>4. \A i \in 1 .. Len(cast) : Recast(x.got[Len(cast) + 1 - i], cast[i]) \in V
      BY <1>3, <2>1, <2>3, RecastType
    <2>5. add \in [1 .. Len(cast) -> V]
      <3> HIDE DEF V
      <3> QED
        BY <2>1, <2>4
    <2>6. QED
      <3> HIDE DEF V, add
      <3> QED
        BY <2>1, <2>5
  <1>5. s \in Seq(V)
    <2> HIDE DEF V, add
    <2> QED
      BY <1>3, <1>4
  <1> HIDE DEF s, add
  <1>6. Good(y)
    BY <1>1, <1>5, StackGood
  <1>7. QED
    BY <1>2, <1>6, FailGood

LEMMA CastAtGood ==
  ASSUME NEW m, Good(m), NEW addr, casts \in [DOMAIN casts -> PlainStacks]
  PROVE  Good(CastAt(addr, m))
  <1>1. CASE addr \notin DOMAIN casts
    BY <1>1 DEF CastAt
  <1>2. CASE addr \in DOMAIN casts
    <2>1. /\ "ws" \in Stacks /\ "rs" \in Stacks
          /\ casts[addr]["ws"] \in Seq(Plain) /\ casts[addr]["rs"] \in Seq(Plain)
      BY <1>2 DEF PlainStacks, Stacks
    <2>2. Good(ApplyCast(m, "ws", casts[addr]["ws"]))
      BY <2>1, ApplyCastGood
    <2>3. QED
      BY <1>2, <2>1, <2>2, ApplyCastGood DEF CastAt
  <1>3. QED
    BY <1>1, <1>2

-----------------------------------------------------------------------------
(***************************************************************************)
(* Comments.                                                               *)
(***************************************************************************)
\* The comment being read, when its handler is one of some.
Annos(handlers) ==
  [handler : handlers, tokens : Seq(Tokens), place : {"in", "out"} \X Stacks, sealed : BOOLEAN,
   found : Sigs]

OfLabel == {"none", "signature", "signature2"}
OfOpcode == {"none", "cast", "cast2"}

\* The comment that is not there, and the signature.
LEMMA NothingTypes ==
  /\ NoSignature \in Sigs /\ NoInfo \in Info
  /\ \A hs : "none" \in hs => NoComment \in Annos(hs)
  <1>1. Empty \in PlainStacks
    BY DEF Empty, PlainStacks
  <1>2. NoSignature \in Sigs
    BY <1>1 DEF NoSignature, Sigs
  <1>3. NoInfo \in Info
    BY <1>2 DEF NoInfo, Info
  <1>4. ASSUME NEW hs, "none" \in hs
        PROVE  NoComment \in Annos(hs)
    <2>1. <<"in", "ws">> \in {"in", "out"} \X Stacks /\ <<>> \in Seq(Tokens)
      BY DEF Stacks
    <2>2. QED
      BY <1>2, <1>4, <2>1 DEF NoComment, Annos
  <1>5. QED
    BY <1>2, <1>3, <1>4

\* A token stands for a value of a signature.
LEMMA ParsedType ==
  ASSUME NEW tok \in Tokens
  PROVE  ParseValue(tok) \in Plain
  <1> DEFINE nominal == tok.upper /\ ~tok.address
             sem == (IF tok.short THEN {"short"} ELSE {})
                      \union (IF tok.address THEN {"address"} ELSE {})
                      \union (IF nominal THEN {"nominal"} ELSE {})
             type == IF nominal THEN tok.name ELSE <<>>
  <1>1. ParseValue(tok) = [Val(sem, 0) EXCEPT !.type = type]
    BY Zenon DEF ParseValue
  <1>2. /\ sem \subseteq Semantics /\ sem \subseteq {"short", "address", "nominal"}
        /\ sem \intersect {"hi", "lo"} = {}
    <2> HIDE DEF nominal
    <2> QED
      BY DEF Semantics
  <1>3. type \in Names
    <2>1. tok.name \in Names
      BY DEF Tokens
    <2>2. <<>> \in Names
      BY DEF Names
    <2>3. type = tok.name \/ type = <<>>
      BY Zenon
    <2> HIDE DEF type
    <2>4. QED
      BY <2>1, <2>2, <2>3
  <1> HIDE DEF sem, type
  <1> DEFINE val == [sem |-> sem, v |-> 0, type |-> type, whole |-> 0, split |-> 0]
  <1>4. ParseValue(tok) = val
    BY <1>1 DEF Val
  <1>5. val \in Vals(0)
    <2>1. 0 \in Nat /\ 0 \in Shorts /\ 0 \in 0 .. 0
      BY Numbers
    <2>2. QED
      BY <1>2, <1>3, <2>1, ValMade
  <1>6. val.sem = sem
    OBVIOUS
  <1> HIDE DEF val
  <1>7. QED
    BY <1>2, <1>4, <1>5, <1>6 DEF Plain

\* What changes a part of the comment.
LEMMA AnnoParts ==
  ASSUME NEW hs, NEW a \in Annos(hs)
  PROVE  /\ a.handler \in hs /\ a.tokens \in Seq(Tokens) /\ a.sealed \in BOOLEAN /\ a.found \in Sigs
         /\ a.place \in {"in", "out"} \X Stacks
         /\ a.place[1] \in {"in", "out"} /\ a.place[2] \in Stacks
         /\ a = [handler |-> a.handler, tokens |-> a.tokens, place |-> a.place,
                 sealed |-> a.sealed, found |-> a.found]
  BY DEF Annos

LEMMA KilledType ==
  ASSUME NEW hs, "none" \in hs, NEW a \in Annos(hs)
  PROVE  Killed(a) \in Annos(hs) /\ Sealed(a) \in Annos(hs) /\ Killed(a).handler = "none"
  BY DEF Annos, Killed, Sealed

LEMMA AddedType ==
  ASSUME NEW hs, "none" \in hs, NEW a \in Annos(hs), NEW tok \in Tokens
  PROVE  AddArgument(a, tok) \in Annos(hs)
  <1> DEFINE d == a.place[1]
             side == a.place[2]
             v == ParseValue(tok)
             s == Append(a.found[d][side], v)
             one == [a.found[d] EXCEPT ![side] = s]
             found == [a.found EXCEPT ![d] = one]
  <1>1. d \in {"in", "out"} /\ side \in Stacks /\ a.found \in Sigs /\ v \in Plain
    BY AnnoParts, ParsedType
  <1> HIDE DEF d, side, v
  <1>2. a.found[d] \in PlainStacks
    BY <1>1 DEF Sigs
  <1>3. a.found[d][side] \in Seq(Plain)
    BY <1>1, <1>2 DEF PlainStacks
  <1>4. s \in Seq(Plain)
    BY <1>1, <1>3
  <1> HIDE DEF s
  <1>5. one \in PlainStacks
    BY <1>1, <1>2, <1>4 DEF PlainStacks
  <1> HIDE DEF one
  <1>6. found \in Sigs
    BY <1>1, <1>5 DEF Sigs
  <1>7. AddArgument(a, tok) = Killed(a) \/ AddArgument(a, tok) = [a EXCEPT !.found = found]
    BY DEF AddArgument, one, s, d, side, v
  <1> HIDE DEF found
  <1>8. [a EXCEPT !.found = found] \in Annos(hs)
    BY <1>6 DEF Annos
  <1>9. QED
    BY <1>7, <1>8, KilledType

LEMMA ToReturnStackType ==
  ASSUME NEW hs, "none" \in hs, NEW a \in Annos(hs)
  PROVE  ToReturnStack(a) \in Annos(hs)
  <1> DEFINE place == [a.place EXCEPT ![2] = "rs"]
  <1>1. place \in {"in", "out"} \X Stacks
    BY AnnoParts DEF Stacks
  <1>2. ToReturnStack(a) = Killed(a) \/ ToReturnStack(a) = [a EXCEPT !.place = place]
    BY DEF ToReturnStack
  <1> HIDE DEF place
  <1>3. [a EXCEPT !.place = place] \in Annos(hs)
    BY <1>1 DEF Annos
  <1>4. QED
    BY <1>2, <1>3, KilledType

LEMMA Stage2Type ==
  ASSUME NEW hs, "none" \in hs, NEW a \in Annos(hs), NEW tok \in Tokens
  PROVE  Stage2(a, tok) \in Annos(hs)
  <1> DEFINE b == Sealed(a)
             type == IF tok.mark = "--" THEN "subroutine" ELSE "vector"
             found == [b.found EXCEPT !.type = type]
             x == [b EXCEPT !.place = <<"out", "ws">>, !.found = found]
             y == [b EXCEPT !.sealed = TRUE]
  <1>1. b \in Annos(hs)
    BY KilledType
  <1>2. Stage2(a, tok) \in {a, ToReturnStack(b), y, x, Killed(b), AddArgument(b, tok)}
    BY DEF Stage2, ParseSignature2, ParseCast2
  <1> HIDE DEF b
  <1>3. y \in Annos(hs)
    BY <1>1 DEF Annos
  <1>4. x \in Annos(hs)
    <2>1. found \in Sigs
      BY <1>1 DEF Annos, Sigs
    <2> HIDE DEF found
    <2>2. <<"out", "ws">> \in {"in", "out"} \X Stacks
      BY DEF Stacks
    <2>3. QED
      BY <1>1, <2>1, <2>2 DEF Annos
  <1> HIDE DEF x, y
  <1>5. ToReturnStack(b) \in Annos(hs) /\ Killed(b) \in Annos(hs) /\ AddArgument(b, tok) \in Annos(hs)
    BY <1>1, ToReturnStackType, KilledType, AddedType
  <1>6. QED
    BY <1>2, <1>3, <1>4, <1>5

\* What is replayed, and what it begins with.
Said(a, tok) == Append(a.tokens, tok)

Opened(a, stage2) ==
  [a EXCEPT !.handler = stage2, !.place = <<"in", "ws">>, !.sealed = FALSE,
            !.found = NoSignature]

\* The tokens are replayed one after the other.
LEMMA ReplayedExact ==
  ASSUME NEW a, NEW stage2, NEW tok, NEW S, a.tokens \in Seq(S), tok \in S
  PROVE  \E f : /\ f[0] = Opened(a, stage2)
                /\ \A i \in 1 .. Len(Said(a, tok)) : f[i] = Stage2(f[i - 1], Said(a, tok)[i])
                /\ Replayed(a, stage2, tok) = f[Len(Said(a, tok))]
  <1> DEFINE n == Len(Said(a, tok))
             first == Opened(a, stage2)
             step(x, i) == Stage2(x, Said(a, tok)[i])
             Is(f, k) == f = [i \in 0 .. k |-> IF i = 0 THEN first ELSE step(f[i - 1], i)]
             M == {k \in 0 .. n : \E f : Is(f, k)}
  <1>1. n \in Nat /\ Replayed(a, stage2, tok) = (CHOOSE f : Is(f, n))[n]
    BY DEF Replayed, Opened, Said
  <1> HIDE DEF n, first, step
  <1>2. 0 \in M
    <2> DEFINE f == [i \in 0 .. 0 |-> first]
    <2>1. Is(f, 0)
      OBVIOUS
    <2> HIDE DEF f, Is
    <2>2. QED
      BY <1>1, <2>1
  <1>3. ASSUME NEW k \in 0 .. n, k \in M, k + 1 <= n
        PROVE  k + 1 \in M
    <2>1. PICK f : Is(f, k)
      BY <1>3
    <2> DEFINE g == [i \in 0 .. k + 1 |-> IF i = k + 1 THEN step(f[k], k + 1) ELSE f[i]]
    <2>2. ASSUME NEW i \in 0 .. k + 1
          PROVE  g[i] = IF i = 0 THEN first ELSE step(g[i - 1], i)
      <3>1. CASE i = k + 1
        <4>1. i # 0 /\ i - 1 = k /\ k \in 0 .. k + 1 /\ k # k + 1
          BY <1>1, <3>1
        <4>2. g[k] = f[k] /\ g[i] = step(f[k], k + 1)
          BY <3>1, <4>1
        <4> HIDE DEF g
        <4>3. QED
          BY <3>1, <4>1, <4>2
      <3>2. CASE i # k + 1
        <4>1. i \in 0 .. k /\ (i # 0 => i - 1 \in 0 .. k + 1 /\ i - 1 # k + 1)
          BY <3>2
        <4>2. g[i] = f[i] /\ (i # 0 => g[i - 1] = f[i - 1])
          BY <3>2, <4>1
        <4>3. f[i] = IF i = 0 THEN first ELSE step(f[i - 1], i)
          BY <2>1, <4>1
        <4> HIDE DEF g
        <4>4. QED
          BY <4>2, <4>3
      <3>3. QED
        BY <3>1, <3>2
    <2>3. Is(g, k + 1)
      <3>1. g = [i \in 0 .. k + 1 |-> g[i]]
        OBVIOUS
      <3> HIDE DEF g
      <3>2. QED
        BY <2>2, <3>1
    <2> HIDE DEF g, Is
    <2>4. QED
      BY <1>3, <2>3
  <1>4. 0 .. n \subseteq M
    <2> HIDE DEF M
    <2>1. 0 \in Int /\ n \in Int
      BY <1>1
    <2>2. QED
      BY <1>2, <1>3, <2>1, Upwards
  <1> DEFINE F == CHOOSE f : Is(f, n)
  <1>5. Is(F, n)
    <2> HIDE DEF Is
    <2>1. n \in 0 .. n
      BY <1>1
    <2>2. \E f : Is(f, n)
      BY <1>4, <2>1
    <2>3. QED
      BY <2>2
  <1>6. Replayed(a, stage2, tok) = F[n]
    BY <1>1
  <1> HIDE DEF F
  <1>7. 0 \in 0 .. n /\ \A i \in 1 .. n : i \in 0 .. n /\ i # 0
    BY <1>1
  <1>8. F[0] = first
    BY <1>5, <1>7
  <1>9. \A i \in 1 .. n : F[i] = step(F[i - 1], i)
    BY <1>5, <1>7
  <1>10. QED
    BY <1>6, <1>8, <1>9 DEF n, first, step

LEMMA ReplayedType ==
  ASSUME NEW hs, "none" \in hs, NEW a \in Annos(hs), NEW stage2 \in hs, NEW tok \in Tokens
  PROVE  Replayed(a, stage2, tok) \in Annos(hs)
  <1> DEFINE all == Said(a, tok)
             n == Len(all)
             first == Opened(a, stage2)
             X == Annos(hs)
  <1>1. a.tokens \in Seq(Tokens)
    BY AnnoParts
  <1>2. n \in Nat /\ \A i \in 1 .. n : all[i] \in Tokens
    BY <1>1 DEF Said
  <1>3. first \in X
    <2>1. <<"in", "ws">> \in {"in", "out"} \X Stacks
      BY DEF Stacks
    <2>2. QED
      BY <2>1, NothingTypes DEF Annos, Opened
  <1>4. PICK f : /\ f[0] = first
                 /\ \A i \in 1 .. n : f[i] = Stage2(f[i - 1], all[i])
                 /\ Replayed(a, stage2, tok) = f[n]
    <2> HIDE DEF X
    <2> QED
      BY <1>1, ReplayedExact
  <1> HIDE DEF all, n, first
  <1>5. ASSUME NEW i \in 1 .. n, f[i - 1] \in X
        PROVE  f[i] \in X
    BY <1>2, <1>4, <1>5, Stage2Type
  <1> HIDE DEF X
  <1>6. f[0] \in X
    BY <1>3, <1>4
  <1>7. \A i \in 0 .. n : f[i] \in X
    BY <1>2, <1>5, <1>6, AllAlong
  <1>8. QED
    BY <1>2, <1>4, <1>7 DEF X

LEMMA ParseType ==
  ASSUME NEW hs, "none" \in hs, NEW a \in Annos(hs), NEW stage2 \in hs, NEW tok \in Tokens,
         NEW triggers
  PROVE  Parse(a, tok, triggers, stage2) \in Annos(hs)
  <1> DEFINE tokens == Append(a.tokens, tok)
  <1>1. tokens \in Seq(Tokens)
    BY AnnoParts
  <1>2. Parse(a, tok, triggers, stage2)
          \in {Replayed(a, stage2, tok), [a EXCEPT !.tokens = tokens], Killed(a)}
    BY DEF Parse
  <1> HIDE DEF tokens
  <1>3. [a EXCEPT !.tokens = tokens] \in Annos(hs)
    BY <1>1 DEF Annos
  <1>4. QED
    BY <1>2, <1>3, KilledType, ReplayedType

\* What a comment is about stays the same: a label, or an instruction.
LEMMA HandledType ==
  ASSUME NEW a, NEW tok \in Tokens
  PROVE  /\ a \in Annos(OfLabel) => Handled(a, tok) \in Annos(OfLabel)
         /\ a \in Annos(OfOpcode) => Handled(a, tok) \in Annos(OfOpcode)
  <1>1. ASSUME a \in Annos(OfLabel)
        PROVE  Handled(a, tok) \in Annos(OfLabel)
    <2>1. a.handler \in OfLabel
      BY <1>1, AnnoParts
    <2>2. Handled(a, tok) = ParseSignature(a, tok) \/ Handled(a, tok) = Stage2(a, tok)
      BY <2>1 DEF Handled, OfLabel
    <2>3. "none" \in OfLabel /\ "signature2" \in OfLabel
      BY DEF OfLabel
    <2>4. QED
      BY <1>1, <2>2, <2>3, ParseType, Stage2Type DEF ParseSignature
  <1>2. ASSUME a \in Annos(OfOpcode)
        PROVE  Handled(a, tok) \in Annos(OfOpcode)
    <2>1. a.handler \in OfOpcode
      BY <1>2, AnnoParts
    <2>2. Handled(a, tok) = ParseCast(a, tok) \/ Handled(a, tok) = Stage2(a, tok)
      BY <2>1 DEF Handled, OfOpcode
    <2>3. "none" \in OfOpcode /\ "cast2" \in OfOpcode
      BY DEF OfOpcode
    <2>4. QED
      BY <1>2, <2>2, <2>3, ParseType, Stage2Type DEF ParseCast
  <1>3. QED
    BY <1>1, <1>2

-----------------------------------------------------------------------------
(***************************************************************************)
(* The invariant.                                                          *)
(***************************************************************************)
\* A comment that may become the signature of a label has a label to be about,
\* which is in the table.
IsComment ==
  /\ current \in [has : BOOLEAN, t : {"", "label", "opcode"}, addr : Shorts]
  /\ current.has /\ current.t = "label" => current.addr \in DOMAIN infos
  /\ \/ anno \in Annos(OfOpcode)
     \/ anno \in Annos(OfLabel) /\ current.addr \in DOMAIN infos

IsSource == program \in Seq(Reported) /\ pos \in Nat \ {0} /\ IsRom /\ last.name \in Names

IsTables ==
  /\ IsTable(infos)
  /\ list \in Seq(Entries(Len(nodes.heap), Marked(infos)))
  /\ casts \in [DOMAIN casts -> PlainStacks]

Used == IF run = NoRun THEN <<>> ELSE run.used

IsRun ==
  run # NoRun =>
    /\ run.info \in Marked(infos) /\ run.pc \in Shorts /\ run.done \in BOOLEAN
    /\ run.st \in StacksOf(Len(nodes.heap))

IsVerification ==
  /\ phase \in {"pass", "verify", "done"} /\ success \in BOOLEAN /\ doubts \subseteq Doubts
  /\ AreOwned(nodes, Used)
  /\ IsRun

IInv ==
  /\ IsSource /\ (phase = "pass" => IsComment)   \* which no one reads afterwards
  /\ IsTables /\ IsVerification

\* What the assembler reports, by its kind.
LEMMA ReportedParts ==
  ASSUME NEW sym \in Reported
  PROVE  /\ sym.t = "comment" => sym.id \in Nat /\ sym.tok \in Tokens
         /\ sym.t = "label" => sym.addr \in Shorts
         /\ sym.t \in {"opcode", "ref", "number", "text"} => sym.addr \in Shorts /\ sym.name \in Names
         /\ sym.t = "opcode" => sym.byte \in Opcodes
         /\ sym.t \in {"ref", "number", "text"} => sym.byte \in Bits
  BY DEF Reported, CodeOf, Shorts, Bits

\* More that is marked is no harm to what waits.
LEMMA StillMarked ==
  ASSUME NEW k, NEW marked, NEW more, marked \subseteq more
  PROVE  Seq(Entries(k, marked)) \subseteq Seq(Entries(k, more))
  <1>1. Entries(k, marked) \subseteq Entries(k, more)
    BY DEF Entries
  <1>2. QED
    BY <1>1

\* What a routine finds on the stacks.
LEMMA EntryType ==
  ASSUME NEW k \in Nat, NEW marked, NEW addr \in Shorts, addr \in marked, NEW sig \in Sigs
  PROVE  Entry(addr, sig) \in Entries(k, marked)
  <1> DEFINE V == Seq(Vals(k))
             below == IF sig.type = "subroutine" THEN <<Return>> ELSE <<>>
             st == [ws |-> sig.in["ws"], rs |-> below \o sig.in["rs"]]
  <1>1. Return \in Vals(k)
    <2>1. 0 \in Shorts /\ {"short", "address", "return"} \subseteq Semantics \ {"hi", "lo"}
      BY Numbers DEF Semantics
    <2>2. QED
      BY <2>1, ValType DEF Return
  <1>2. sig.in["ws"] \in V /\ sig.in["rs"] \in V
    <2>1. sig.in["ws"] \in Seq(Plain) /\ sig.in["rs"] \in Seq(Plain)
      BY DEF Sigs, PlainStacks, Stacks
    <2>2. QED
      BY <2>1, PlainVals
  <1>3. below \in V
    <2> DEFINE W == Vals(k)
    <2> HIDE DEF W
    <2>1. Return \in W
      BY <1>1 DEF W
    <2>2. <<Return>> \in Seq(W) /\ <<>> \in Seq(W)
      BY <2>1
    <2>3. QED
      BY <2>2 DEF W
  <1>4. below \o sig.in["rs"] \in V
    <2> DEFINE W == Vals(k)
    <2> HIDE DEF W, below
    <2> QED
      BY <1>2, <1>3 DEF W
  <1>5. st \in StacksOf(k)
    <2> HIDE DEF below, V
    <2>1. st["ws"] = sig.in["ws"] /\ st["rs"] = below \o sig.in["rs"]
      OBVIOUS
    <2>2. st = [s \in Stacks |-> st[s]]
      BY DEF Stacks
    <2> HIDE DEF st
    <2>3. \A s \in Stacks : st[s] \in V
      BY <1>2, <1>4, <2>1 DEF Stacks
    <2>4. QED
      BY <2>2, <2>3 DEF StacksOf, V
  <1>6. Entry(addr, sig) = [info |-> addr, at |-> addr, st |-> st]
    BY DEF Entry
  <1> HIDE DEF st
  <1>7. QED
    BY <1>5, <1>6 DEF Entries

\* A routine that is marked and waits.
LEMMA EnqueuedType ==
  ASSUME NEW known, IsTable(known), NEW addr \in DOMAIN known, known[addr].routine,
         NEW k \in Nat, NEW pending \in Seq(Entries(k, Marked(known))), NEW sig \in Sigs
  PROVE  LET queued == Enqueued(known, pending, addr, sig)
         IN  /\ IsTable(queued.infos) /\ DOMAIN queued.infos = DOMAIN known
             /\ Marked(known) \subseteq Marked(queued.infos)
             /\ queued.list \in Seq(Entries(k, Marked(queued.infos)))
  <1> DEFINE now == [known EXCEPT ![addr].marked = TRUE]
             i == [known[addr] EXCEPT !.marked = TRUE]
             entry == Entry(addr, sig)
  <1>1. known[addr] \in Info /\ addr \in Shorts
    BY DEF IsTable
  <1>2. i \in Info /\ i.marked
    BY <1>1 DEF Info
  <1>3. /\ DOMAIN now = DOMAIN known
        /\ \A a \in DOMAIN known : now[a] = IF a = addr THEN i ELSE known[a]
        /\ now = [a \in DOMAIN known |-> now[a]]
    BY DEF IsTable
  <1>4. /\ Enqueued(known, pending, addr, sig).infos = now
        /\ Enqueued(known, pending, addr, sig).list = <<entry>> \o pending
    BY DEF Enqueued
  <1> HIDE DEF now, i
  <1>5. IsTable(now)
    BY <1>2, <1>3 DEF IsTable
  <1>6. Marked(known) \subseteq Marked(now) /\ addr \in Marked(now)
    BY <1>2, <1>3 DEF Marked
  <1>7. entry \in Entries(k, Marked(now))
    BY <1>1, <1>6, EntryType
  <1>8. pending \in Seq(Entries(k, Marked(now)))
    BY <1>6, StillMarked
  <1> DEFINE E == Entries(k, Marked(now))
  <1>9. <<entry>> \o pending \in Seq(E)
    <2> HIDE DEF E, entry
    <2> QED
      BY <1>7, <1>8 DEF E
  <1>10. QED
    BY <1>3, <1>4, <1>5, <1>6, <1>9

-----------------------------------------------------------------------------
(***************************************************************************)
(* Reading keeps the invariant.                                            *)
(***************************************************************************)
\* The symbol that is read is one of those the assembler reports.
LEMMA ReadsReported ==
  ASSUME IInv, NEW t, Reads(t)
  PROVE  /\ program[pos] \in Reported /\ program[pos].t = t
         /\ program' \in Seq(Reported) /\ pos' \in Nat \ {0}
  BY DEF IInv, IsSource, Reads

\* While no run goes on, the rest is kept if the tables are.
LEMMA TablesGrow ==
  ASSUME IInv, phase' \in {"verify", "done"} \/ phase' = phase, run' = run, nodes' = nodes,
         success' \in BOOLEAN, doubts' = doubts,
         IsTable(infos'), Marked(infos) \subseteq Marked(infos'),
         list' \in Seq(Entries(Len(nodes.heap), Marked(infos'))),
         casts' \in [DOMAIN casts' -> PlainStacks]
  PROVE  IsTables' /\ IsVerification'
  <1>1. IsTables'
    BY DEF IsTables
  <1>2. Used' = Used
    BY DEF Used
  <1>3. IsRun'
    BY DEF IInv, IsVerification, IsRun
  <1>4. IsVerification'
    BY <1>2, <1>3 DEF IInv, IsVerification
  <1>5. QED
    BY <1>1, <1>4

LEMMA TablesKept ==
  ASSUME IInv, UNCHANGED verification, IsTable(infos'), Marked(infos) \subseteq Marked(infos'),
         list' \in Seq(Entries(Len(nodes.heap), Marked(infos'))),
         casts' \in [DOMAIN casts' -> PlainStacks]
  PROVE  IsTables' /\ IsVerification'
  <1>1. /\ phase' = phase /\ run' = run /\ arcs' = arcs /\ nodes' = nodes /\ success' = success
        /\ doubts' = doubts /\ success \in BOOLEAN
    BY DEF verification, IInv, IsVerification
  <1>2. QED
    BY <1>1, TablesGrow

\* Nor does reading do any harm to tables it leaves alone.
LEMMA TablesLeft ==
  ASSUME IInv, UNCHANGED verification, UNCHANGED tables
  PROVE  IsTables' /\ IsVerification'
  <1>1. infos' = infos /\ casts' = casts /\ list' = list
    BY DEF tables
  <1>2. QED
    BY <1>1, TablesKept DEF IInv, IsTables

\* A comment that is not read any more is about nothing.
LEMMA KilledAny ==
  ASSUME IInv, phase = "pass"
  PROVE  Killed(anno) \in Annos(OfOpcode)
  <1>1. anno \in Annos(OfOpcode) \/ anno \in Annos(OfLabel)
    BY DEF IInv, IsComment
  <1>2. QED
    BY <1>1 DEF Annos, OfOpcode, Killed

LEMMA RomKept ==
  ASSUME IsRom, rom' = rom, symbols' = symbols
  PROVE  IsRom'
  BY DEF IsRom

LEMMA OpenCommentInv ==
  ASSUME IInv, phase = "pass", OpenComment, UNCHANGED verification
  PROVE  IInv'
  <1>1. IsSource'
    BY ReadsReported, RomKept DEF OpenComment, assembled, IInv, IsSource
  <1>2. IsTables' /\ IsVerification'
    BY TablesLeft DEF OpenComment
  <1>3. current' = current /\ infos' = infos
    BY DEF OpenComment, tables
  <1> DEFINE opened(h) == [NoComment EXCEPT !.handler = h]
  <1>4. opened("signature") \in Annos(OfLabel) /\ opened("cast") \in Annos(OfOpcode)
    <2>1. NoComment \in Annos(OfLabel) /\ NoComment \in Annos(OfOpcode)
      BY NothingTypes DEF OfLabel, OfOpcode
    <2>2. QED
      BY <2>1 DEF Annos, OfLabel, OfOpcode
  <1>5. \/ anno' = anno
        \/ current.has /\ current.t = "label" /\ anno' = opened("signature")
        \/ anno' = opened("cast")
    BY DEF OpenComment
  <1> HIDE DEF opened
  <1>6. IsComment'
    BY <1>3, <1>4, <1>5 DEF IInv, IsComment
  <1>7. QED
    BY <1>1, <1>2, <1>6 DEF IInv

LEMMA InCommentInv ==
  ASSUME IInv, phase = "pass", InComment, UNCHANGED verification
  PROVE  IInv'
  <1>1. IsSource'
    BY ReadsReported, RomKept DEF InComment, assembled, IInv, IsSource
  <1>2. IsTables' /\ IsVerification'
    BY TablesLeft DEF InComment
  <1>3. current' = current /\ infos' = infos
    BY DEF InComment, tables
  <1>4. program[pos].tok \in Tokens
    BY ReadsReported, ReportedParts DEF InComment
  <1>5. anno' = Handled(anno, program[pos].tok) \/ anno' = Killed(anno)
    BY DEF InComment
  <1>6. \/ anno' \in Annos(OfOpcode)
        \/ anno' \in Annos(OfLabel) /\ current.addr \in DOMAIN infos
    <2> DEFINE h == Handled(anno, program[pos].tok)
    <2>1. \/ anno \in Annos(OfOpcode)
          \/ anno \in Annos(OfLabel) /\ current.addr \in DOMAIN infos
      BY DEF IInv, IsComment
    <2>2. /\ anno \in Annos(OfLabel) => h \in Annos(OfLabel)
          /\ anno \in Annos(OfOpcode) => h \in Annos(OfOpcode)
      BY <1>4, HandledType
    <2>3. Killed(anno) \in Annos(OfOpcode)
      BY KilledAny
    <2> HIDE DEF h
    <2>4. QED
      BY <1>5, <2>1, <2>2, <2>3 DEF h
  <1>7. IsComment'
    BY <1>3, <1>6 DEF IInv, IsComment
  <1>8. QED
    BY <1>1, <1>2, <1>7 DEF IInv

LEMMA CloseCommentInv ==
  ASSUME IInv, phase = "pass", CloseComment, UNCHANGED verification
  PROVE  IInv'
  <1> DEFINE addr == current.addr
             found == anno.found
             k == Len(nodes.heap)
             known == [infos EXCEPT ![addr].routine = TRUE, ![addr].sig = found]
             queued == Enqueued(known, list, addr, found)
             i == [infos[addr] EXCEPT !.routine = TRUE, !.sig = found]
  <1>1. IsSource'
    BY ReadsReported, RomKept DEF CloseComment, assembled, IInv, IsSource
  <1>2. current' = current /\ anno' = Killed(anno)
    BY DEF CloseComment
  <1>3. found \in Sigs
    BY AnnoParts DEF IInv, IsComment
  <1>4. IsTable(infos) /\ list \in Seq(Entries(k, Marked(infos))) /\ k \in Nat
        /\ casts \in [DOMAIN casts -> PlainStacks]
    BY DEF IInv, IsTables, IsVerification, AreOwned
  <1>5. ASSUME Signed2
        PROVE  /\ IsTable(known) /\ DOMAIN known = DOMAIN infos /\ Marked(known) = Marked(infos)
               /\ addr \in DOMAIN known /\ known[addr].routine
    <2>1. anno \notin Annos(OfOpcode)
      BY <1>5 DEF Signed2, Annos, OfOpcode
    <2>2. addr \in DOMAIN infos
      BY <2>1 DEF IInv, IsComment
    <2>3. infos[addr] \in Info
      BY <1>4, <2>2 DEF IsTable
    <2>4. i \in Info /\ i.marked = infos[addr].marked /\ i.routine
      BY <1>3, <2>3 DEF Info
    <2>5. known = [infos EXCEPT ![addr] = i]
      BY <1>4, <2>2 DEF IsTable
    <2> HIDE DEF known, i
    <2>6. IsTable(known) /\ Marked(known) = Marked(infos)
      BY <1>4, <2>2, <2>4, <2>5, TableKept
    <2>7. DOMAIN known = DOMAIN infos /\ known[addr] = i
      BY <1>4, <2>2, <2>5 DEF IsTable
    <2>8. QED
      BY <2>2, <2>4, <2>6, <2>7
  <1>6. /\ infos' = (IF ~Signed2 THEN infos ELSE IF anno.sealed THEN known ELSE queued.infos)
        /\ list' = (IF Signed2 /\ ~anno.sealed THEN queued.list ELSE list)
    BY DEF CloseComment
  <1>7. ASSUME Signed2
        PROVE  /\ IsTable(queued.infos) /\ DOMAIN queued.infos = DOMAIN known
               /\ Marked(known) \subseteq Marked(queued.infos)
               /\ queued.list \in Seq(Entries(k, Marked(queued.infos)))
    <2> HIDE DEF known
    <2>1. IsTable(known) /\ addr \in DOMAIN known /\ known[addr].routine
          /\ list \in Seq(Entries(k, Marked(known)))
      BY <1>4, <1>5, <1>7
    <2> HIDE DEF addr, k, found
    <2>2. QED
      BY <1>3, <1>4, <2>1, EnqueuedType
  <1> HIDE DEF known, queued
  <1>8. /\ IsTable(infos') /\ DOMAIN infos' = DOMAIN infos /\ Marked(infos) \subseteq Marked(infos')
        /\ list' \in Seq(Entries(k, Marked(infos')))
    BY <1>4, <1>5, <1>6, <1>7
  <1>9. casts' \in [DOMAIN casts' -> PlainStacks]
    <2>1. found.in \in PlainStacks
      BY <1>3 DEF Sigs
    <2>2. casts' = (IF Cast2 THEN [a \in DOMAIN casts \union {addr} |-> IF a = addr THEN found.in
                                                                          ELSE casts[a]]
                    ELSE casts)
      BY DEF CloseComment
    <2> HIDE DEF addr, found
    <2>3. QED
      BY <1>4, <2>1, <2>2
  <1>10. IsTables' /\ IsVerification'
    BY <1>8, <1>9, TablesKept
  <1>11. IsComment'
    BY <1>2, <1>8, KilledAny DEF IInv, IsComment
  <1>12. QED
    BY <1>1, <1>10, <1>11 DEF IInv

\* A label that is new to the table is not marked.
LEMMA KnownType ==
  ASSUME IInv, NEW addr \in Shorts
  PROVE  /\ IsTable(Known(addr)) /\ Marked(Known(addr)) = Marked(infos)
         /\ DOMAIN Known(addr) = DOMAIN infos \union {addr}
  <1> DEFINE now == Known(addr)
  <1>1. /\ DOMAIN now = DOMAIN infos \union {addr}
        /\ \A a \in DOMAIN now : now[a] = IF a \in DOMAIN infos THEN infos[a] ELSE NoInfo
        /\ now = [a \in DOMAIN now |-> now[a]]
    BY DEF Known
  <1>2. IsTable(infos) /\ NoInfo \in Info /\ ~NoInfo.marked
    BY NothingTypes DEF IInv, IsTables, NoInfo
  <1> HIDE DEF now
  <1>3. \A a \in DOMAIN now : now[a] \in Info /\ a \in Shorts
    BY <1>1, <1>2 DEF IsTable
  <1>4. IsTable(now)
    BY <1>1, <1>3 DEF IsTable
  <1>5. \A a : a \in Marked(now) <=> a \in Marked(infos)
    BY <1>1, <1>2 DEF Marked
  <1>6. QED
    BY <1>1, <1>4, <1>5 DEF now

LEMMA ReadLabelInv ==
  ASSUME IInv, phase = "pass", ReadLabel, UNCHANGED verification
  PROVE  IInv'
  <1>1. IsSource'
    BY ReadsReported, RomKept DEF ReadLabel, assembled, IInv, IsSource
  <1>2. program[pos].addr \in Shorts
    BY ReadsReported, ReportedParts DEF ReadLabel
  <1>3. /\ current' = [has |-> TRUE, t |-> "label", addr |-> program[pos].addr]
        /\ anno' = Killed(anno) /\ infos' = Known(program[pos].addr)
        /\ casts' = casts /\ list' = list
    BY DEF ReadLabel
  <1>4. IsTables' /\ IsVerification'
    BY <1>2, <1>3, KnownType, TablesKept DEF IInv, IsTables
  <1>5. current'.addr \in DOMAIN infos'
    BY <1>2, <1>3, KnownType
  <1>6. IsComment'
    BY <1>2, <1>3, <1>5, KilledAny DEF IsComment
  <1>7. QED
    BY <1>1, <1>4, <1>6 DEF IInv

LEMMA ReadMacroInv ==
  ASSUME IInv, phase = "pass", ReadMacro \/ ReadOther, UNCHANGED verification
  PROVE  IInv'
  <1>1. IsSource'
    BY ReadsReported, RomKept DEF ReadMacro, ReadOther, assembled, IInv, IsSource
  <1>2. IsTables' /\ IsVerification'
    BY TablesLeft DEF ReadMacro, ReadOther
  <1>3. /\ current' = current \/ current' = [current EXCEPT !.has = FALSE]
        /\ infos' = infos /\ anno' = anno
    BY DEF ReadMacro, ReadOther, tables, parsing
  <1>4. IsComment'
    <2>1. current \in [has : BOOLEAN, t : {"", "label", "opcode"}, addr : Shorts]
      BY DEF IInv, IsComment
    <2>2. /\ current' \in [has : BOOLEAN, t : {"", "label", "opcode"}, addr : Shorts]
          /\ current'.addr = current.addr /\ current'.t = current.t
          /\ current'.has => current.has
      BY <1>3, <2>1
    <2>3. QED
      BY <1>3, <2>2 DEF IInv, IsComment
  <1>5. QED
    BY <1>1, <1>2, <1>4 DEF IInv

LEMMA ReadCodeInv ==
  ASSUME IInv, phase = "pass", NEW t \in {"opcode", "ref", "number", "text"}, ReadCode(t), UNCHANGED verification
  PROVE  IInv'
  <1> DEFINE sym == program[pos]
  <1>1. /\ sym \in Reported /\ sym.t = t /\ sym.addr \in Shorts /\ sym.name \in Names
        /\ program' \in Seq(Reported) /\ pos' \in Nat \ {0}
    BY ReadsReported, ReportedParts DEF ReadCode
  <1>2. IF t = "opcode" THEN sym.byte \in Opcodes ELSE sym.byte \in Bits
    BY <1>1, ReportedParts
  <1>3. Symbol(sym).t = t /\ Symbol(sym).name \in Names
    BY <1>1 DEF Symbol, IInv, IsSource
  <1>4. /\ last' = Symbol(sym)
        /\ symbols' = [a \in DOMAIN symbols \union {sym.addr} |->
                         IF a = sym.addr THEN last' ELSE symbols[a]]
        /\ rom' = [a \in DOMAIN rom \union {sym.addr} |-> IF a = sym.addr THEN sym.byte ELSE rom[a]]
        /\ \/ /\ current' = [has |-> TRUE, t |-> "opcode", addr |-> sym.addr]
              /\ anno' = Killed(anno)
           \/ UNCHANGED parsing
        /\ UNCHANGED tables
    BY DEF ReadCode
  <1> HIDE DEF sym
  <1>5. IsRom'
    <2>1. IsRom
      BY DEF IInv, IsSource
    <2>2. DOMAIN rom' = DOMAIN symbols'
      BY <1>4, <2>1 DEF IsRom
    <2>3. ASSUME NEW a \in DOMAIN symbols'
          PROVE  /\ symbols'[a].name \in Names
                 /\ IF symbols'[a].t = "opcode" THEN rom'[a] \in Opcodes ELSE rom'[a] \in Bits
      <3>1. CASE a = sym.addr
        <4>1. symbols'[a] = Symbol(sym) /\ rom'[a] = sym.byte
          BY <1>4, <2>2, <2>3, <3>1
        <4>2. QED
          BY <1>2, <1>3, <4>1
      <3>2. CASE a # sym.addr
        <4>1. a \in DOMAIN symbols /\ symbols'[a] = symbols[a] /\ rom'[a] = rom[a]
          BY <1>4, <2>1, <2>2, <2>3, <3>2 DEF IsRom
        <4>2. QED
          BY <2>1, <4>1 DEF IsRom
      <3>3. QED
        BY <3>1, <3>2
    <2>4. QED
      BY <2>2, <2>3 DEF IsRom
  <1>6. IsSource'
    BY <1>1, <1>3, <1>4, <1>5 DEF IsSource
  <1>7. IsTables' /\ IsVerification'
    BY <1>4, TablesLeft
  <1>8. infos' = infos
    BY <1>4 DEF tables
  <1>9. IsComment'
    <2>1. CASE UNCHANGED parsing
      BY <1>8, <2>1 DEF parsing, IInv, IsComment
    <2>2. CASE /\ current' = [has |-> TRUE, t |-> "opcode", addr |-> sym.addr]
               /\ anno' = Killed(anno)
      BY <1>1, <2>2, KilledAny DEF IsComment
    <2>3. QED
      BY <1>4, <2>1, <2>2
  <1>10. QED
    BY <1>6, <1>7, <1>9 DEF IInv

LEMMA ReadingInv ==
  ASSUME IInv, Reading
  PROVE  IInv'
  BY OpenCommentInv, InCommentInv, CloseCommentInv, ReadLabelInv, ReadMacroInv, ReadCodeInv
     DEF Reading, HandleSymbol

-----------------------------------------------------------------------------
(***************************************************************************)
(* So does verifying.                                                      *)
(***************************************************************************)
\* What the variables are while a run is under way.
LEMMA RecordGood ==
  ASSUME IInv, run # NoRun, NEW op, op.k \in BOOLEAN
  PROVE  /\ Good(Record(op)) /\ Record(op).infos = infos /\ Record(op).pc = run.pc
         /\ Record(op).got = <<>>
  <1> DEFINE m == Record(op)
             k == Len(nodes.heap)
  <1>1. /\ DOMAIN m = Fields /\ m.info = run.info /\ m.at = run.pc /\ m.pc = run.pc
        /\ m.done = FALSE /\ m.st = run.st /\ m.shadow = run.st /\ m.keeps = op.k
        /\ m.used = run.used /\ m.got = <<>> /\ m.infos = infos /\ m.list = list
        /\ m.nodes = nodes /\ m.success = success /\ m.doubts = doubts
    BY DEF Record, Fields
  <1> HIDE DEF m
  <1>2. Used = run.used
    BY DEF Used
  <1>3. AreOwned(nodes, run.used) /\ success \in BOOLEAN /\ doubts \subseteq Doubts
    BY <1>2 DEF IInv, IsVerification
  <1>4. /\ run.info \in Marked(infos) /\ run.pc \in Shorts
        /\ run.st \in StacksOf(k)
    BY DEF IInv, IsVerification, IsRun
  <1>5. IsTable(infos) /\ list \in Seq(Entries(k, Marked(infos)))
    BY DEF IInv, IsTables
  <1>6. <<>> \in Seq(Vals(k)) /\ K(m) = k
    BY <1>1 DEF K
  <1> HIDE DEF k
  <1>7. QED
    BY <1>1, <1>3, <1>4, <1>5, <1>6 DEF Good, m

\* What they become.
LEMMA BecomesInv ==
  ASSUME IInv, phase = "verify", NEW m, Good(m), NEW falling, Becomes(m, falling)
  PROVE  IInv'
  <1>1. /\ run' = [info |-> m.info, pc |-> m.pc, done |-> m.done, st |-> m.st, used |-> m.used,
                   falling |-> falling]
        /\ infos' = m.infos /\ list' = m.list /\ nodes' = m.nodes
        /\ success' = m.success /\ doubts' = m.doubts
        /\ program' = program /\ pos' = pos /\ rom' = rom /\ symbols' = symbols /\ last' = last
        /\ casts' = casts /\ phase' = phase
    BY DEF Becomes, source, assembled
  <1>2. IsSource'
    BY <1>1, RomKept DEF IInv, IsSource
  <1>3. /\ AreOwned(m.nodes, m.used) /\ IsTable(m.infos) /\ m.info \in Marked(m.infos)
        /\ m.list \in Seq(Entries(Len(m.nodes.heap), Marked(m.infos)))
        /\ m.st \in StacksOf(Len(m.nodes.heap)) /\ m.pc \in Shorts
        /\ m.done \in BOOLEAN /\ m.success \in BOOLEAN /\ m.doubts \subseteq Doubts
    BY DEF Good, K
  <1>4. run' # NoRun
    <2>1. m.info \in Shorts
      BY <1>3 DEF IsTable, Marked
    <2>2. m.info # -1
      BY <2>1, Numbers
    <2>3. run'.info = m.info /\ NoRun.info = -1
      BY <1>1 DEF NoRun
    <2>4. QED
      BY <2>2, <2>3
  <1>5. /\ run'.info = m.info /\ run'.pc = m.pc /\ run'.done = m.done /\ run'.st = m.st
        /\ run'.used = m.used
    BY <1>1
  <1>6. Used' = m.used
    BY <1>4, <1>5 DEF Used
  <1>7. IsRun'
    BY <1>1, <1>3, <1>5 DEF IsRun
  <1>8. IsVerification'
    BY <1>1, <1>3, <1>6, <1>7 DEF IInv, IsVerification
  <1>9. IsTables'
    BY <1>1, <1>3 DEF IInv, IsTables
  <1>10. phase' # "pass"
    BY <1>1
  <1>11. QED
    BY <1>2, <1>8, <1>9, <1>10 DEF IInv

LEMMA StepsInv ==
  ASSUME IInv, ReachZeroPage \/ FallThrough \/ ReachNonOpcode \/ Execute
  PROVE  IInv'
  <1>1. phase = "verify" /\ run # NoRun
    BY DEF ReachZeroPage, FallThrough, ReachNonOpcode, Execute, Running
  <1>2. Good(Record(NoOp)) /\ Record(NoOp).infos = infos
    <2>1. NoOp.k \in BOOLEAN
      BY DEF NoOp
    <2>2. QED
      BY <1>1, <2>1, RecordGood
  <1>3. CASE ReachZeroPage \/ ReachNonOpcode
    <2>1. Becomes(Fail(Record(NoOp)), FALSE)
      BY <1>3 DEF ReachZeroPage, ReachNonOpcode
    <2>2. QED
      BY <1>1, <1>2, <2>1, FailGood, BecomesInv
  <1>4. CASE FallThrough
    <2>1. Becomes(ShortCircuit(Record(NoOp), run.pc), TRUE)
      BY <1>4 DEF FallThrough
    <2>2. run.pc \in DOMAIN Record(NoOp).infos
      BY <1>2, <1>4 DEF FallThrough, Falls, IsRoutine
    <2>3. Good(ShortCircuit(Record(NoOp), run.pc))
      BY <1>2, <2>2, ShortCircuitGood
    <2>4. QED
      BY <1>1, <2>1, <2>3, BecomesInv
  <1>5. CASE Execute
    <2> DEFINE op == rom[run.pc]
               r == Record(op)
               pc == (r.pc + 1) % Short
               m == [r EXCEPT !.pc = pc]
               x == PopOperands(m, op)
               y == CastAt(run.pc, Executed(x, op))
    <2>1. Becomes(y, FALSE)
      BY <1>5 DEF Execute
    <2>2. IsRom /\ casts \in [DOMAIN casts -> PlainStacks]
      BY DEF IInv, IsSource, IsTables
    <2>3. op \in Opcodes
      <3>1. SymbolAt(run.pc).t = "opcode"
        BY <1>5 DEF Execute
      <3>2. run.pc \in DOMAIN symbols /\ symbols[run.pc].t = "opcode"
        BY <3>1 DEF SymbolAt, NoSymbol
      <3>3. QED
        BY <2>2, <3>2 DEF IsRom
    <2>4. Good(r) /\ r.pc \in Shorts /\ r.got = <<>>
      <3>1. op.k \in BOOLEAN
        BY <2>3, OpTypes
      <3>2. QED
        BY <1>1, <3>1, RecordGood DEF Good
    <2>5. pc \in Shorts
      <3> DEFINE n == r.pc + 1
      <3> HIDE DEF op, r
      <3>1. r.pc \in Int
        BY <2>4, ShortType DEF Shorts
      <3>2. n \in Int
        BY <3>1
      <3> HIDE DEF n
      <3>3. n % Short \in Shorts
        BY <3>2, Wraps
      <3>4. QED
        BY <3>3 DEF n
    <2> HIDE DEF op, r, pc
    <2>6. Good(m) /\ m.got = <<>>
      <3>1. Good(m)
        BY <2>4, <2>5, PcGood
      <3>2. m.got = r.got
        BY <2>4 DEF Good, Fields
      <3>3. QED
        BY <2>4, <3>1, <3>2
    <2> HIDE DEF m
    <2>7. Good(x) /\ Len(x.got) = Arity(op)
      BY <2>2, <2>3, <2>6, PopOperandsGood
    <2> HIDE DEF x
    <2>8. Good(Executed(x, op))
      BY <2>2, <2>3, <2>7, ExecutedGood
    <2>9. Good(y)
      BY <2>2, <2>8, CastAtGood
    <2> HIDE DEF y
    <2>10. QED
      BY <1>1, <2>1, <2>9, BecomesInv
  <1>6. QED
    BY <1>3, <1>4, <1>5

\* The reset vector has an entry, marked even if it has no signature.
LEMMA BeginVerificationInv ==
  ASSUME IInv, BeginVerification
  PROVE  IInv'
  <1> DEFINE k == Len(nodes.heap)
             known == Known(ResetVector)
             signed == [known EXCEPT ![ResetVector].routine = TRUE]
             queued == Enqueued(signed, list, ResetVector, NoSignature)
             i == [known[ResetVector] EXCEPT !.routine = TRUE]
  <1>1. ResetVector \in Shorts
    BY ResetVectorAssumption DEF Shorts
  <1>2. IsTable(known) /\ Marked(known) = Marked(infos) /\ ResetVector \in DOMAIN known
    BY <1>1, KnownType
  <1>3. list \in Seq(Entries(k, Marked(infos))) /\ k \in Nat
        /\ casts \in [DOMAIN casts -> PlainStacks]
    BY DEF IInv, IsTables, IsVerification, AreOwned
  <1>4. \/ infos' = known /\ list' = list
        \/ infos' = queued.infos /\ list' = queued.list
    BY DEF BeginVerification, EnsureReset
  <1> HIDE DEF known
  <1>5. i \in Info /\ i.marked = known[ResetVector].marked /\ i.routine
    <2>1. known[ResetVector] \in Info
      BY <1>2 DEF IsTable
    <2>2. QED
      BY <2>1 DEF Info
  <1>6. signed = [known EXCEPT ![ResetVector] = i]
    BY <1>2 DEF IsTable
  <1> HIDE DEF signed, i
  <1>7. /\ IsTable(signed) /\ Marked(signed) = Marked(infos)
        /\ ResetVector \in DOMAIN signed /\ signed[ResetVector].routine
    <2>1. IsTable(signed) /\ Marked(signed) = Marked(known)
      <3>1. IsTable(known) /\ ResetVector \in DOMAIN known
        BY <1>2
      <3>2. i \in Info /\ i.marked = known[ResetVector].marked
        BY <1>5
      <3>3. QED
        BY <1>6, <3>1, <3>2, TableKept
    <2>2. DOMAIN signed = DOMAIN known /\ signed[ResetVector] = i
      BY <1>2, <1>6 DEF IsTable
    <2>3. QED
      BY <1>2, <1>5, <2>1, <2>2
  <1>8. /\ IsTable(queued.infos) /\ Marked(signed) \subseteq Marked(queued.infos)
        /\ queued.list \in Seq(Entries(k, Marked(queued.infos)))
    <2>1. list \in Seq(Entries(k, Marked(signed))) /\ NoSignature \in Sigs
      BY <1>3, <1>7, NothingTypes
    <2> HIDE DEF k
    <2>2. QED
      BY <1>3, <1>7, <2>1, EnqueuedType
  <1> HIDE DEF queued
  <1>9. /\ IsTable(infos') /\ Marked(infos) \subseteq Marked(infos')
        /\ list' \in Seq(Entries(k, Marked(infos')))
    BY <1>2, <1>3, <1>4, <1>7, <1>8
  <1>10. /\ phase' = "verify" /\ run' = run /\ nodes' = nodes /\ success' = success
         /\ doubts' = doubts /\ casts' = casts
         /\ program' = program /\ pos' = pos /\ rom' = rom /\ symbols' = symbols /\ last' = last
    BY DEF BeginVerification, source, assembled
  <1>11. IsTables' /\ IsVerification'
    <2>1. success \in BOOLEAN
      BY DEF IInv, IsVerification
    <2>2. QED
      BY <1>3, <1>9, <1>10, <2>1, TablesGrow
  <1>12. IsSource'
    BY <1>10, RomKept DEF IInv, IsSource
  <1>13. QED
    BY <1>10, <1>11, <1>12 DEF IInv

LEMMA StartInv ==
  ASSUME IInv, Start
  PROVE  IInv'
  <1> DEFINE k == Len(nodes.heap)
             E == Entries(k, Marked(infos))
             entry == Head(list)
             now == [info |-> entry.info, pc |-> entry.at, done |-> FALSE, st |-> entry.st,
                     used |-> <<>>, falling |-> FALSE]
             failed == [infos EXCEPT ![entry.info].error = TRUE]
             i == [infos[entry.info] EXCEPT !.error = TRUE]
  <1>1. list \in Seq(E) /\ list # <<>> /\ IsTable(infos)
    BY DEF IInv, IsTables, Start
  <1>2. entry \in E /\ Tail(list) \in Seq(E)
    <2> HIDE DEF E
    <2> QED
      BY <1>1
  <1>3. entry.info \in Marked(infos) /\ entry.at \in Shorts /\ entry.st \in StacksOf(k)
    BY <1>2 DEF Entries
  <1>4. /\ run = NoRun /\ phase = "verify"
        /\ \/ run' = NoRun /\ infos' = failed
           \/ run' = now /\ infos' = infos
        /\ success' \in BOOLEAN /\ list' = Tail(list)
        /\ phase' = phase /\ casts' = casts /\ nodes' = nodes /\ doubts' = doubts
        /\ program' = program /\ pos' = pos /\ rom' = rom /\ symbols' = symbols /\ last' = last
    BY DEF Start, Others, source, assembled
  <1> HIDE DEF entry
  <1>5. IsTable(failed) /\ Marked(failed) = Marked(infos)
    <2>1. entry.info \in DOMAIN infos /\ infos[entry.info] \in Info
      BY <1>1, <1>3 DEF IsTable, Marked
    <2>2. i \in Info /\ i.marked = infos[entry.info].marked
      BY <2>1 DEF Info
    <2>3. failed = [infos EXCEPT ![entry.info] = i]
      BY <1>1, <2>1 DEF IsTable
    <2> DEFINE a == entry.info
    <2>4. IsTable(infos) /\ a \in DOMAIN infos
      BY <1>1, <2>1
    <2> HIDE DEF i, failed, a
    <2>5. i \in Info /\ i.marked = infos[a].marked /\ failed = [infos EXCEPT ![a] = i]
      BY <2>2, <2>3 DEF a
    <2>6. QED
      BY <2>4, <2>5, TableKept
  <1> HIDE DEF failed
  <1>6. IsTable(infos') /\ Marked(infos') = Marked(infos)
    BY <1>1, <1>4, <1>5
  <1>7. IsTables'
    BY <1>2, <1>4, <1>6 DEF IInv, IsTables
  <1>8. Used = <<>> /\ Used' = <<>>
    BY <1>4 DEF Used
  <1>9. IsRun'
    <2>1. CASE run' = NoRun
      BY <2>1 DEF IsRun
    <2>2. CASE run' = now
      <3>1. /\ run'.info = entry.info /\ run'.pc = entry.at /\ run'.done = FALSE
            /\ run'.st = entry.st /\ nodes' = nodes
        BY <1>4, <2>2
      <3>2. QED
        BY <1>3, <1>6, <3>1 DEF IsRun
    <2>3. QED
      BY <1>4, <2>1, <2>2
  <1>10. IsVerification'
    BY <1>4, <1>8, <1>9 DEF IInv, IsVerification
  <1>11. IsSource'
    BY <1>4, RomKept DEF IInv, IsSource
  <1>12. QED
    BY <1>4, <1>7, <1>10, <1>11 DEF IInv

\* The nodes of a run that ends are free again, each once.
LEMMA NodesFreed ==
  ASSUME NEW k \in Nat, NEW pool, NEW used, AreShared(k, pool, used)
  PROVE  AreShared(k, Reverse(used) \o pool, <<>>)
  <1> DEFINE r == Reverse(used)
             n == Len(used)
             p == Len(pool)
             s == r \o pool
  <1>1. /\ pool \in Seq(1 .. k) /\ used \in Seq(1 .. k)
        /\ Distinct(pool) /\ Distinct(used) /\ Disjoint(used, pool)
    BY DEF AreShared
  <1>2. /\ r \in Seq(1 .. k) /\ Len(r) = n /\ n \in Nat
        /\ \A i \in 1 .. n : r[i] = used[n + 1 - i] /\ n + 1 - i \in 1 .. n
    BY <1>1, Backwards
  <1> HIDE DEF r
  <1>3. /\ s \in Seq(1 .. k) /\ p \in Nat /\ DOMAIN s = 1 .. n + p
        /\ \A i \in 1 .. n : s[i] = r[i]
        /\ \A i \in n + 1 .. n + p : s[i] = pool[i - n] /\ i - n \in 1 .. p
        /\ DOMAIN used = 1 .. n /\ DOMAIN pool = 1 .. p
    <2>1. p \in Nat /\ DOMAIN used = 1 .. n /\ DOMAIN pool = 1 .. p
      BY <1>1
    <2>2. s \in Seq(1 .. k) /\ Len(s) = n + p
      <3> DEFINE S == 1 .. k
      <3> HIDE DEF S
      <3>1. r \in Seq(S) /\ pool \in Seq(S)
        BY <1>1, <1>2 DEF S
      <3>2. s \in Seq(S) /\ Len(s) = Len(r) + Len(pool)
        BY <3>1
      <3>3. QED
        BY <1>2, <3>2 DEF S
    <2>3. DOMAIN s = 1 .. n + p
      BY <1>2, <2>2
    <2>4. \A i \in 1 .. n + p : s[i] = IF i <= n THEN r[i] ELSE pool[i - n]
      <3> DEFINE S == 1 .. k
      <3> HIDE DEF S
      <3>1. r \in Seq(S) /\ pool \in Seq(S) /\ Len(r) = n
        BY <1>1, <1>2 DEF S
      <3>2. \A i \in 1 .. Len(r) + Len(pool) :
              s[i] = IF i <= Len(r) THEN r[i] ELSE pool[i - Len(r)]
        BY <3>1
      <3>3. QED
        BY <3>1, <3>2
    <2> HIDE DEF s, n, p
    <2>5. \A i \in n + 1 .. n + p : i - n \in 1 .. p /\ ~(i <= n) /\ i \in 1 .. n + p
      BY <1>2, <2>1
    <2>6. \A i \in 1 .. n : i <= n /\ i \in 1 .. n + p
      BY <1>2, <2>1
    <2>7. QED
      BY <2>1, <2>2, <2>3, <2>4, <2>5, <2>6
  <1> HIDE DEF s, n, p
  <1>4. ASSUME NEW i \in 1 .. n, NEW j \in 1 .. n, i # j
        PROVE  s[i] # s[j]
    <2>1. n + 1 - i # n + 1 - j
      BY <1>2, <1>4
    <2>2. n + 1 - i \in DOMAIN used /\ n + 1 - j \in DOMAIN used
      BY <1>2, <1>3
    <2>3. used[n + 1 - i] # used[n + 1 - j]
      BY <1>1, <2>1, <2>2 DEF Distinct
    <2>4. s[i] = used[n + 1 - i] /\ s[j] = used[n + 1 - j]
      BY <1>2, <1>3
    <2>5. QED
      BY <2>3, <2>4
  <1>5. ASSUME NEW i \in n + 1 .. n + p, NEW j \in n + 1 .. n + p, i # j
        PROVE  s[i] # s[j]
    <2>1. i - n # j - n
      BY <1>2, <1>3, <1>5
    <2>2. i - n \in DOMAIN pool /\ j - n \in DOMAIN pool
      BY <1>3
    <2>3. pool[i - n] # pool[j - n]
      BY <1>1, <2>1, <2>2 DEF Distinct
    <2>4. QED
      BY <1>3, <2>3
  <1>6. ASSUME NEW i \in 1 .. n, NEW j \in n + 1 .. n + p
        PROVE  s[i] # s[j]
    <2>1. n + 1 - i \in DOMAIN used /\ s[i] = used[n + 1 - i]
      BY <1>2, <1>3
    <2>2. j - n \in DOMAIN pool /\ s[j] = pool[j - n]
      BY <1>3
    <2>3. used[n + 1 - i] # pool[j - n]
      BY <1>1, <2>1, <2>2 DEF Disjoint
    <2>4. QED
      BY <2>1, <2>2, <2>3
  <1>7. \A i \in 1 .. n + p : i \in 1 .. n \/ i \in n + 1 .. n + p
    BY <1>2, <1>3
  <1>8. Distinct(s)
    BY <1>3, <1>4, <1>5, <1>6, <1>7 DEF Distinct
  <1>9. <<>> \in Seq(1 .. k) /\ Distinct(<<>>) /\ Disjoint(<<>>, s)
    BY DEF Distinct, Disjoint
  <1>10. QED
    BY <1>3, <1>8, <1>9 DEF AreShared, s, r

LEMMA FinishInv ==
  ASSUME IInv, Finish
  PROVE  IInv'
  <1> DEFINE k == Len(nodes.heap)
             pool == Reverse(run.used) \o nodes.pool
  <1>1. /\ run # NoRun /\ phase = "verify" /\ run' = NoRun
        /\ nodes' = [nodes EXCEPT !.pool = pool]
        /\ phase' = phase /\ casts' = casts /\ infos' = infos /\ list' = list
        /\ success' = success /\ doubts' = doubts
        /\ program' = program /\ pos' = pos /\ rom' = rom /\ symbols' = symbols /\ last' = last
    BY DEF Finish, source, assembled, tables
  <1>2. /\ nodes \in [heap : Seq(Kept(k)), pool : Seq(1 .. k), splits : Nat]
        /\ AreShared(k, nodes.pool, run.used) /\ k \in Nat
    BY <1>1 DEF IInv, IsVerification, AreOwned, Used
  <1> HIDE DEF k
  <1>3. AreShared(k, pool, <<>>)
    BY <1>2, NodesFreed
  <1>4. pool \in Seq(1 .. k)
    BY <1>3 DEF AreShared
  <1> HIDE DEF pool
  <1>5. /\ nodes' \in [heap : Seq(Kept(k)), pool : Seq(1 .. k), splits : Nat]
        /\ nodes'.heap = nodes.heap /\ nodes'.pool = pool
    BY <1>1, <1>2, <1>4
  <1>6. Used' = <<>>
    BY <1>1 DEF Used
  <1>7. AreOwned(nodes', Used')
    BY <1>3, <1>5, <1>6 DEF AreOwned, k
  <1>8. IsTables'
    BY <1>1, <1>5 DEF IInv, IsTables
  <1>9. IsVerification'
    BY <1>1, <1>7 DEF IInv, IsVerification, IsRun
  <1>10. IsSource'
    BY <1>1, RomKept DEF IInv, IsSource
  <1>11. QED
    BY <1>1, <1>8, <1>9, <1>10 DEF IInv

LEMMA ConcludeInv ==
  ASSUME IInv, Conclude
  PROVE  IInv'
  <1>1. /\ phase' = "done" /\ success' \in BOOLEAN /\ run' = run /\ nodes' = nodes
        /\ casts' = casts /\ infos' = infos /\ list' = list /\ doubts' = doubts
        /\ program' = program /\ pos' = pos /\ rom' = rom /\ symbols' = symbols /\ last' = last
    BY DEF Conclude, source, assembled, tables
  <1>2. IsTables' /\ IsVerification'
    BY <1>1, TablesGrow DEF IInv, IsTables
  <1>3. IsSource'
    BY <1>1, RomKept DEF IInv, IsSource
  <1>4. QED
    BY <1>1, <1>2, <1>3 DEF IInv

LEMMA StutterInv ==
  ASSUME IInv, UNCHANGED vars
  PROVE  IInv'
  <1>1. UNCHANGED verification /\ UNCHANGED tables /\ UNCHANGED parsing
        /\ program' = program /\ pos' = pos /\ rom' = rom /\ symbols' = symbols /\ last' = last
    BY DEF vars, source, assembled
  <1>2. IsTables' /\ IsVerification'
    BY <1>1, TablesLeft
  <1>3. IsSource'
    BY <1>1, RomKept DEF IInv, IsSource
  <1>4. phase' = phase /\ infos' = infos /\ current' = current /\ anno' = anno
    BY <1>1 DEF verification, tables, parsing
  <1>5. phase' = "pass" => IsComment'
    BY <1>4 DEF IInv, IsComment
  <1>6. QED
    BY <1>2, <1>3, <1>5 DEF IInv

LEMMA InitInv ==
  ASSUME Init
  PROVE  IInv
  <1>1. IsSource
    <2>1. program \in Seq(Reported) /\ pos = 1 /\ rom = <<>> /\ symbols = <<>> /\ last = NoSymbol
      BY ProgramsAssumption DEF Init, InitAnnotations
    <2>2. DOMAIN <<>> = {}
      OBVIOUS
    <2>3. IsRom
      BY <2>1, <2>2 DEF IsRom
    <2>4. last.name \in Names
      <3>1. last.name = <<>>
        BY <2>1 DEF NoSymbol
      <3>2. QED
        BY <3>1 DEF Names
    <2>5. QED
      BY <2>1, <2>3, <2>4 DEF IsSource
  <1>2. IsComment
    <2>1. anno \in Annos(OfOpcode)
      BY NothingTypes DEF Init, InitAnnotations, OfOpcode
    <2>2. /\ current \in [has : BOOLEAN, t : {"", "label", "opcode"}, addr : Shorts]
          /\ ~current.has
      BY Numbers DEF Init, InitAnnotations, Nothing
    <2>3. QED
      BY <2>1, <2>2 DEF IsComment
  <1>3. infos = <<>> /\ casts = <<>> /\ list = <<>> /\ DOMAIN <<>> = {}
    BY DEF Init, InitAnnotations
  <1>4. IsTables
    <2>1. IsTable(infos)
      BY <1>3 DEF IsTable
    <2>2. casts \in [DOMAIN casts -> PlainStacks]
      BY <1>3
    <2>3. list \in Seq(Entries(Len(nodes.heap), Marked(infos)))
      BY <1>3
    <2>4. QED
      BY <2>1, <2>2, <2>3 DEF IsTables
  <1>5. AreOwned(nodes, Used)
    <2>1. /\ nodes = [heap |-> <<>>, pool |-> <<>>, splits |-> 0] /\ Used = <<>>
          /\ Len(<<>>) = 0
      BY DEF Init, Used
    <2>2. nodes \in [heap : Seq(Kept(0)), pool : Seq(1 .. 0), splits : Nat]
          /\ Len(nodes.heap) = 0 /\ nodes.pool = <<>>
      BY <2>1
    <2>3. AreShared(0, <<>>, <<>>)
      BY DEF AreShared, Distinct, Disjoint
    <2>4. QED
      BY <2>1, <2>2, <2>3 DEF AreOwned
  <1>6. IsVerification
    BY <1>5 DEF IsVerification, IsRun, Init
  <1>7. QED
    BY <1>1, <1>2, <1>4, <1>6 DEF IInv

LEMMA Inductive ==
  ASSUME IInv, [Next]_vars
  PROVE  IInv'
  BY ReadingInv, BeginVerificationInv, StartInv, StepsInv, FinishInv, ConcludeInv, StutterInv
     DEF Next, Verify, Done

-----------------------------------------------------------------------------
(***************************************************************************)
(* What the invariant says.                                                *)
(***************************************************************************)
LEMMA NodesOwned ==
  ASSUME NEW n, NEW used, AreOwned(n, used)
  PROVE  /\ Len(n.heap) \in Nat /\ DOMAIN n.heap = 1 .. Len(n.heap)
         /\ \A i \in DOMAIN n.pool : n.pool[i] \in DOMAIN n.heap
         /\ \A i, j \in DOMAIN n.pool : i # j => n.pool[i] # n.pool[j]
         /\ \A i \in DOMAIN used : /\ used[i] \in DOMAIN n.heap
                                   /\ \A j \in DOMAIN n.pool : used[i] # n.pool[j]
  <1> DEFINE k == Len(n.heap)
  <1>1. /\ n.heap \in Seq(Kept(k)) /\ n.pool \in Seq(1 .. k) /\ used \in Seq(1 .. k)
        /\ Distinct(n.pool) /\ Disjoint(used, n.pool)
    BY DEF AreOwned, AreShared
  <1>2. k \in Nat /\ DOMAIN n.heap = 1 .. k
    BY <1>1
  <1> HIDE DEF k
  <1>3. /\ \A i \in DOMAIN n.pool : n.pool[i] \in 1 .. k
        /\ \A i \in DOMAIN used : used[i] \in 1 .. k
    <2> DEFINE S == 1 .. k
    <2> HIDE DEF S
    <2>1. n.pool \in Seq(S) /\ used \in Seq(S)
      BY <1>1 DEF S
    <2>2. (\A i \in DOMAIN n.pool : n.pool[i] \in S) /\ \A i \in DOMAIN used : used[i] \in S
      BY <2>1
    <2>3. QED
      BY <2>2 DEF S
  <1>4. QED
    BY <1>1, <1>2, <1>3 DEF Distinct, Disjoint, k

LEMMA InvTypeOK == IInv => TypeOK
  <1> SUFFICES ASSUME IInv
               PROVE  TypeOK
    OBVIOUS
  <1> DEFINE k == Len(nodes.heap)
  <1>1. /\ phase \in {"pass", "verify", "done"} /\ success \in BOOLEAN
        /\ doubts \subseteq {"cut", "recycled", "wide", "full", "forgotten", "back"}
    BY DEF IInv, IsVerification, Doubts
  <1>2. AreOwned(nodes, Used)
    BY DEF IInv, IsVerification
  <1>3. k \in Nat /\ DOMAIN nodes.heap = 1 .. k
    BY <1>2, NodesOwned
  <1>4. /\ \A i \in DOMAIN nodes.pool : nodes.pool[i] \in DOMAIN nodes.heap
        /\ \A i, j \in DOMAIN nodes.pool : i # j => nodes.pool[i] # nodes.pool[j]
    BY <1>2, NodesOwned
  <1> HIDE DEF k
  <1>5. Verified = Marked(infos)
    BY DEF Verified, Marked
  <1>6. Verified \subseteq {r \in DOMAIN infos : infos[r].routine}
    BY DEF IInv, IsTables, IsTable, Verified, Info
  <1>7. \A i \in DOMAIN list : list[i].info \in Verified
    <2>1. list \in Seq(Entries(k, Marked(infos)))
      BY DEF IInv, IsTables, k
    <2>2. \A i \in DOMAIN list : list[i] \in Entries(k, Marked(infos))
      <3> DEFINE E == Entries(k, Marked(infos))
      <3> HIDE DEF E
      <3>1. list \in Seq(E)
        BY <2>1 DEF E
      <3>2. \A i \in DOMAIN list : list[i] \in E
        BY <3>1
      <3>3. QED
        BY <3>2 DEF E
    <2>3. QED
      BY <1>5, <2>2 DEF Entries
  <1>8. ASSUME run # NoRun
        PROVE  /\ run.info \in Verified
               /\ run.pc \in 0 .. Short - 1
               /\ \A i \in DOMAIN run.used :
                    /\ run.used[i] \in DOMAIN nodes.heap
                    /\ \A j \in DOMAIN nodes.pool : run.used[i] # nodes.pool[j]
               /\ \A s \in Stacks : \A i \in DOMAIN run.st[s] :
                    LET val == run.st[s][i]
                    IN  /\ val.sem \subseteq Semantics
                        /\ val.v \in (IF "const" \in val.sem THEN 0 .. Short - 1 ELSE {0})
                        /\ val.whole \in (IF val.sem \intersect {"hi", "lo"} # {}
                                          THEN DOMAIN nodes.heap ELSE {0})
    <2>1. /\ run.info \in Marked(infos) /\ run.pc \in Shorts
          /\ run.st \in StacksOf(k)
      BY <1>8 DEF IInv, IsVerification, IsRun, k
    <2>2. Used = run.used
      BY <1>8 DEF Used
    <2>3. \A i \in DOMAIN run.used :
            /\ run.used[i] \in DOMAIN nodes.heap
            /\ \A j \in DOMAIN nodes.pool : run.used[i] # nodes.pool[j]
      BY <1>2, <2>2, NodesOwned
    <2>4. ASSUME NEW s \in Stacks, NEW i \in DOMAIN run.st[s]
          PROVE  run.st[s][i] \in Vals(k)
      <3> DEFINE V == Vals(k)
      <3> HIDE DEF V
      <3>1. run.st[s] \in Seq(V)
        BY <2>1 DEF StacksOf, V
      <3>2. run.st[s][i] \in V
        BY <2>4, <3>1
      <3>3. QED
        BY <3>2 DEF V
    <2>5. ASSUME NEW val \in Vals(k)
          PROVE  /\ val.sem \subseteq Semantics
                 /\ val.v \in (IF "const" \in val.sem THEN 0 .. Short - 1 ELSE {0})
                 /\ val.whole \in (IF val.sem \intersect {"hi", "lo"} # {}
                                   THEN DOMAIN nodes.heap ELSE {0})
      <3>1. /\ val.sem \subseteq Semantics /\ val.v \in Shorts /\ val.whole \in 0 .. k
            /\ ("const" \in val.sem \/ val.v = 0)
            /\ IF val.sem \intersect {"hi", "lo"} # {} THEN val.whole # 0 ELSE val.whole = 0
        BY <1>3, ValParts
      <3>2. val.whole # 0 => val.whole \in 1 .. k
        BY <1>3, <3>1
      <3>3. QED
        BY <1>3, <3>1, <3>2 DEF Shorts
    <2>6. QED
      BY <1>5, <2>1, <2>3, <2>4, <2>5 DEF Shorts
  <1>9. QED
    BY <1>1, <1>4, <1>6, <1>7, <1>8 DEF TypeOK

-----------------------------------------------------------------------------
\* Whatever the program, and however its routines are cast and called: a node
\* is never both free and in use, nor twice either; what is run, and what waits
\* to be run, was marked as a routine with a signature; a value that is not
\* known to be a constant carries none; and every half of a short that is on a
\* stack has a node with its whole (buxn_chess_value_t, chess.c).
THEOREM CheckerTypesAreKept == Spec => []TypeOK
  <1>1. Init => IInv
    BY InitInv
  <1>2. IInv /\ [Next]_vars => IInv'
    BY Inductive
  <1>3. IInv => TypeOK
    BY InvTypeOK
  <1>4. QED
    BY <1>1, <1>2, <1>3, PTL DEF Spec

-----------------------------------------------------------------------------
(***************************************************************************)
(* What a comment says.                                                    *)
(***************************************************************************)
\* The elements of a part of a sequence.
LEMMA PartExact ==
  ASSUME NEW S, NEW s \in Seq(S), NEW m \in Nat, NEW n \in Nat, m >= 1, m <= n + 1, n <= Len(s)
  PROVE  /\ SubSeq(s, m, n) \in Seq(S) /\ Len(SubSeq(s, m, n)) = n - m + 1
         /\ \A i \in 1 .. n - m + 1 : SubSeq(s, m, n)[i] = s[m + i - 1]
  <1>1. m \in Int /\ n \in Int /\ \A i \in m .. n : s[i] \in S
    OBVIOUS
  <1>2. /\ SubSeq(s, m, n) \in Seq(S)
        /\ Len(SubSeq(s, m, n)) = IF m <= n THEN n - m + 1 ELSE 0
        /\ \A i \in 1 .. n - m + 1 : SubSeq(s, m, n)[i] = s[m + i - 1]
    BY <1>1, SubSeqProperties
  <1> DEFINE part == SubSeq(s, m, n)
  <1> HIDE DEF part
  <1>3. QED
    BY <1>2 DEF part

\* What is added behind a part leaves it as it is.
LEMMA PartKept ==
  ASSUME NEW S, NEW s \in Seq(S), NEW x \in S,
         NEW m \in Nat, NEW n \in Nat, m >= 1, m <= n + 1, n <= Len(s)
  PROVE  SubSeq(Append(s, x), m, n) = SubSeq(s, m, n)
  <1> DEFINE t == Append(s, x)
  <1>1. t \in Seq(S) /\ Len(t) = Len(s) + 1 /\ \A i \in 1 .. Len(s) : t[i] = s[i]
    OBVIOUS
  <1>2. Len(s) \in Nat
    OBVIOUS
  <1> HIDE DEF t
  <1>3. /\ SubSeq(s, m, n) \in Seq(S) /\ Len(SubSeq(s, m, n)) = n - m + 1
        /\ \A i \in 1 .. n - m + 1 : SubSeq(s, m, n)[i] = s[m + i - 1]
    BY PartExact
  <1>4. /\ SubSeq(t, m, n) \in Seq(S) /\ Len(SubSeq(t, m, n)) = n - m + 1
        /\ \A i \in 1 .. n - m + 1 : SubSeq(t, m, n)[i] = t[m + i - 1]
    BY <1>1, <1>2, PartExact
  <1>5. \A i \in 1 .. n - m + 1 : m + i - 1 \in 1 .. Len(s)
    BY <1>2
  <1> DEFINE p == SubSeq(s, m, n)
             q == SubSeq(t, m, n)
  <1> HIDE DEF p, q
  <1>6. p = q
    BY <1>1, <1>3, <1>4, <1>5, SeqEqual DEF p, q
  <1>7. QED
    BY <1>6 DEF p, q, t

\* The last part grows.
LEMMA PartGrows ==
  ASSUME NEW S, NEW s \in Seq(S), NEW x \in S, NEW m \in 1 .. Len(s) + 1
  PROVE  SubSeq(Append(s, x), m, Len(s) + 1) = Append(SubSeq(s, m, Len(s)), x)
  <1> DEFINE t == Append(s, x)
             n == Len(s)
             p == SubSeq(s, m, n)
             q == SubSeq(t, m, n + 1)
             r == Append(p, x)
  <1>1. t \in Seq(S) /\ Len(t) = n + 1 /\ t[n + 1] = x /\ \A i \in 1 .. n : t[i] = s[i]
    OBVIOUS
  <1>2. n \in Nat /\ m \in Nat /\ m >= 1 /\ m <= n + 1 /\ m <= (n + 1) + 1 /\ n + 1 \in Nat
        /\ n <= Len(s) /\ n + 1 <= n + 1
    OBVIOUS
  <1> HIDE DEF t, n
  <1>3. p \in Seq(S) /\ Len(p) = n - m + 1 /\ \A i \in 1 .. n - m + 1 : p[i] = s[m + i - 1]
    BY <1>2, PartExact
  <1>4. /\ q \in Seq(S) /\ Len(q) = (n + 1) - m + 1
        /\ \A i \in 1 .. (n + 1) - m + 1 : q[i] = t[m + i - 1]
    BY <1>1, <1>2, PartExact
  <1> HIDE DEF p, q
  <1>5. /\ r \in Seq(S) /\ Len(r) = Len(p) + 1 /\ r[Len(p) + 1] = x
        /\ \A i \in 1 .. Len(p) : r[i] = p[i]
    BY <1>3
  <1> HIDE DEF r
  <1>6. Len(r) = Len(q)
    BY <1>2, <1>3, <1>4, <1>5
  <1>7. ASSUME NEW i \in 1 .. Len(q)
        PROVE  q[i] = r[i]
    <2>1. CASE i = n - m + 2
      <3>1. m + i - 1 = n + 1 /\ i = Len(p) + 1 /\ i \in 1 .. (n + 1) - m + 1
        BY <1>2, <1>3, <2>1
      <3>2. QED
        BY <1>1, <1>4, <1>5, <3>1
    <2>2. CASE i # n - m + 2
      <3>1. i \in 1 .. n - m + 1 /\ m + i - 1 \in 1 .. n /\ i \in 1 .. (n + 1) - m + 1
        BY <1>2, <1>4, <2>2
      <3>2. q[i] = t[m + i - 1] /\ r[i] = p[i] /\ p[i] = s[m + i - 1]
        BY <1>3, <1>4, <1>5, <3>1
      <3>3. QED
        BY <1>1, <3>1, <3>2
    <2>3. QED
      BY <2>1, <2>2
  <1>8. q = r
    BY <1>4, <1>5, <1>6, <1>7, SeqEqual
  <1>9. QED
    BY <1>8 DEF q, r, p, t, n

\* Values of tokens, one for each.
LEMMA ValuesExact ==
  ASSUME NEW s \in Seq(Tokens)
  PROVE  /\ Values(s) \in Seq(Plain) /\ Len(Values(s)) = Len(s)
         /\ \A tok \in Tokens : Values(Append(s, tok)) = Append(Values(s), ParseValue(tok))
  <1>1. ASSUME NEW t \in Seq(Tokens)
        PROVE  /\ Values(t) \in Seq(Plain) /\ Len(Values(t)) = Len(t)
               /\ \A i \in 1 .. Len(t) : Values(t)[i] = ParseValue(t[i])
    <2> DEFINE n == Len(t)
               v == Values(t)
    <2>1. n \in Nat /\ DOMAIN t = 1 .. n /\ \A i \in 1 .. n : t[i] \in Tokens
      OBVIOUS
    <2>2. v = [i \in 1 .. n |-> ParseValue(t[i])]
      BY <2>1 DEF Values
    <2>3. \A i \in 1 .. n : ParseValue(t[i]) \in Plain
      BY <2>1, ParsedType
    <2> HIDE DEF n
    <2>4. v \in [1 .. n -> Plain] /\ \A i \in 1 .. n : v[i] = ParseValue(t[i])
      BY <2>2, <2>3
    <2> HIDE DEF v
    <2>5. v \in Seq(Plain) /\ Len(v) = n
      BY <2>1, <2>4
    <2>6. QED
      BY <2>4, <2>5 DEF n, v
  <1>2. ASSUME NEW tok \in Tokens
        PROVE  Values(Append(s, tok)) = Append(Values(s), ParseValue(tok))
    <2> DEFINE t == Append(s, tok)
               v == Values(s)
               w == Values(t)
               u == Append(v, ParseValue(tok))
    <2>1. /\ t \in Seq(Tokens) /\ Len(t) = Len(s) + 1 /\ t[Len(s) + 1] = tok /\ Len(s) \in Nat
          /\ \A i \in 1 .. Len(s) : t[i] = s[i]
      OBVIOUS
    <2> HIDE DEF t
    <2>2. /\ v \in Seq(Plain) /\ Len(v) = Len(s) /\ \A i \in 1 .. Len(s) : v[i] = ParseValue(s[i])
          /\ w \in Seq(Plain) /\ Len(w) = Len(t) /\ \A i \in 1 .. Len(t) : w[i] = ParseValue(t[i])
      BY <1>1, <2>1
    <2>3. ParseValue(tok) \in Plain
      BY ParsedType
    <2> HIDE DEF v, w
    <2>4. u \in Seq(Plain) /\ Len(u) = Len(v) + 1 /\ u[Len(v) + 1] = ParseValue(tok)
          /\ \A i \in 1 .. Len(v) : u[i] = v[i]
      BY <2>2, <2>3
    <2> HIDE DEF u
    <2>5. ASSUME NEW i \in 1 .. Len(w)
          PROVE  w[i] = u[i]
      <3>1. i = Len(s) + 1 \/ i \in 1 .. Len(s)
        BY <2>1, <2>2
      <3>2. QED
        BY <2>1, <2>2, <2>4, <3>1
    <2>6. w = u
      BY <2>1, <2>2, <2>4, <2>5, SeqEqual
    <2>7. QED
      BY <2>6 DEF w, u, v, t
  <1>3. QED
    BY <1>1, <1>2

-----------------------------------------------------------------------------
\* What ends a stack of values.
Marks == {".", "!", "--", "->"}
Unmarked(toks) == \A k \in 1 .. Len(toks) : toks[k].mark \notin Marks

\* A side of a signature so far: one stack, or both with the dot between them.
DotAt(toks, d) ==
  /\ toks[d].mark = "." /\ \A k \in 1 .. Len(toks) : k # d => toks[k].mark \notin Marks
  /\ d - 1 <= MaxArgs /\ Len(toks) - d <= MaxArgs

Around(toks, d) == <<SubSeq(toks, 1, d - 1), SubSeq(toks, d + 1, Len(toks))>>

IsSide(toks, place, st) ==
  \/ place = "ws" /\ Unmarked(toks) /\ Len(toks) <= MaxArgs /\ st = OnStacks(<<toks, <<>>>>)
  \/ place = "rs" /\ \E d \in 1 .. Len(toks) : DotAt(toks, d) /\ st = OnStacks(Around(toks, d))

\* What is around a dot, or anything else.
LEMMA AroundExact ==
  ASSUME NEW toks \in Seq(Tokens), NEW d \in 1 .. Len(toks)
  PROVE  LET a == Around(toks, d)[1]
             b == Around(toks, d)[2]
         IN  /\ a \in Seq(Tokens) /\ Len(a) = d - 1 /\ \A k \in 1 .. d - 1 : a[k] = toks[k]
             /\ b \in Seq(Tokens) /\ Len(b) = Len(toks) - d
             /\ \A k \in 1 .. Len(toks) - d : b[k] = toks[d + k]
  <1> DEFINE n == Len(toks)
             a == SubSeq(toks, 1, d - 1)
             b == SubSeq(toks, d + 1, n)
  <1>1. n \in Nat /\ d \in Nat /\ d >= 1 /\ d <= n /\ d - 1 \in Nat /\ d + 1 \in Nat /\ d + 1 >= 1
        /\ d + 1 <= n + 1 /\ 1 <= (d - 1) + 1 /\ d - 1 <= n /\ 1 \in Nat /\ n <= Len(toks)
    OBVIOUS
  <1>2. /\ a \in Seq(Tokens) /\ Len(a) = (d - 1) - 1 + 1
        /\ \A k \in 1 .. (d - 1) - 1 + 1 : a[k] = toks[1 + k - 1]
    BY <1>1, PartExact
  <1>3. /\ b \in Seq(Tokens) /\ Len(b) = n - (d + 1) + 1
        /\ \A k \in 1 .. n - (d + 1) + 1 : b[k] = toks[(d + 1) + k - 1]
    BY <1>1, PartExact
  <1>4. Around(toks, d)[1] = a /\ Around(toks, d)[2] = b
    BY DEF Around
  <1> HIDE DEF a, b
  <1>5. \A k \in 1 .. d - 1 : a[k] = toks[k]
    <2>1. \A k \in 1 .. d - 1 : k \in 1 .. (d - 1) - 1 + 1 /\ 1 + k - 1 = k
      BY <1>1
    <2>2. QED
      BY <1>2, <2>1
  <1>6. \A k \in 1 .. n - d : b[k] = toks[d + k]
    <2>1. \A k \in 1 .. n - d : k \in 1 .. n - (d + 1) + 1 /\ (d + 1) + k - 1 = d + k
      BY <1>1
    <2>2. QED
      BY <1>3, <2>1
  <1>7. Len(a) = d - 1 /\ Len(b) = n - d
    BY <1>1, <1>2, <1>3
  <1> HIDE DEF n
  <1>8. QED
    BY <1>2, <1>3, <1>4, <1>5, <1>6, <1>7 DEF n

\* The sides a text is: the one that is a stack, and those around its dots.
LEMMA SidesAre ==
  ASSUME NEW toks \in Seq(Tokens), NEW x
  PROVE  x \in Sides(toks) <=>
           \/ x = <<toks, <<>>>> /\ Unmarked(toks) /\ Len(toks) <= MaxArgs
           \/ \E d \in 1 .. Len(toks) : x = Around(toks, d) /\ DotAt(toks, d)
  <1> DEFINE Good1(y) == \A s \in {1, 2} : At(y[s], {".", "!", "--", "->"}) = {} /\ Len(y[s]) <= MaxArgs
  <1>1. DOMAIN toks = 1 .. Len(toks) /\ Len(toks) \in Nat
    OBVIOUS
  <1>2. x \in Sides(toks) <=> /\ x = <<toks, <<>>>> \/ \E d \in At(toks, {"."}) : x = Around(toks, d)
                              /\ Good1(x)
    BY DEF Sides, Around
  <1>3. ASSUME NEW s \in Seq(Tokens)
        PROVE  At(s, {".", "!", "--", "->"}) = {} <=> Unmarked(s)
    BY DEF At, Unmarked, Marks
  <1>4. ASSUME x = <<toks, <<>>>>
        PROVE  Good1(x) <=> Unmarked(toks) /\ Len(toks) <= MaxArgs
    <2>1. x[1] = toks /\ x[2] = <<>> /\ <<>> \in Seq(Tokens) /\ Len(<<>>) = 0
      BY <1>4
    <2>2. Unmarked(<<>>) /\ 0 <= MaxArgs
      BY MaxArgsAssumption DEF Unmarked
    <2>3. QED
      BY <1>3, <2>1, <2>2
  <1>5. ASSUME NEW d \in 1 .. Len(toks), x = Around(toks, d)
        PROVE  d \in At(toks, {"."}) /\ Good1(x) <=> DotAt(toks, d)
    <2> DEFINE n == Len(toks)
    <2>1. /\ x[1] \in Seq(Tokens) /\ Len(x[1]) = d - 1 /\ \A k \in 1 .. d - 1 : x[1][k] = toks[k]
          /\ x[2] \in Seq(Tokens) /\ Len(x[2]) = n - d
          /\ \A k \in 1 .. n - d : x[2][k] = toks[d + k]
      BY <1>5, AroundExact
    <2>2. Good1(x) <=> /\ Unmarked(x[1]) /\ d - 1 <= MaxArgs
                       /\ Unmarked(x[2]) /\ n - d <= MaxArgs
      BY <1>3, <2>1
    <2>3. d \in At(toks, {"."}) <=> toks[d].mark = "."
      BY <1>1 DEF At
    <2>4. Unmarked(x[1]) /\ Unmarked(x[2])
            <=> \A k \in 1 .. n : k # d => toks[k].mark \notin Marks
      <3>1. Unmarked(x[1]) <=> \A k \in 1 .. d - 1 : toks[k].mark \notin Marks
        BY <2>1 DEF Unmarked
      <3>2. Unmarked(x[2]) <=> \A k \in 1 .. n - d : toks[d + k].mark \notin Marks
        BY <2>1 DEF Unmarked
      <3>3. (\A k \in 1 .. n - d : toks[d + k].mark \notin Marks)
              <=> \A k \in d + 1 .. n : toks[k].mark \notin Marks
        <4>1. \A k \in d + 1 .. n : k - d \in 1 .. n - d /\ d + (k - d) = k
          BY <1>1
        <4>2. \A k \in 1 .. n - d : d + k \in d + 1 .. n
          BY <1>1
        <4>3. QED
          BY <4>1, <4>2
      <3>4. \A k : k \in 1 .. n /\ k # d <=> k \in 1 .. d - 1 \/ k \in d + 1 .. n
        BY <1>1
      <3>5. QED
        BY <3>1, <3>2, <3>3, <3>4
    <2>5. QED
      BY <2>2, <2>3, <2>4 DEF DotAt
  <1> HIDE DEF Good1
  <1>6. \A d \in At(toks, {"."}) : d \in 1 .. Len(toks)
    BY <1>1 DEF At
  <1>7. QED
    BY <1>2, <1>4, <1>5, <1>6

\* A side is one in one way.
LEMMA SideExact ==
  ASSUME NEW toks \in Seq(Tokens), NEW place, NEW st, IsSide(toks, place, st)
  PROVE  \E x : Sides(toks) = {x} /\ st = OnStacks(x)
  <1>1. CASE place = "ws" /\ Unmarked(toks) /\ Len(toks) <= MaxArgs /\ st = OnStacks(<<toks, <<>>>>)
    <2>1. \A d \in 1 .. Len(toks) : ~DotAt(toks, d)
      BY <1>1 DEF Unmarked, DotAt, Marks
    <2>2. Sides(toks) = {<<toks, <<>>>>}
      BY <1>1, <2>1, SidesAre
    <2>3. QED
      BY <1>1, <2>2
  <1>2. ASSUME NEW d \in 1 .. Len(toks), DotAt(toks, d), st = OnStacks(Around(toks, d))
        PROVE  \E x : Sides(toks) = {x} /\ st = OnStacks(x)
    <2>1. ~Unmarked(toks)
      BY <1>2 DEF Unmarked, DotAt, Marks
    <2>2. \A e \in 1 .. Len(toks) : DotAt(toks, e) => e = d
      BY <1>2 DEF DotAt, Marks
    <2>3. Sides(toks) = {Around(toks, d)}
      BY <1>2, <2>1, <2>2, SidesAre
    <2>4. QED
      BY <1>2, <2>3
  <1>3. QED
    BY <1>1, <1>2 DEF IsSide

\* A side has one dot at most, no other marks, and no more values in a row
\* than a stack has arguments.
LEMMA SidesHave ==
  ASSUME NEW toks \in Seq(Tokens), Sides(toks) # {}
  PROVE  /\ \A k \in 1 .. Len(toks) : toks[k].mark \notin Marks \ {"."}
         /\ \A k, l \in 1 .. Len(toks) : toks[k].mark = "." /\ toks[l].mark = "." => k = l
         /\ \A k \in 1 .. Len(toks) :
              k + MaxArgs <= Len(toks) => \E l \in k .. k + MaxArgs : toks[l].mark = "."
         /\ Len(toks) <= 2 * MaxArgs + 1
  <1> DEFINE n == Len(toks)
  <1>1. n \in Nat /\ MaxArgs \in Nat
    BY MaxArgsAssumption
  <1>2. \/ Unmarked(toks) /\ n <= MaxArgs
        \/ \E d \in 1 .. n : DotAt(toks, d)
    BY SidesAre
  <1>3. CASE Unmarked(toks) /\ n <= MaxArgs
    <2>1. \A k \in 1 .. n : ~(k + MaxArgs <= n)
      BY <1>1, <1>3
    <2>2. QED
      BY <1>1, <1>3, <2>1 DEF Unmarked, Marks
  <1>4. ASSUME NEW d \in 1 .. n, DotAt(toks, d)
        PROVE  /\ \A k \in 1 .. n : toks[k].mark \notin Marks \ {"."}
               /\ \A k, l \in 1 .. n : toks[k].mark = "." /\ toks[l].mark = "." => k = l
               /\ \A k \in 1 .. n : k + MaxArgs <= n => \E l \in k .. k + MaxArgs : toks[l].mark = "."
               /\ n <= 2 * MaxArgs + 1
    <2>1. /\ toks[d].mark = "." /\ \A k \in 1 .. n : k # d => toks[k].mark \notin Marks
          /\ d - 1 <= MaxArgs /\ n - d <= MaxArgs
      BY <1>4 DEF DotAt
    <2> HIDE DEF n
    <2>2. \A k \in 1 .. n : k + MaxArgs <= n => d \in k .. k + MaxArgs
      BY <1>1, <2>1
    <2>3. QED
      BY <1>1, <2>1, <2>2 DEF Marks
  <1>5. QED
    BY <1>2, <1>3, <1>4

-----------------------------------------------------------------------------
\* The text of a signature: without the seal, if there is one.
HasSeal(toks) == toks # <<>> /\ Last(toks).mark = "!"
TextOf(toks) == IF HasSeal(toks) THEN Front(toks) ELSE toks

LEMMA TextExact ==
  ASSUME NEW toks \in Seq(Tokens)
  PROVE  /\ TextOf(toks) \in Seq(Tokens)
         /\ Len(TextOf(toks)) = Len(toks) - (IF HasSeal(toks) THEN 1 ELSE 0)
         /\ \A k \in 1 .. Len(TextOf(toks)) : k \in 1 .. Len(toks) /\ TextOf(toks)[k] = toks[k]
         /\ HasSeal(toks) => Len(toks) >= 1 /\ toks[Len(toks)].mark = "!"
  <1>1. CASE HasSeal(toks)
    <2>1. /\ Len(toks) \in Nat /\ Len(toks) >= 1
          /\ Front(toks) \in Seq(Tokens) /\ Len(Front(toks)) = Len(toks) - 1
          /\ \A i \in 1 .. Len(toks) - 1 : Front(toks)[i] = toks[i]
          /\ Last(toks) = toks[Len(toks)]
      BY <1>1, FrontLast DEF HasSeal
    <2> DEFINE f == Front(toks)
               n == Len(toks)
    <2>2. TextOf(toks) = f /\ toks[n].mark = "!"
      BY <1>1, <2>1 DEF TextOf, HasSeal
    <2> HIDE DEF f
    <2>3. \A k \in 1 .. n - 1 : k \in 1 .. n
      OBVIOUS
    <2>4. QED
      BY <1>1, <2>1, <2>2, <2>3 DEF f
  <1>2. CASE ~HasSeal(toks)
    <2>1. TextOf(toks) = toks /\ Len(toks) - 0 = Len(toks)
      BY <1>2 DEF TextOf
    <2>2. QED
      BY <1>2, <2>1
  <1>3. QED
    BY <1>1, <1>2

\* The two sides of an arrow.
UpTo(text, i) == SubSeq(text, 1, i - 1)
Beyond(text, i) == SubSeq(text, i + 1, Len(text))

LEMMA AroundArrow ==
  ASSUME NEW text \in Seq(Tokens), NEW i \in 1 .. Len(text)
  PROVE  /\ UpTo(text, i) \in Seq(Tokens) /\ Len(UpTo(text, i)) = i - 1
         /\ \A k \in 1 .. i - 1 : UpTo(text, i)[k] = text[k]
         /\ Beyond(text, i) \in Seq(Tokens) /\ Len(Beyond(text, i)) = Len(text) - i
         /\ \A k \in 1 .. Len(text) - i : Beyond(text, i)[k] = text[i + k]
  BY AroundExact DEF Around, UpTo, Beyond

TypeBy(tok) == IF tok.mark = "--" THEN "subroutine" ELSE "vector"

Signature(sealed, type, in, out) ==
  [sealed |-> sealed, sig |-> [type |-> type, in |-> OnStacks(in), out |-> OnStacks(out)]]

LEMMA SignaturesAre ==
  ASSUME NEW toks \in Seq(Tokens), NEW x
  PROVE  LET text == TextOf(toks)
         IN  x \in Signatures(toks) <=>
               \E i \in 1 .. Len(text) :
                 /\ text[i].mark \in Arrows /\ HasRoom(toks, i - 1)
                 /\ \E in \in Sides(UpTo(text, i)), out \in Sides(Beyond(text, i)) :
                      x = Signature(HasSeal(toks), TypeBy(text[i]), in, out)
  <1> DEFINE text == TextOf(toks)
             From(i) == {Signature(HasSeal(toks), TypeBy(text[i]), in, out) :
                           in \in Sides(UpTo(text, i)), out \in Sides(Beyond(text, i))}
             is == {k \in At(text, Arrows) : HasRoom(toks, k - 1)}
  <1>1. DOMAIN text = 1 .. Len(text)
    BY TextExact
  <1>2. Signatures(toks) = UNION {From(i) : i \in is}
    BY DEF Signatures, TextOf, HasSeal, Signature, TypeBy, UpTo, Beyond
  <1>3. \A i : i \in is <=> i \in 1 .. Len(text) /\ text[i].mark \in Arrows /\ HasRoom(toks, i - 1)
    BY <1>1 DEF At
  <1>4. \A i : x \in From(i) <=>
          \E in \in Sides(UpTo(text, i)), out \in Sides(Beyond(text, i)) :
             x = Signature(HasSeal(toks), TypeBy(text[i]), in, out)
    OBVIOUS
  <1>5. x \in Signatures(toks) <=> \E i \in is : x \in From(i)
    <2> HIDE DEF From, is
    <2> QED
      BY <1>2
  <1> HIDE DEF From, is, text
  <1>6. QED
    BY <1>3, <1>4, <1>5 DEF text

\* Why a text has no meaning, and none that begins with it has.
Obstructed(t, toks) ==
  \/ \E k \in 1 .. Len(toks) : k < Len(toks) /\ toks[k].mark = "!"
  \/ \E k, l \in 1 .. Len(toks) :
       /\ k < l /\ toks[k].mark = "." /\ toks[l].mark = "."
       /\ \A j \in k .. l : toks[j].mark \notin Arrows
  \/ \E k \in 1 .. Len(toks) :
       k + MaxArgs <= Len(toks) /\ \A j \in k .. k + MaxArgs : toks[j].mark \notin Marks
  \/ /\ t = "label"
     /\ \E k, l \in 1 .. Len(toks) : k < l /\ toks[k].mark \in Arrows /\ toks[l].mark \in Arrows
  \/ /\ t = "label"
     /\ \E k \in 1 .. Len(toks) : ~HasRoom(toks, k) /\ \A j \in 1 .. k : toks[j].mark \notin Arrows
  \/ t # "label" /\ \E k \in 1 .. Len(toks) : toks[k].mark \in Arrows
  \/ /\ t # "label"
     /\ \E k \in 1 .. Len(toks) : ~HasRoom(toks, k) /\ \A j \in 1 .. k : toks[j].mark # "!"

LEMMA ArgsType == MaxArgs \in Nat
  BY MaxArgsAssumption

\* How many characters the first tokens have, with the one that ends each.
Chars(toks) == Total([i \in DOMAIN toks |-> toks[i].len + 1])

LEMMA TokenLength == \A tok \in Tokens : tok.len \in Nat
  BY DEF Tokens

LEMMA CharsExact ==
  ASSUME NEW toks \in Seq(Tokens)
  PROVE  /\ Chars(toks)[0] = 0
         /\ \A n \in 0 .. Len(toks) : Chars(toks)[n] \in Nat
         /\ \A n \in 1 .. Len(toks) : Chars(toks)[n] = Chars(toks)[n - 1] + (toks[n].len + 1)
  <1> DEFINE widths == [i \in DOMAIN toks |-> toks[i].len + 1]
  <1>1. DOMAIN toks = 1 .. Len(toks) /\ Len(toks) \in Nat /\ \A i \in 1 .. Len(toks) : toks[i] \in Tokens
    OBVIOUS
  <1>2. \A i \in 1 .. Len(toks) : toks[i].len + 1 \in Nat
    BY <1>1, TokenLength
  <1>3. /\ widths \in Seq(Nat) /\ Len(widths) = Len(toks)
        /\ \A i \in 1 .. Len(toks) : widths[i] = toks[i].len + 1
    BY <1>1, <1>2
  <1>4. Chars(toks) = Total(widths)
    BY DEF Chars
  <1> HIDE DEF widths
  <1>5. QED
    BY <1>3, <1>4, TotalExact

LEMMA RoomIs ==
  ASSUME NEW toks, NEW n
  PROVE  HasRoom(toks, n) <=> n <= MaxTokens /\ Chars(toks)[n] <= MaxChars
  BY DEF HasRoom, Chars

\* There is room for no token, for fewer than there is, and it does not matter
\* which come after them.
LEMMA RoomNothing == HasRoom(<<>>, 0)
  <1>1. <<>> \in Seq(Tokens)
    OBVIOUS
  <1>2. Chars(<<>>)[0] = 0
    BY <1>1, CharsExact
  <1>3. MaxTokens \in Nat /\ 0 <= MaxTokens
    BY MaxArgsAssumption DEF MaxTokens
  <1>4. 0 <= MaxChars
    <2> HIDE DEF MaxTokens
    <2> QED
      BY <1>3, MaxArgsAssumption DEF MaxChars
  <1>5. QED
    BY <1>2, <1>3, <1>4, RoomIs

LEMMA RoomLess ==
  ASSUME NEW toks \in Seq(Tokens), NEW n \in 0 .. Len(toks), NEW m \in 0 .. n, HasRoom(toks, n)
  PROVE  HasRoom(toks, m)
  <1> DEFINE c == Chars(toks)
             M == {k \in m .. n : c[m] <= c[k]}
  <1>1. /\ \A k \in 0 .. Len(toks) : c[k] \in Nat
        /\ \A k \in 1 .. Len(toks) : c[k] = c[k - 1] + (toks[k].len + 1)
    BY CharsExact
  <1>2. Len(toks) \in Nat /\ \A k \in 1 .. Len(toks) : toks[k].len \in Nat
    <2>1. \A k \in 1 .. Len(toks) : toks[k] \in Tokens
      OBVIOUS
    <2>2. QED
      BY <2>1, TokenLength
  <1> HIDE DEF c
  <1>3. m \in M
    BY <1>1, <1>2
  <1>4. ASSUME NEW k \in m .. n, k \in M, k + 1 <= n
        PROVE  k + 1 \in M
    <2>1. k + 1 \in 1 .. Len(toks) /\ (k + 1) - 1 = k /\ k \in 0 .. Len(toks) /\ m \in 0 .. Len(toks)
      BY <1>2, <1>4
    <2>2. c[k + 1] = c[k] + (toks[k + 1].len + 1) /\ c[k] \in Nat /\ c[m] \in Nat
      BY <1>1, <2>1
    <2>3. c[m] <= c[k + 1]
      BY <1>2, <1>4, <2>1, <2>2
    <2>4. QED
      BY <1>4, <2>1, <2>3
  <1>5. m .. n \subseteq M
    <2> HIDE DEF M
    <2>1. m \in Int /\ n \in Int
      BY <1>2
    <2>2. QED
      BY <1>3, <1>4, <2>1, Upwards
  <1>6. c[m] <= c[n] /\ c[m] \in Nat /\ c[n] \in Nat
    BY <1>1, <1>2, <1>5
  <1>7. n <= MaxTokens /\ c[n] <= MaxChars
    BY RoomIs DEF c
  <1>8. MaxTokens \in Nat
    BY MaxArgsAssumption DEF MaxTokens
  <1>9. MaxChars \in Nat
    <2> HIDE DEF MaxTokens
    <2> QED
      BY <1>8, MaxArgsAssumption DEF MaxChars
  <1>10. m <= MaxTokens /\ c[m] <= MaxChars
    BY <1>2, <1>6, <1>7, <1>8, <1>9
  <1>11. QED
    BY <1>10, RoomIs DEF c

LEMMA RoomStays ==
  ASSUME NEW toks \in Seq(Tokens), NEW tok \in Tokens, NEW n \in 0 .. Len(toks)
  PROVE  HasRoom(Append(toks, tok), n) <=> HasRoom(toks, n)
  <1> DEFINE more == Append(toks, tok)
             N == Len(toks)
             M == {k \in 0 .. N : Chars(more)[k] = Chars(toks)[k]}
  <1>1. /\ N \in Nat /\ more \in Seq(Tokens) /\ Len(more) = N + 1
        /\ \A k \in 1 .. N : more[k] = toks[k] /\ k \in 1 .. N + 1
    OBVIOUS
  <1> HIDE DEF more, N
  <1>2. /\ Chars(more)[0] = 0
        /\ \A k \in 1 .. N : Chars(more)[k] = Chars(more)[k - 1] + (toks[k].len + 1)
    BY <1>1, CharsExact
  <1>3. /\ Chars(toks)[0] = 0
        /\ \A k \in 1 .. N : Chars(toks)[k] = Chars(toks)[k - 1] + (toks[k].len + 1)
    BY CharsExact DEF N
  <1>4. 0 \in M
    BY <1>1, <1>2, <1>3
  <1>5. ASSUME NEW k \in 0 .. N, k \in M, k + 1 <= N
        PROVE  k + 1 \in M
    <2>1. k + 1 \in 1 .. N /\ k + 1 \in 0 .. N /\ (k + 1) - 1 = k
      BY <1>1, <1>5
    <2>2. Chars(more)[k + 1] = Chars(toks)[k + 1]
      BY <1>2, <1>3, <1>5, <2>1
    <2>3. QED
      BY <2>1, <2>2
  <1>6. 0 .. N \subseteq M
    <2> HIDE DEF M
    <2>1. 0 \in Int /\ N \in Int
      BY <1>1
    <2>2. QED
      BY <1>4, <1>5, <2>1, Upwards
  <1>7. Chars(more)[n] = Chars(toks)[n]
    BY <1>6 DEF N
  <1>8. QED
    BY <1>7, RoomIs DEF more

LEMMA ObstructedStays ==
  ASSUME NEW t, NEW toks \in Seq(Tokens), NEW tok \in Tokens, Obstructed(t, toks)
  PROVE  Obstructed(t, Append(toks, tok))
  <1> DEFINE n == Len(toks)
             more == Append(toks, tok)
  <1>1. n \in Nat /\ Len(more) = n + 1 /\ \A k \in 1 .. n : more[k] = toks[k] /\ k \in 1 .. n + 1
    OBVIOUS
  <1> HIDE DEF more
  <1>2. CASE \E k \in 1 .. n : k < n /\ toks[k].mark = "!"
    BY <1>1, <1>2 DEF Obstructed
  <1>3. CASE \E k, l \in 1 .. n : /\ k < l /\ toks[k].mark = "." /\ toks[l].mark = "."
                                  /\ \A j \in k .. l : toks[j].mark \notin Arrows
    <2>1. PICK k \in 1 .. n, l \in 1 .. n : /\ k < l /\ toks[k].mark = "." /\ toks[l].mark = "."
                                            /\ \A j \in k .. l : toks[j].mark \notin Arrows
      BY <1>3
    <2>2. \A j \in k .. l : j \in 1 .. n
      BY <1>1, <2>1
    <2>3. QED
      BY <1>1, <2>1, <2>2 DEF Obstructed
  <1>4. CASE \E k \in 1 .. n : k + MaxArgs <= n /\ \A j \in k .. k + MaxArgs : toks[j].mark \notin Marks
    <2>1. PICK k \in 1 .. n : k + MaxArgs <= n /\ \A j \in k .. k + MaxArgs : toks[j].mark \notin Marks
      BY <1>4
    <2>2. \A j \in k .. k + MaxArgs : j \in 1 .. n
      BY <1>1, <2>1, ArgsType
    <2>3. k + MaxArgs <= n + 1 /\ k \in 1 .. n + 1
      BY <1>1, <2>1, ArgsType
    <2>4. QED
      BY <1>1, <2>1, <2>2, <2>3 DEF Obstructed
  <1>5. CASE /\ t = "label"
             /\ \E k, l \in 1 .. n : k < l /\ toks[k].mark \in Arrows /\ toks[l].mark \in Arrows
    BY <1>1, <1>5 DEF Obstructed
  <1>6. CASE t # "label" /\ \E k \in 1 .. n : toks[k].mark \in Arrows
    BY <1>1, <1>6 DEF Obstructed
  <1>7. CASE \E k \in 1 .. n : /\ ~HasRoom(toks, k)
                              /\ \/ t = "label" /\ \A j \in 1 .. k : toks[j].mark \notin Arrows
                                 \/ t # "label" /\ \A j \in 1 .. k : toks[j].mark # "!"
    <2>1. PICK k \in 1 .. n : /\ ~HasRoom(toks, k)
                              /\ \/ t = "label" /\ \A j \in 1 .. k : toks[j].mark \notin Arrows
                                 \/ t # "label" /\ \A j \in 1 .. k : toks[j].mark # "!"
      BY <1>7
    <2>2. ~HasRoom(more, k)
      BY <1>1, <2>1, RoomStays DEF more
    <2>3. \A j \in 1 .. k : j \in 1 .. n
      BY <1>1
    <2>4. QED
      BY <1>1, <2>1, <2>2, <2>3 DEF Obstructed, more
  <1>8. QED
    BY <1>2, <1>3, <1>4, <1>5, <1>6, <1>7 DEF Obstructed

\* A signature has one arrow, not too far behind, a seal at most at its end, no
\* two dots on a side, and no more values in a row than a stack has arguments.
LEMMA SignatureHas ==
  ASSUME NEW toks \in Seq(Tokens), Signatures(toks) # {}
  PROVE  \E i \in 1 .. Len(toks) :
           /\ toks[i].mark \in Arrows /\ HasRoom(toks, i - 1)
           /\ \A k \in 1 .. Len(toks) : k # i => toks[k].mark \notin Arrows
           /\ \A k \in 1 .. Len(toks) : toks[k].mark = "!" => k = Len(toks)
           /\ \A k, l \in 1 .. Len(toks) :
                k < l /\ toks[k].mark = "." /\ toks[l].mark = "." => k < i /\ i < l
           /\ \A k \in 1 .. Len(toks) :
                k + MaxArgs <= Len(toks) => \E l \in k .. k + MaxArgs : toks[l].mark \in Marks
  <1> DEFINE n == Len(toks)
             text == TextOf(toks)
             m == Len(text)
  <1>1. /\ text \in Seq(Tokens) /\ m = n - (IF HasSeal(toks) THEN 1 ELSE 0)
        /\ \A k \in 1 .. m : k \in 1 .. n /\ text[k] = toks[k]
        /\ HasSeal(toks) => n >= 1 /\ toks[n].mark = "!"
    BY TextExact
  <1>2. n \in Nat /\ m \in Nat /\ MaxArgs \in Nat
    BY <1>1, ArgsType
  <1>3. PICK i \in 1 .. m : /\ text[i].mark \in Arrows /\ HasRoom(toks, i - 1)
                            /\ Sides(UpTo(text, i)) # {} /\ Sides(Beyond(text, i)) # {}
    BY SignaturesAre
  <1> HIDE DEF text
  <1> DEFINE a == UpTo(text, i)
             b == Beyond(text, i)
  <1>4. /\ a \in Seq(Tokens) /\ Len(a) = i - 1 /\ \A k \in 1 .. i - 1 : a[k] = text[k]
        /\ b \in Seq(Tokens) /\ Len(b) = m - i /\ \A k \in 1 .. m - i : b[k] = text[i + k]
    BY <1>1, AroundArrow
  <1>5. /\ \A k \in 1 .. Len(a) : a[k].mark \notin Marks \ {"."}
        /\ \A k, l \in 1 .. Len(a) : a[k].mark = "." /\ a[l].mark = "." => k = l
        /\ \A k \in 1 .. Len(a) : k + MaxArgs <= Len(a) => \E l \in k .. k + MaxArgs : a[l].mark = "."
    BY <1>3, <1>4, SidesHave
  <1>6. /\ \A k \in 1 .. Len(b) : b[k].mark \notin Marks \ {"."}
        /\ \A k, l \in 1 .. Len(b) : b[k].mark = "." /\ b[l].mark = "." => k = l
        /\ \A k \in 1 .. Len(b) : k + MaxArgs <= Len(b) => \E l \in k .. k + MaxArgs : b[l].mark = "."
    BY <1>3, <1>4, SidesHave
  <1> HIDE DEF a, b, m, n
  <1>7. ASSUME NEW k \in 1 .. i - 1
        PROVE  k \in 1 .. n /\ a[k] = toks[k] /\ k \in 1 .. Len(a)
    <2>1. k \in 1 .. m
      BY <1>2
    <2>2. k \in 1 .. n /\ text[k] = toks[k]
      BY <1>1, <2>1
    <2>3. a[k] = text[k] /\ Len(a) = i - 1
      BY <1>4
    <2>4. QED
      BY <2>2, <2>3
  <1>8. ASSUME NEW k \in i + 1 .. m
        PROVE  k - i \in 1 .. Len(b) /\ b[k - i] = toks[k]
    <2>1. k - i \in 1 .. m - i /\ i + (k - i) = k /\ k \in 1 .. m
      BY <1>2
    <2>2. QED
      BY <1>1, <1>4, <2>1
  <1>9. \A k \in 1 .. n : \/ k \in 1 .. i - 1 \/ k = i \/ k \in i + 1 .. m
                         \/ (k = n /\ m # n /\ toks[k].mark = "!")
    <2>1. m = n \/ (m = n - 1 /\ toks[n].mark = "!")
      BY <1>1, <1>2
    <2>2. \A k \in 1 .. n : k \in 1 .. m \/ k = n
      BY <1>2, <2>1
    <2>3. QED
      BY <1>2, <2>1, <2>2
  <1>10. i \in 1 .. n /\ toks[i].mark \in Arrows /\ HasRoom(toks, i - 1)
    BY <1>1, <1>3
  <1>11. \A k \in 1 .. n : k # i => toks[k].mark \notin Arrows
    BY <1>5, <1>6, <1>7, <1>8, <1>9 DEF Marks, Arrows
  <1>12. \A k \in 1 .. n : toks[k].mark = "!" => k = n
    BY <1>5, <1>6, <1>7, <1>8, <1>9, <1>10 DEF Marks, Arrows
  <1>13. ASSUME NEW k \in 1 .. n, NEW l \in 1 .. n, k < l, toks[k].mark = ".", toks[l].mark = "."
         PROVE  k < i /\ i < l
    <2>1. ~(k \in 1 .. i - 1 /\ l \in 1 .. i - 1)
      BY <1>5, <1>7, <1>13
    <2>2. ~(k \in i + 1 .. m /\ l \in i + 1 .. m)
      <3>1. SUFFICES ASSUME k \in i + 1 .. m, l \in i + 1 .. m
                     PROVE  FALSE
        OBVIOUS
      <3>2. k - i = l - i
        BY <1>6, <1>8, <1>13, <3>1
      <3>3. QED
        BY <1>2, <1>13, <3>2
    <2>3. k # i /\ l # i /\ (k \in 1 .. i - 1 \/ k \in i + 1 .. m) /\ (l \in 1 .. i - 1 \/ l \in i + 1 .. m)
      BY <1>9, <1>10, <1>13 DEF Arrows
    <2>4. QED
      BY <1>2, <1>13, <2>1, <2>2, <2>3
  <1>14. ASSUME NEW k \in 1 .. n, k + MaxArgs <= n
         PROVE  \E l \in k .. k + MaxArgs : toks[l].mark \in Marks
    <2>1. CASE k + MaxArgs = n /\ m # n
      <3>1. toks[n].mark = "!" /\ n \in k .. k + MaxArgs
        BY <1>1, <1>2, <2>1
      <3>2. QED
        BY <3>1 DEF Marks
    <2>2. CASE i \in k .. k + MaxArgs
      BY <1>10, <2>2 DEF Marks, Arrows
    <2>3. CASE k + MaxArgs <= i - 1
      <3>1. PICK l \in k .. k + MaxArgs : a[l].mark = "."
        <4>1. k \in 1 .. Len(a) /\ k + MaxArgs <= Len(a)
          BY <1>2, <1>4, <2>3
        <4>2. QED
          BY <1>5, <4>1
      <3>2. l \in 1 .. i - 1
        BY <1>2, <2>3
      <3>3. QED
        BY <1>7, <3>1, <3>2 DEF Marks
    <2>4. CASE i < k /\ k + MaxArgs <= m
      <3>1. k - i \in 1 .. Len(b) /\ (k - i) + MaxArgs <= Len(b)
        BY <1>2, <1>4, <2>4
      <3>2. PICK l \in k - i .. (k - i) + MaxArgs : b[l].mark = "."
        BY <1>6, <3>1
      <3>3. i + l \in i + 1 .. m /\ (i + l) - i = l /\ i + l \in k .. k + MaxArgs
        BY <1>2, <2>4, <3>1
      <3>4. toks[i + l].mark = "."
        BY <1>8, <3>2, <3>3
      <3>5. QED
        BY <3>3, <3>4 DEF Marks
    <2>5. m = n \/ m = n - 1
      BY <1>1, <1>2
    <2>6. /\ k \in Nat /\ i \in Nat
          /\ \/ k + MaxArgs = n /\ m # n
             \/ i >= k /\ i <= k + MaxArgs
             \/ k + MaxArgs <= i - 1
             \/ i < k /\ k + MaxArgs <= m
      BY <1>2, <1>14, <2>5
    <2>7. QED
      BY <1>2, <2>1, <2>2, <2>3, <2>4, <2>6
  <1>15. QED
    BY <1>10, <1>11, <1>12, <1>13, <1>14 DEF n

\* A cast has no arrow, a seal at its end, and the rest of a side.
LEMMA CastHas ==
  ASSUME NEW toks \in Seq(Tokens), Casts(toks) # {}
  PROVE  /\ HasSeal(toks) /\ HasRoom(toks, Len(toks) - 1)
         /\ \A k \in 1 .. Len(toks) : toks[k].mark \notin Arrows
         /\ \A k \in 1 .. Len(toks) : toks[k].mark = "!" => k = Len(toks)
         /\ \A k, l \in 1 .. Len(toks) : toks[k].mark = "." /\ toks[l].mark = "." => k = l
         /\ \A k \in 1 .. Len(toks) :
              k + MaxArgs <= Len(toks) => \E l \in k .. k + MaxArgs : toks[l].mark \in Marks
  <1> DEFINE n == Len(toks)
             text == TextOf(toks)
             m == Len(text)
  <1>1. HasSeal(toks) /\ HasRoom(toks, n - 1) /\ Sides(text) # {}
    <2>1. ~(toks = <<>> \/ Last(toks).mark # "!" \/ ~HasRoom(toks, Len(toks) - 1))
      BY DEF Casts
    <2>2. HasSeal(toks) /\ text = Front(toks)
      BY <2>1 DEF HasSeal, TextOf
    <2>3. Casts(toks) = {OnStacks(sides) : sides \in Sides(Front(toks))}
      BY <2>1 DEF Casts
    <2>4. Sides(Front(toks)) # {}
      BY <2>3
    <2>5. QED
      BY <2>1, <2>2, <2>4
  <1>2. /\ text \in Seq(Tokens) /\ m = n - 1
        /\ \A k \in 1 .. m : k \in 1 .. n /\ text[k] = toks[k]
        /\ n >= 1 /\ toks[n].mark = "!"
    BY <1>1, TextExact
  <1>3. n \in Nat /\ MaxArgs \in Nat
    BY ArgsType
  <1> HIDE DEF text
  <1>4. /\ \A k \in 1 .. m : text[k].mark \notin Marks \ {"."}
        /\ \A k, l \in 1 .. m : text[k].mark = "." /\ text[l].mark = "." => k = l
        /\ \A k \in 1 .. m : k + MaxArgs <= m => \E l \in k .. k + MaxArgs : text[l].mark = "."
    BY <1>1, <1>2, SidesHave
  <1> HIDE DEF m, n
  <1>5. \A k \in 1 .. n : k = n \/ k \in 1 .. m
    BY <1>2, <1>3
  <1>6. \A k \in 1 .. n : toks[k].mark \notin Arrows /\ (toks[k].mark = "!" => k = n)
    BY <1>2, <1>4, <1>5 DEF Marks, Arrows
  <1>7. \A k, l \in 1 .. n : toks[k].mark = "." /\ toks[l].mark = "." => k = l
    BY <1>2, <1>4, <1>5
  <1>8. ASSUME NEW k \in 1 .. n, k + MaxArgs <= n
        PROVE  \E l \in k .. k + MaxArgs : toks[l].mark \in Marks
    <2>1. CASE k + MaxArgs = n
      <3>1. n \in k .. k + MaxArgs
        BY <1>3, <2>1
      <3>2. QED
        BY <1>2, <3>1 DEF Marks
    <2>2. CASE k + MaxArgs # n
      <3>1. k \in 1 .. m /\ k + MaxArgs <= m
        BY <1>2, <1>3, <1>8, <2>2
      <3>2. PICK l \in k .. k + MaxArgs : text[l].mark = "."
        BY <1>4, <3>1
      <3>3. l \in 1 .. m
        BY <1>2, <1>3, <3>1
      <3>4. QED
        BY <1>2, <3>2, <3>3 DEF Marks
    <2>3. QED
      BY <2>1, <2>2
  <1>9. QED
    BY <1>1, <1>6, <1>7, <1>8 DEF n

LEMMA ObstructedMeans ==
  ASSUME NEW t, NEW toks \in Seq(Tokens), Obstructed(t, toks)
  PROVE  Meanings(t, toks) = {}
  <1> DEFINE n == Len(toks)
  <1>1. n \in Nat /\ MaxArgs \in Nat
    BY ArgsType
  <1>2. ASSUME t = "label", Signatures(toks) # {}
        PROVE  FALSE
    <2>1. PICK i \in 1 .. n :
            /\ toks[i].mark \in Arrows /\ HasRoom(toks, i - 1)
            /\ \A k \in 1 .. n : k # i => toks[k].mark \notin Arrows
            /\ \A k \in 1 .. n : toks[k].mark = "!" => k = n
            /\ \A k, l \in 1 .. n :
                 k < l /\ toks[k].mark = "." /\ toks[l].mark = "." => k < i /\ i < l
            /\ \A k \in 1 .. n : k + MaxArgs <= n => \E l \in k .. k + MaxArgs : toks[l].mark \in Marks
      BY <1>2, SignatureHas
    <2> HIDE DEF n
    <2>2. ~\E k \in 1 .. n : k < n /\ toks[k].mark = "!"
      BY <1>1, <2>1
    <2>3. ~\E k, l \in 1 .. n : /\ k < l /\ toks[k].mark = "." /\ toks[l].mark = "."
                                /\ \A j \in k .. l : toks[j].mark \notin Arrows
      BY <1>1, <2>1
    <2>4. ~\E k \in 1 .. n : k + MaxArgs <= n /\ \A j \in k .. k + MaxArgs : toks[j].mark \notin Marks
      BY <2>1
    <2>5. ~\E k, l \in 1 .. n : k < l /\ toks[k].mark \in Arrows /\ toks[l].mark \in Arrows
      BY <1>1, <2>1
    <2>6. ~\E k \in 1 .. n : ~HasRoom(toks, k) /\ \A j \in 1 .. k : toks[j].mark \notin Arrows
      <3>1. SUFFICES ASSUME NEW k \in 1 .. n, ~HasRoom(toks, k), \A j \in 1 .. k : toks[j].mark \notin Arrows
                     PROVE  FALSE
        OBVIOUS
      <3>2. i - 1 \in 0 .. n /\ k \in 0 .. i - 1
        BY <1>1, <2>1, <3>1
      <3>3. QED
        BY <2>1, <3>1, <3>2, RoomLess DEF n
    <2>7. QED
      BY <1>2, <2>2, <2>3, <2>4, <2>5, <2>6 DEF Obstructed, n
  <1>3. ASSUME t # "label", Casts(toks) # {}
        PROVE  FALSE
    <2>1. /\ HasSeal(toks) /\ HasRoom(toks, n - 1)
          /\ \A k \in 1 .. n : toks[k].mark \notin Arrows
          /\ \A k \in 1 .. n : toks[k].mark = "!" => k = n
          /\ \A k, l \in 1 .. n : toks[k].mark = "." /\ toks[l].mark = "." => k = l
          /\ \A k \in 1 .. n : k + MaxArgs <= n => \E l \in k .. k + MaxArgs : toks[l].mark \in Marks
      BY <1>3, CastHas
    <2>2. n >= 1 /\ toks[n].mark = "!"
      BY <2>1, TextExact
    <2> HIDE DEF n
    <2>3. ~\E k \in 1 .. n : k < n /\ toks[k].mark = "!"
      BY <1>1, <2>1
    <2>4. ~\E k, l \in 1 .. n : k < l /\ toks[k].mark = "." /\ toks[l].mark = "."
      BY <1>1, <2>1
    <2>5. ~\E k \in 1 .. n : k + MaxArgs <= n /\ \A j \in k .. k + MaxArgs : toks[j].mark \notin Marks
      BY <2>1
    <2>6. ~\E k \in 1 .. n : ~HasRoom(toks, k) /\ \A j \in 1 .. k : toks[j].mark # "!"
      <3>1. SUFFICES ASSUME NEW k \in 1 .. n, ~HasRoom(toks, k), \A j \in 1 .. k : toks[j].mark # "!"
                     PROVE  FALSE
        OBVIOUS
      <3>2. n - 1 \in 0 .. n /\ k \in 0 .. n - 1
        BY <1>1, <2>2, <3>1
      <3>3. QED
        BY <2>1, <3>1, <3>2, RoomLess DEF n
    <2>7. QED
      BY <1>3, <2>1, <2>3, <2>4, <2>5, <2>6 DEF Obstructed, n
  <1>4. QED
    BY <1>2, <1>3 DEF Meanings

-----------------------------------------------------------------------------
(***************************************************************************)
(* A comment is read token by token.                                       *)
(***************************************************************************)
\* One of the stacks, with what it is then.
With(st, place, v) == [st EXCEPT ![place] = v]

LEMMA WithExact ==
  ASSUME NEW w, NEW r, NEW v, NEW st, st = [ws |-> w, rs |-> r], NEW place
  PROVE  /\ place = "ws" => With(st, place, v) = [ws |-> v, rs |-> r]
         /\ place = "rs" => With(st, place, v) = [ws |-> w, rs |-> v]
  <1>1. ASSUME place = "ws"
        PROVE  [st EXCEPT ![place] = v] = [ws |-> v, rs |-> r]
    BY <1>1, SMT
  <1>2. ASSUME place = "rs"
        PROVE  [st EXCEPT ![place] = v] = [ws |-> w, rs |-> v]
    BY <1>2, SMT
  <1>3. QED
    BY <1>1, <1>2 DEF With

LEMMA OnStacksAre ==
  ASSUME NEW x, NEW y
  PROVE  OnStacks(<<x, y>>) = [ws |-> Values(x), rs |-> Values(y)]
  BY DEF OnStacks

LEMMA SideEmpty == IsSide(<<>>, "ws", Empty)
  <1>1. <<>> \in Seq(Tokens) /\ Len(<<>>) = 0 /\ 0 <= MaxArgs
    BY ArgsType
  <1> DEFINE v == Values(<<>>)
  <1>2. v = <<>>
    <2>1. v \in Seq(Plain) /\ Len(v) = 0
      BY <1>1, ValuesExact
    <2> HIDE DEF v
    <2>2. QED
      BY <2>1, EmptySeq
  <1>3. OnStacks(<<(<<>>), (<<>>)>>) = [ws |-> <<>>, rs |-> <<>>]
    BY <1>2 DEF OnStacks
  <1>4. Empty = [ws |-> <<>>, rs |-> <<>>]
    BY DEF Empty, Stacks
  <1>5. Unmarked(<<>>)
    BY <1>1 DEF Unmarked
  <1>6. QED
    BY <1>1, <1>3, <1>4, <1>5 DEF IsSide

\* A dot leads to the other stack.
LEMMA SideDot ==
  ASSUME NEW toks \in Seq(Tokens), NEW st, NEW tok \in Tokens, IsSide(toks, "ws", st), tok.mark = "."
  PROVE  IsSide(Append(toks, tok), "rs", st)
  <1> DEFINE n == Len(toks)
             more == Append(toks, tok)
  <1>1. /\ n \in Nat /\ more \in Seq(Tokens) /\ Len(more) = n + 1 /\ more[n + 1] = tok
        /\ \A k \in 1 .. n : more[k] = toks[k]
    OBVIOUS
  <1>2. Unmarked(toks) /\ n <= MaxArgs /\ st = OnStacks(<<toks, <<>>>>) /\ MaxArgs \in Nat
    BY ArgsType DEF IsSide
  <1> DEFINE a == Around(more, n + 1)[1]
             b == Around(more, n + 1)[2]
  <1> HIDE DEF more
  <1>3. /\ a \in Seq(Tokens) /\ Len(a) = (n + 1) - 1 /\ \A k \in 1 .. (n + 1) - 1 : a[k] = more[k]
        /\ b \in Seq(Tokens) /\ Len(b) = (n + 1) - (n + 1)
    <2>1. n + 1 \in 1 .. Len(more)
      BY <1>1
    <2>2. QED
      BY <1>1, <2>1, AroundExact
  <1>4. Around(more, n + 1) = <<a, b>>
    BY DEF Around
  <1> HIDE DEF a, b
  <1>5. a = toks
    <2>1. Len(a) = n /\ \A k \in 1 .. n : a[k] = toks[k]
      BY <1>1, <1>3
    <2>2. QED
      BY <1>3, <2>1, SeqEqual
  <1>6. b = <<>>
    BY <1>1, <1>3
  <1>7. DotAt(more, n + 1)
    <2>1. \A k \in 1 .. n + 1 : k # n + 1 => k \in 1 .. n
      BY <1>1
    <2>2. \A k \in 1 .. n + 1 : k # n + 1 => more[k].mark \notin Marks
      BY <1>1, <1>2, <2>1 DEF Unmarked
    <2>3. (n + 1) - 1 <= MaxArgs /\ (n + 1) - (n + 1) <= MaxArgs
      BY <1>1, <1>2
    <2>4. QED
      BY <1>1, <2>2, <2>3 DEF DotAt
  <1>8. n + 1 \in 1 .. Len(more)
    BY <1>1
  <1>9. st = OnStacks(Around(more, n + 1))
    BY <1>2, <1>4, <1>5, <1>6
  <1>10. QED
    BY <1>7, <1>8, <1>9 DEF IsSide, more

\* A value is one more on the stack, if there is room for it.
LEMMA SideValue ==
  ASSUME NEW toks \in Seq(Tokens), NEW place, NEW st, NEW tok \in Tokens,
         IsSide(toks, place, st), tok.mark \notin Marks
  PROVE  /\ Len(st[place]) \in Nat
         /\ Len(st[place]) < MaxArgs =>
              IsSide(Append(toks, tok), place,
                     With(st, place, Append(st[place], ParseValue(tok))))
         /\ ~(Len(st[place]) < MaxArgs) =>
              \E k \in 1 .. Len(toks) + 1 :
                /\ k + MaxArgs = Len(toks) + 1
                /\ \A j \in k .. k + MaxArgs : Append(toks, tok)[j].mark \notin Marks
  <1> DEFINE n == Len(toks)
             more == Append(toks, tok)
  <1>1. /\ n \in Nat /\ more \in Seq(Tokens) /\ Len(more) = n + 1 /\ more[n + 1] = tok
        /\ \A k \in 1 .. n : more[k] = toks[k]
    OBVIOUS
  <1>2. MaxArgs \in Nat
    BY ArgsType
  <1>3. CASE place = "ws" /\ Unmarked(toks) /\ n <= MaxArgs /\ st = OnStacks(<<toks, <<>>>>)
    <2>1. /\ Len(Values(toks)) = n /\ Values(more) = Append(Values(toks), ParseValue(tok))
      BY ValuesExact
    <2> HIDE DEF more
    <2>2. st = [ws |-> Values(toks), rs |-> Values(<<>>)] /\ st[place] = Values(toks)
      BY <1>3, OnStacksAre
    <2>3. With(st, place, Append(st[place], ParseValue(tok))) = OnStacks(<<more, <<>>>>)
      <3>1. OnStacks(<<more, <<>>>>) = [ws |-> Append(Values(toks), ParseValue(tok)), rs |-> Values(<<>>)]
        BY <2>1, OnStacksAre
      <3> DEFINE v == Append(st[place], ParseValue(tok))
                 w == Values(toks)
                 r == Values(<<>>)
      <3>2. v = Append(w, ParseValue(tok)) /\ st = [ws |-> w, rs |-> r] /\ place = "ws"
        BY <1>3, <2>2
      <3> HIDE DEF v, w, r
      <3>3. With(st, place, v) = [ws |-> v, rs |-> r]
        <4>1. st = [ws |-> w, rs |-> r]
          BY <3>2
        <4>2. place = "ws" => With(st, place, v) = [ws |-> v, rs |-> r]
          BY <4>1, WithExact
        <4>3. place = "ws"
          BY <3>2
        <4>4. QED
          BY <4>2, <4>3
      <3>4. QED
        BY <3>1, <3>2, <3>3 DEF v, w, r
    <2>4. \A k \in 1 .. n + 1 : more[k].mark \notin Marks
      <3>1. \A k \in 1 .. n + 1 : k \in 1 .. n \/ k = n + 1
        BY <1>1
      <3>2. QED
        BY <1>1, <1>3, <3>1 DEF Unmarked
    <2>5. n < MaxArgs => Unmarked(more) /\ Len(more) <= MaxArgs
      BY <1>1, <1>2, <2>4 DEF Unmarked
    <2>6. ~(n < MaxArgs) => 1 \in 1 .. n + 1 /\ 1 + MaxArgs = n + 1
      BY <1>1, <1>2, <1>3
    <2>7. ~(n < MaxArgs) => \A j \in 1 .. 1 + MaxArgs : more[j].mark \notin Marks
      BY <2>4, <2>6
    <2> HIDE DEF n
    <2>8. QED
      BY <1>1, <1>3, <2>1, <2>2, <2>3, <2>5, <2>6, <2>7 DEF IsSide, more, n
  <1>4. ASSUME place = "rs", NEW d \in 1 .. n, DotAt(toks, d), st = OnStacks(Around(toks, d))
        PROVE  /\ Len(st[place]) \in Nat
               /\ Len(st[place]) < MaxArgs =>
                    IsSide(more, place, With(st, place, Append(st[place], ParseValue(tok))))
               /\ ~(Len(st[place]) < MaxArgs) =>
                    \E k \in 1 .. n + 1 :
                      /\ k + MaxArgs = n + 1
                      /\ \A j \in k .. k + MaxArgs : more[j].mark \notin Marks
    <2> DEFINE a == SubSeq(toks, 1, d - 1)
               b == SubSeq(toks, d + 1, n)
    <2>1. Around(toks, d) = <<a, b>> /\ b \in Seq(Tokens) /\ Len(b) = n - d
      BY AroundExact DEF Around
    <2>2. Around(more, d) = <<a, Append(b, tok)>>
      <3>1. /\ 1 \in Nat /\ d - 1 \in Nat /\ 1 >= 1 /\ 1 <= (d - 1) + 1 /\ d - 1 <= n
            /\ d + 1 \in 1 .. n + 1
        BY <1>1
      <3>2. SubSeq(more, 1, d - 1) = a
        BY <3>1, PartKept
      <3>3. SubSeq(more, d + 1, n + 1) = Append(b, tok)
        BY <3>1, PartGrows
      <3>4. QED
        BY <1>1, <3>2, <3>3 DEF Around
    <2> HIDE DEF a, b
    <2>3. Len(Values(b)) = n - d /\ Values(Append(b, tok)) = Append(Values(b), ParseValue(tok))
      BY <2>1, ValuesExact
    <2>4. st = [ws |-> Values(a), rs |-> Values(b)] /\ st[place] = Values(b)
      BY <1>4, <2>1, OnStacksAre
    <2>5. With(st, place, Append(st[place], ParseValue(tok))) = OnStacks(Around(more, d))
      <3>1. OnStacks(Around(more, d)) = [ws |-> Values(a), rs |-> Append(Values(b), ParseValue(tok))]
        BY <2>2, <2>3, OnStacksAre
      <3> DEFINE v == Append(st[place], ParseValue(tok))
                 w == Values(a)
                 r == Values(b)
      <3>2. v = Append(r, ParseValue(tok)) /\ st = [ws |-> w, rs |-> r] /\ place = "rs"
        BY <1>4, <2>4
      <3> HIDE DEF v, w, r
      <3>3. With(st, place, v) = [ws |-> w, rs |-> v]
        <4>1. st = [ws |-> w, rs |-> r]
          BY <3>2
        <4>2. place = "rs" => With(st, place, v) = [ws |-> w, rs |-> v]
          BY <4>1, WithExact
        <4>3. place = "rs"
          BY <3>2
        <4>4. QED
          BY <4>2, <4>3
      <3>4. QED
        BY <3>1, <3>2, <3>3 DEF v, w, r
    <2>6. /\ toks[d].mark = "." /\ \A k \in 1 .. n : k # d => toks[k].mark \notin Marks
          /\ d - 1 <= MaxArgs /\ n - d <= MaxArgs
      BY <1>4 DEF DotAt
    <2> HIDE DEF more
    <2>7. \A k \in 1 .. n + 1 : k # d => more[k].mark \notin Marks
      <3>1. \A k \in 1 .. n + 1 : k \in 1 .. n \/ k = n + 1
        BY <1>1
      <3>2. QED
        BY <1>1, <2>6, <3>1
    <2>8. n - d < MaxArgs => DotAt(more, d) /\ d \in 1 .. Len(more)
      <3>1. n - d < MaxArgs => (n + 1) - d <= MaxArgs
        BY <1>1, <1>2
      <3>2. QED
        BY <1>1, <2>6, <2>7, <3>1 DEF DotAt
    <2>9. ~(n - d < MaxArgs) => d + 1 \in 1 .. n + 1 /\ (d + 1) + MaxArgs = n + 1
      BY <1>1, <1>2, <2>6
    <2>10. ~(n - d < MaxArgs) => \A j \in d + 1 .. (d + 1) + MaxArgs : more[j].mark \notin Marks
      <3>1. ~(n - d < MaxArgs) => \A j \in d + 1 .. (d + 1) + MaxArgs : j \in 1 .. n + 1 /\ j # d
        BY <1>1, <2>9
      <3>2. QED
        BY <2>7, <3>1
    <2>11. n - d \in Nat
      BY <1>1
    <2>12. n - d < MaxArgs =>
             IsSide(more, place, With(st, place, Append(st[place], ParseValue(tok))))
      BY <1>4, <2>5, <2>8 DEF IsSide
    <2>13. QED
      BY <2>3, <2>4, <2>9, <2>10, <2>11, <2>12
  <1>5. QED
    BY <1>3, <1>4 DEF IsSide

\* After a dot there is one, and no other mark.
LEMMA SideDotted ==
  ASSUME NEW toks \in Seq(Tokens), NEW st, IsSide(toks, "rs", st)
  PROVE  \E d \in 1 .. Len(toks) :
           toks[d].mark = "." /\ \A k \in 1 .. Len(toks) : k # d => toks[k].mark \notin Marks
  BY DEF IsSide, DotAt

-----------------------------------------------------------------------------
\* What a comment may be about, and the handlers of its two stages.
Kinds == {"label", "opcode"}
Of(t) == IF t = "label" THEN OfLabel ELSE OfOpcode
First(t) == IF t = "label" THEN "signature" ELSE "cast"
Second(t) == IF t = "label" THEN "signature2" ELSE "cast2"
Triggers(t, tok) == IF t = "label" THEN tok.mark \in Arrows ELSE tok.mark = "!"

LEMMA AddedExact ==
  ASSUME NEW hs, NEW a \in Annos(hs), NEW tok \in Tokens
  PROVE  LET d == a.place[1]
             s == a.place[2]
             b == AddArgument(a, tok)
         IN  /\ Len(a.found[d][s]) < MaxArgs =>
                  /\ b.handler = a.handler /\ b.sealed = a.sealed /\ b.place = a.place
                  /\ b.found.type = a.found.type
                  /\ b.found[d] = With(a.found[d], s, Append(a.found[d][s], ParseValue(tok)))
                  /\ \A e \in {"in", "out"} : e # d => b.found[e] = a.found[e]
             /\ ~(Len(a.found[d][s]) < MaxArgs) => b = Killed(a)
  <1> DEFINE d == a.place[1]
             s == a.place[2]
             one == With(a.found[d], s, Append(a.found[d][s], ParseValue(tok)))
             found == [a.found EXCEPT ![d] = one]
             b == [a EXCEPT !.found = found]
             room == Len(a.found[d][s]) < MaxArgs
  <1>1. AddArgument(a, tok) = IF room THEN b ELSE Killed(a)
    BY DEF AddArgument, With
  <1>2. d \in {"in", "out"} /\ a.found \in Sigs
    BY AnnoParts
  <1> HIDE DEF room, one, d, s
  <1>3. /\ found.type = a.found.type /\ found[d] = one
        /\ \A e \in {"in", "out"} : e # d => found[e] = a.found[e]
    BY <1>2 DEF Sigs
  <1> HIDE DEF found
  <1>4. b.handler = a.handler /\ b.sealed = a.sealed /\ b.place = a.place /\ b.found = found
    BY DEF Annos
  <1> HIDE DEF b
  <1>5. QED
    BY <1>1, <1>3, <1>4 DEF room, one, d, s

LEMMA ReturnStackExact ==
  ASSUME NEW hs, NEW a \in Annos(hs)
  PROVE  LET b == ToReturnStack(a)
         IN  /\ a.place[2] = "ws" =>
                  /\ b.handler = a.handler /\ b.sealed = a.sealed /\ b.found = a.found
                  /\ b.place[1] = a.place[1] /\ b.place[2] = "rs"
             /\ a.place[2] # "ws" => b = Killed(a)
  <1> DEFINE place == [a.place EXCEPT ![2] = "rs"]
             b == [a EXCEPT !.place = place]
  <1>1. place[1] = a.place[1] /\ place[2] = "rs"
    BY AnnoParts
  <1>2. ToReturnStack(a) = IF a.place[2] = "ws" THEN b ELSE Killed(a)
    BY DEF ToReturnStack
  <1> HIDE DEF place
  <1>3. b.handler = a.handler /\ b.sealed = a.sealed /\ b.found = a.found /\ b.place = place
    BY DEF Annos
  <1> HIDE DEF b
  <1>4. QED
    BY <1>1, <1>2, <1>3

\* The arrow of a signature leads to the other side of it.
Crossed(a, tok) ==
  [a EXCEPT !.place = <<"out", "ws">>,
            !.found.type = IF tok.mark = "--" THEN "subroutine" ELSE "vector"]

LEMMA CrossedExact ==
  ASSUME NEW hs, NEW a \in Annos(hs), NEW tok \in Tokens
  PROVE  LET b == Crossed(a, tok)
         IN  /\ b.handler = a.handler /\ b.sealed = a.sealed /\ b.place[1] = "out" /\ b.place[2] = "ws"
             /\ b.found.type = TypeBy(tok) /\ b.found["in"] = a.found["in"]
             /\ b.found["out"] = a.found["out"]
  <1> DEFINE found == [a.found EXCEPT !.type = TypeBy(tok)]
             b == [a EXCEPT !.place = <<"out", "ws">>, !.found = found]
  <1>1. a.found \in Sigs
    BY AnnoParts
  <1>2. Crossed(a, tok) = b
    BY DEF Crossed, TypeBy
  <1>3. /\ found.type = TypeBy(tok) /\ found["in"] = a.found["in"] /\ found["out"] = a.found["out"]
    BY <1>1 DEF Sigs
  <1> HIDE DEF found
  <1>4. b.handler = a.handler /\ b.sealed = a.sealed /\ b.place = <<"out", "ws">> /\ b.found = found
    BY DEF Annos
  <1> HIDE DEF b
  <1>5. QED
    BY <1>2, <1>3, <1>4

\* What the second stage does with one that is not sealed.
LEMMA Stage2Exact ==
  ASSUME NEW t \in Kinds, NEW a, a.handler = Second(t), ~a.sealed, NEW tok \in Tokens
  PROVE  Stage2(a, tok) =
           IF tok.mark = "." THEN ToReturnStack(a)
           ELSE IF tok.mark = "!" THEN [a EXCEPT !.sealed = TRUE]
           ELSE IF tok.mark \in Arrows
                THEN IF t = "label" /\ a.place[1] = "in" THEN Crossed(a, tok) ELSE Killed(a)
           ELSE AddArgument(a, tok)
  <1>1. Sealed(a) = a
    BY DEF Sealed
  <1>2. CASE t = "label"
    <2>1. Stage2(a, tok) = ParseSignature2(a, tok)
      BY <1>2 DEF Stage2, Second
    <2>2. QED
      BY <1>1, <1>2, <2>1 DEF ParseSignature2, Crossed, Arrows
  <1>3. CASE t # "label"
    <2>1. Stage2(a, tok) = ParseCast2(a, tok)
      BY <1>3 DEF Stage2, Second
    <2>2. QED
      BY <1>1, <1>3, <2>1 DEF ParseCast2, Arrows
  <1>4. QED
    BY <1>2, <1>3

\* One that is sealed does not go on.
LEMMA SealedStops ==
  ASSUME NEW t \in Kinds, NEW a \in Annos(Of(t)), a.handler = Second(t), a.sealed, NEW tok \in Tokens
  PROVE  Stage2(a, tok).handler = "none"
  <1> DEFINE b == Killed(a)
             x == [b EXCEPT !.sealed = TRUE]
             y == Crossed(b, tok)
  <1>1. Sealed(a) = b
    BY DEF Sealed
  <1>2. "none" \in Of(t)
    BY DEF Of, OfLabel, OfOpcode
  <1>3. b \in Annos(Of(t)) /\ b.handler = "none"
    BY <1>2, KilledType
  <1>4. Stage2(a, tok) \in {ToReturnStack(b), x, y, Killed(b), AddArgument(b, tok)}
    BY <1>1 DEF Stage2, Second, ParseSignature2, ParseCast2, Crossed
  <1> HIDE DEF b
  <1>5. x.handler = "none"
    BY <1>3 DEF Annos
  <1>6. y.handler = "none"
    BY <1>3, CrossedExact
  <1>7. Killed(b).handler = "none"
    BY <1>2, <1>3, KilledType
  <1>8. ToReturnStack(b).handler = "none"
    BY <1>3, <1>7, ReturnStackExact
  <1>9. AddArgument(b, tok).handler = "none"
    BY <1>3, <1>7, AddedExact
  <1> HIDE DEF x, y
  <1>10. QED
    BY <1>4, <1>5, <1>6, <1>7, <1>8, <1>9

-----------------------------------------------------------------------------
\* What has been read of a text: one side, or an arrow with a side before it
\* and one behind.
HasArrow(a, text, i) ==
  /\ text[i].mark \in Arrows /\ a.found.type = TypeBy(text[i])
  /\ \E place : IsSide(UpTo(text, i), place, a.found["in"])
  /\ IsSide(Beyond(text, i), a.place[2], a.found["out"])

IsText(a, t, text) ==
  \/ /\ a.place[1] = "in" /\ IsSide(text, a.place[2], a.found["in"])
     /\ a.found.type = "vector" /\ a.found["out"] = Empty
  \/ /\ t = "label" /\ a.place[1] = "out"
     /\ \E i \in 1 .. Len(text) : HasArrow(a, text, i)

\* One more token is behind the arrow, or is it.
LEMMA ArrowKept ==
  ASSUME NEW text \in Seq(Tokens), NEW i \in 1 .. Len(text), NEW tok \in Tokens
  PROVE  LET more == Append(text, tok)
         IN  /\ i \in 1 .. Len(more) /\ more[i] = text[i]
             /\ UpTo(more, i) = UpTo(text, i) /\ Beyond(more, i) = Append(Beyond(text, i), tok)
  <1> DEFINE n == Len(text)
             more == Append(text, tok)
  <1>1. /\ Len(more) = n + 1 /\ n \in Nat /\ more[i] = text[i] /\ i \in 1 .. n + 1
        /\ 1 \in Nat /\ i - 1 \in Nat /\ 1 >= 1 /\ 1 <= (i - 1) + 1 /\ i - 1 <= n
        /\ i + 1 \in 1 .. n + 1
    OBVIOUS
  <1>2. SubSeq(more, 1, i - 1) = SubSeq(text, 1, i - 1)
    BY <1>1, PartKept
  <1>3. SubSeq(more, i + 1, n + 1) = Append(SubSeq(text, i + 1, n), tok)
    BY <1>1, PartGrows
  <1>4. QED
    BY <1>1, <1>2, <1>3 DEF UpTo, Beyond

LEMMA ArrowMade ==
  ASSUME NEW text \in Seq(Tokens), NEW tok \in Tokens
  PROVE  LET more == Append(text, tok)
             i == Len(text) + 1
         IN  /\ i \in 1 .. Len(more) /\ more[i] = tok
             /\ UpTo(more, i) = text /\ Beyond(more, i) = <<>>
  <1> DEFINE n == Len(text)
             more == Append(text, tok)
             i == n + 1
             a == UpTo(more, i)
             b == Beyond(more, i)
  <1>1. /\ more \in Seq(Tokens) /\ Len(more) = n + 1 /\ n \in Nat /\ more[i] = tok /\ i \in 1 .. n + 1
        /\ \A k \in 1 .. n : more[k] = text[k]
    OBVIOUS
  <1> HIDE DEF more, i, n
  <1>2. /\ a \in Seq(Tokens) /\ Len(a) = i - 1 /\ \A k \in 1 .. i - 1 : a[k] = more[k]
        /\ b \in Seq(Tokens) /\ Len(b) = Len(more) - i
    <2>1. i \in 1 .. Len(more)
      BY <1>1
    <2>2. QED
      BY <1>1, <2>1, AroundArrow
  <1> HIDE DEF a, b
  <1>3. a = text
    <2>1. Len(a) = n /\ \A k \in 1 .. n : a[k] = text[k]
      BY <1>1, <1>2 DEF i
    <2>2. QED
      BY <1>2, <2>1, SeqEqual DEF n
  <1>4. b = <<>>
    BY <1>1, <1>2 DEF i
  <1>5. QED
    BY <1>1, <1>3, <1>4 DEF a, b, more, i, n

\* A second dot on a side.
LEMMA TwoDots ==
  ASSUME NEW t, NEW text \in Seq(Tokens), NEW i \in 0 .. Len(text), NEW side \in Seq(Tokens),
         Len(side) = Len(text) - i, \A k \in 1 .. Len(text) - i : side[k] = text[i + k],
         NEW st, IsSide(side, "rs", st), NEW tok \in Tokens, tok.mark = "."
  PROVE  Obstructed(t, Append(text, tok))
  <1> DEFINE n == Len(text)
             more == Append(text, tok)
  <1>1. /\ n \in Nat /\ Len(more) = n + 1 /\ more[n + 1] = tok
        /\ \A k \in 1 .. n : more[k] = text[k]
    OBVIOUS
  <1>2. PICK d \in 1 .. Len(side) :
          side[d].mark = "." /\ \A k \in 1 .. Len(side) : k # d => side[k].mark \notin Marks
    BY SideDotted
  <1> HIDE DEF more, n
  <1>3. Len(side) = n - i /\ i \in Nat /\ (\A k \in 1 .. n - i : side[k] = text[i + k]) /\ i <= n
    BY <1>1 DEF n
  <1>4. /\ i + d \in 1 .. n /\ i + d < n + 1 /\ n + 1 \in 1 .. n + 1 /\ i + d \in 1 .. n + 1
    BY <1>1, <1>2, <1>3
  <1>5. more[i + d].mark = "." /\ more[n + 1].mark = "."
    BY <1>1, <1>2, <1>3, <1>4
  <1>6. ASSUME NEW j \in i + d .. n + 1
        PROVE  more[j].mark \notin Arrows
    <2>1. CASE j = n + 1 \/ j = i + d
      BY <1>5, <2>1 DEF Arrows
    <2>2. CASE j # n + 1 /\ j # i + d
      <3>1. j - i \in 1 .. Len(side) /\ j - i # d /\ j \in 1 .. n /\ i + (j - i) = j
        BY <1>1, <1>2, <1>3, <2>2
      <3>2. more[j] = side[j - i]
        BY <1>1, <1>3, <3>1
      <3>3. side[j - i].mark \notin Marks
        BY <1>2, <3>1
      <3>4. QED
        BY <3>2, <3>3 DEF Marks, Arrows
    <2>3. QED
      BY <2>1, <2>2
  <1>7. QED
    BY <1>1, <1>4, <1>5, <1>6 DEF Obstructed, more

\* Too many values on a stack.
LEMMA NoRoom ==
  ASSUME NEW t, NEW text \in Seq(Tokens), NEW i \in 0 .. Len(text), NEW side \in Seq(Tokens),
         Len(side) = Len(text) - i, \A k \in 1 .. Len(text) - i : side[k] = text[i + k],
         NEW place, NEW st, IsSide(side, place, st), NEW tok \in Tokens, tok.mark \notin Marks,
         ~(Len(st[place]) < MaxArgs)
  PROVE  Obstructed(t, Append(text, tok))
  <1> DEFINE n == Len(text)
             m == Len(side)
             more == Append(text, tok)
             longer == Append(side, tok)
  <1>1. /\ n \in Nat /\ Len(more) = n + 1 /\ more[n + 1] = tok
        /\ \A k \in 1 .. n : more[k] = text[k]
    OBVIOUS
  <1>2. /\ m = n - i /\ longer[m + 1] = tok /\ \A k \in 1 .. m : longer[k] = side[k]
    OBVIOUS
  <1>3. PICK k \in 1 .. m + 1 :
          k + MaxArgs = m + 1 /\ \A j \in k .. k + MaxArgs : longer[j].mark \notin Marks
    BY SideValue
  <1>4. MaxArgs \in Nat
    BY ArgsType
  <1> HIDE DEF more, longer, m, n
  <1>5. i \in Nat /\ i <= n /\ m \in Nat /\ \A j \in 1 .. n - i : side[j] = text[i + j]
    BY <1>1, <1>2 DEF n
  <1>6. /\ i + k \in 1 .. n + 1 /\ (i + k) + MaxArgs <= n + 1
    BY <1>1, <1>2, <1>3, <1>4, <1>5
  <1>7. ASSUME NEW j \in i + k .. (i + k) + MaxArgs
        PROVE  more[j].mark \notin Marks
    <2>1. j - i \in k .. k + MaxArgs /\ j - i \in 1 .. m + 1 /\ j \in 1 .. n + 1 /\ i + (j - i) = j
      BY <1>1, <1>2, <1>3, <1>4, <1>5
    <2>2. longer[j - i].mark \notin Marks
      BY <1>3, <2>1
    <2>3. longer[j - i] = more[j]
      <3>1. CASE j = n + 1
        BY <1>1, <1>2, <1>5, <3>1
      <3>2. CASE j # n + 1
        <4>1. j \in 1 .. n /\ j - i \in 1 .. m
          BY <1>1, <1>2, <1>5, <2>1, <3>2
        <4>2. QED
          BY <1>1, <1>2, <1>5, <2>1, <4>1
      <3>3. QED
        BY <3>1, <3>2
    <2>4. QED
      BY <2>2, <2>3
  <1>8. QED
    BY <1>1, <1>6, <1>7 DEF Obstructed, more

\* One token of a text, which is not its seal.
LEMMA TextStep ==
  ASSUME NEW t \in Kinds, NEW a \in Annos(Of(t)), a.handler = Second(t), ~a.sealed,
         NEW text \in Seq(Tokens), IsText(a, t, text), NEW tok \in Tokens, tok.mark # "!"
  PROVE  LET b == Stage2(a, tok)
             more == Append(text, tok)
         IN  \/ b.handler = "none" /\ Obstructed(t, more)
             \/ b.handler = Second(t) /\ b.sealed = a.sealed /\ IsText(b, t, more)
  <1> DEFINE n == Len(text)
             b == Stage2(a, tok)
             more == Append(text, tok)
             d == a.place[1]
             s == a.place[2]
             Goal == \/ b.handler = "none" /\ Obstructed(t, more)
                     \/ b.handler = Second(t) /\ b.sealed = a.sealed /\ IsText(b, t, more)
  <1>1. /\ n \in Nat /\ more \in Seq(Tokens) /\ Len(more) = n + 1 /\ more[n + 1] = tok
        /\ n + 1 \in 1 .. Len(more) /\ \A k \in 1 .. n : more[k] = text[k]
    OBVIOUS
  <1>2. /\ d \in {"in", "out"} /\ s \in Stacks /\ Killed(a).handler = "none"
        /\ tok.mark = "." => b = ToReturnStack(a)
        /\ tok.mark \in Arrows => b = IF t = "label" /\ d = "in" THEN Crossed(a, tok) ELSE Killed(a)
        /\ tok.mark \notin Marks => b = AddArgument(a, tok)
    <2>1. "none" \in Of(t)
      BY DEF Of, OfLabel, OfOpcode
    <2>2. Killed(a).handler = "none"
      BY <2>1, KilledType
    <2>3. d \in {"in", "out"} /\ s \in Stacks
      BY AnnoParts
    <2>4. b = IF tok.mark = "." THEN ToReturnStack(a)
              ELSE IF tok.mark \in Arrows
                   THEN IF t = "label" /\ d = "in" THEN Crossed(a, tok) ELSE Killed(a)
              ELSE AddArgument(a, tok)
      BY Stage2Exact
    <2> HIDE DEF b, d, s
    <2>5. QED
      BY <2>2, <2>3, <2>4 DEF Marks, Arrows
  <1>3. tok.mark = "." \/ tok.mark \in Arrows \/ tok.mark \notin Marks
    BY DEF Marks, Arrows
  <1>4. /\ s = "ws" => /\ ToReturnStack(a).handler = a.handler /\ ToReturnStack(a).sealed = a.sealed
                       /\ ToReturnStack(a).found = a.found
                       /\ ToReturnStack(a).place[1] = d /\ ToReturnStack(a).place[2] = "rs"
        /\ s # "ws" => ToReturnStack(a) = Killed(a)
    BY ReturnStackExact
  <1> DEFINE room == Len(a.found[d][s]) < MaxArgs
             grown == With(a.found[d], s, Append(a.found[d][s], ParseValue(tok)))
  <1>5. LET c == AddArgument(a, tok)
        IN  /\ room => /\ c.handler = a.handler /\ c.sealed = a.sealed /\ c.place = a.place
                       /\ c.found.type = a.found.type /\ c.found[d] = grown
                       /\ \A e \in {"in", "out"} : e # d => c.found[e] = a.found[e]
            /\ ~room => c = Killed(a)
    BY AddedExact
  <1>6. LET c == Crossed(a, tok)
        IN  /\ c.handler = a.handler /\ c.sealed = a.sealed /\ c.place[1] = "out" /\ c.place[2] = "ws"
            /\ c.found.type = TypeBy(tok) /\ c.found["in"] = a.found["in"]
            /\ c.found["out"] = a.found["out"]
    BY CrossedExact
  <1>7. s # "ws" => s = "rs"
    BY <1>2 DEF Stacks
  <1> HIDE DEF b, more, n
  <1>8. ASSUME d = "in", IsSide(text, s, a.found["in"]), a.found.type = "vector",
               a.found["out"] = Empty
        PROVE  Goal
    <2>1. 0 \in 0 .. n /\ n = n - 0 /\ \A k \in 1 .. n - 0 : text[k] = text[0 + k]
      BY <1>1
    <2>2. CASE tok.mark = "." /\ s = "ws"
      <3>1. IsSide(more, "rs", a.found["in"])
        BY <1>8, <2>2, SideDot DEF more
      <3>2. /\ b.handler = a.handler /\ b.sealed = a.sealed /\ b.found = a.found
            /\ b.place[1] = "in" /\ b.place[2] = "rs"
        BY <1>2, <1>4, <1>8, <2>2
      <3>3. QED
        BY <1>8, <3>1, <3>2 DEF IsText
    <2>3. CASE tok.mark = "." /\ s # "ws"
      <3>1. Obstructed(t, more)
        BY <1>7, <1>8, <2>1, <2>3, TwoDots DEF more, n
      <3>2. QED
        BY <1>2, <1>4, <2>3, <3>1
    <2>4. CASE tok.mark \in Arrows /\ t = "label"
      <3>1. b = Crossed(a, tok)
        BY <1>2, <1>8, <2>4
      <3>2. more[n + 1] = tok /\ UpTo(more, n + 1) = text /\ Beyond(more, n + 1) = <<>>
        BY ArrowMade DEF more, n
      <3>3. HasArrow(b, more, n + 1)
        BY <1>6, <1>8, <2>4, <3>1, <3>2, SideEmpty DEF HasArrow
      <3>4. QED
        BY <1>1, <1>6, <2>4, <3>1, <3>3 DEF IsText
    <2>5. CASE tok.mark \in Arrows /\ t # "label"
      <3>1. b = Killed(a)
        BY <1>2, <2>5
      <3>2. Obstructed(t, more)
        BY <1>1, <2>5 DEF Obstructed
      <3>3. QED
        BY <1>2, <3>1, <3>2
    <2>6. CASE tok.mark \notin Marks /\ room
      <3>1. IsSide(more, s, grown)
        BY <1>8, <2>6, SideValue DEF more
      <3>2. /\ b.handler = a.handler /\ b.sealed = a.sealed /\ b.place = a.place
            /\ b.found.type = a.found.type /\ b.found["in"] = grown
            /\ b.found["out"] = a.found["out"]
        BY <1>2, <1>5, <1>8, <2>6
      <3> HIDE DEF grown
      <3>3. QED
        BY <1>8, <3>1, <3>2 DEF IsText
    <2>7. CASE tok.mark \notin Marks /\ ~room
      <3>1. ~(Len(a.found["in"][s]) < MaxArgs)
        BY <1>8, <2>7
      <3>2. Obstructed(t, more)
        BY <1>8, <2>1, <2>7, <3>1, NoRoom DEF more, n
      <3>3. QED
        BY <1>2, <1>5, <2>7, <3>2
    <2>8. QED
      BY <1>3, <2>2, <2>3, <2>4, <2>5, <2>6, <2>7
  <1>9. ASSUME t = "label", d = "out", NEW i \in 1 .. n, HasArrow(a, text, i)
        PROVE  Goal
    <2> DEFINE side == Beyond(text, i)
    <2>1. /\ i \in 1 .. Len(more) /\ more[i] = text[i]
          /\ UpTo(more, i) = UpTo(text, i) /\ Beyond(more, i) = Append(side, tok)
      BY ArrowKept DEF more, n
    <2>2. /\ text[i].mark \in Arrows /\ a.found.type = TypeBy(text[i])
          /\ \E place : IsSide(UpTo(text, i), place, a.found["in"])
          /\ IsSide(side, s, a.found["out"])
      BY <1>9 DEF HasArrow
    <2>3. /\ side \in Seq(Tokens) /\ Len(side) = n - i /\ i \in 0 .. n
          /\ \A k \in 1 .. n - i : side[k] = text[i + k]
      <3>1. text \in Seq(Tokens) /\ i \in 1 .. Len(text) /\ n = Len(text)
        BY DEF n
      <3>2. /\ side \in Seq(Tokens) /\ Len(side) = Len(text) - i
            /\ \A k \in 1 .. Len(text) - i : side[k] = text[i + k]
        BY <3>1, AroundArrow
      <3>3. i \in 0 .. n
        BY <1>1, <3>1
      <3> HIDE DEF side, n
      <3>4. QED
        BY <3>1, <3>2, <3>3
    <2> HIDE DEF side
    <2>4. CASE tok.mark = "." /\ s = "ws"
      <3>1. IsSide(Append(side, tok), "rs", a.found["out"])
        BY <2>2, <2>3, <2>4, SideDot
      <3>2. /\ b.handler = a.handler /\ b.sealed = a.sealed /\ b.found = a.found
            /\ b.place[1] = "out" /\ b.place[2] = "rs"
        BY <1>2, <1>4, <1>9, <2>4
      <3>3. HasArrow(b, more, i)
        BY <2>1, <2>2, <3>1, <3>2 DEF HasArrow
      <3>4. QED
        BY <1>9, <2>1, <3>2, <3>3 DEF IsText
    <2>5. CASE tok.mark = "." /\ s # "ws"
      <3>1. Obstructed(t, more)
        BY <1>7, <2>2, <2>3, <2>5, TwoDots DEF more, n
      <3>2. QED
        BY <1>2, <1>4, <2>5, <3>1
    <2>6. CASE tok.mark \in Arrows
      <3>1. b = Killed(a)
        BY <1>2, <1>9, <2>6
      <3>2. Obstructed(t, more)
        <4>1. i < n + 1
          BY <1>1
        <4>2. QED
          BY <1>1, <1>9, <2>1, <2>2, <2>6, <4>1 DEF Obstructed
      <3>3. QED
        BY <1>2, <3>1, <3>2
    <2>7. CASE tok.mark \notin Marks /\ room
      <3>1. IsSide(Append(side, tok), s, grown)
        BY <1>9, <2>2, <2>3, <2>7, SideValue
      <3>2. /\ b.handler = a.handler /\ b.sealed = a.sealed /\ b.place = a.place
            /\ b.found.type = a.found.type /\ b.found["out"] = grown
            /\ b.found["in"] = a.found["in"]
        BY <1>2, <1>5, <1>9, <2>7
      <3> HIDE DEF grown
      <3>3. HasArrow(b, more, i)
        BY <2>1, <2>2, <3>1, <3>2 DEF HasArrow
      <3>4. QED
        BY <1>9, <2>1, <3>2, <3>3 DEF IsText
    <2>8. CASE tok.mark \notin Marks /\ ~room
      <3>1. ~(Len(a.found["out"][s]) < MaxArgs)
        BY <1>9, <2>8
      <3>2. Obstructed(t, more)
        BY <2>2, <2>3, <2>8, <3>1, NoRoom DEF more, n
      <3>3. QED
        BY <1>2, <1>5, <2>8, <3>2
    <2>9. QED
      BY <1>3, <2>4, <2>5, <2>6, <2>7, <2>8
  <1> HIDE DEF d, s, Goal
  <1>10. Goal
    BY <1>8, <1>9 DEF IsText, d, s, n
  <1>11. QED
    BY <1>10 DEF Goal, b, more

-----------------------------------------------------------------------------
\* What has been read of a comment: its text, and whether it ended in a seal.
IsRead(a, t, toks) == a.sealed = HasSeal(toks) /\ IsText(a, t, TextOf(toks))

Read2(a, t, toks) ==
  \/ a.handler = Second(t) /\ IsRead(a, t, toks)
  \/ a.handler = "none" /\ Obstructed(t, toks)

LEMMA TextGrows ==
  ASSUME NEW toks \in Seq(Tokens), NEW tok \in Tokens
  PROVE  LET more == Append(toks, tok)
         IN  /\ HasSeal(more) <=> tok.mark = "!"
             /\ TextOf(more) = IF tok.mark = "!" THEN toks ELSE more
  <1> DEFINE n == Len(toks)
             more == Append(toks, tok)
  <1>1. /\ n \in Nat /\ more \in Seq(Tokens) /\ Len(more) = n + 1 /\ more[n + 1] = tok
        /\ more # <<>> /\ \A k \in 1 .. n : more[k] = toks[k]
    OBVIOUS
  <1> HIDE DEF more
  <1>2. /\ Len(more) - 1 = n /\ Last(more) = more[Len(more)] /\ Front(more) \in Seq(Tokens)
        /\ Len(Front(more)) = Len(more) - 1
        /\ \A k \in 1 .. Len(more) - 1 : Front(more)[k] = more[k]
    BY <1>1, FrontLast
  <1>3. Last(more) = tok
    BY <1>1, <1>2
  <1> DEFINE f == Front(more)
  <1> HIDE DEF f
  <1>4. f = toks
    <2>1. f \in Seq(Tokens) /\ Len(f) = n /\ \A k \in 1 .. n : f[k] = toks[k]
      BY <1>1, <1>2 DEF f
    <2>2. QED
      BY <2>1, SeqEqual
  <1>5. QED
    BY <1>1, <1>3, <1>4 DEF HasSeal, TextOf, f, more

LEMMA Stage2Step ==
  ASSUME NEW t \in Kinds, NEW a \in Annos(Of(t)), NEW toks \in Seq(Tokens), Read2(a, t, toks),
         NEW tok \in Tokens
  PROVE  Stage2(a, tok) \in Annos(Of(t)) /\ Read2(Stage2(a, tok), t, Append(toks, tok))
  <1> DEFINE n == Len(toks)
             more == Append(toks, tok)
             b == Stage2(a, tok)
  <1>1. /\ n \in Nat /\ Len(more) = n + 1 /\ \A k \in 1 .. n : more[k] = toks[k]
    OBVIOUS
  <1>2. b \in Annos(Of(t))
    <2>1. "none" \in Of(t)
      BY DEF Of, OfLabel, OfOpcode
    <2>2. QED
      BY <2>1, Stage2Type
  <1>3. CASE a.handler = "none" /\ Obstructed(t, toks)
    <2>1. b = a
      BY <1>3 DEF Stage2
    <2>2. Obstructed(t, more)
      BY <1>3, ObstructedStays
    <2>3. QED
      BY <1>2, <1>3, <2>1, <2>2 DEF Read2
  <1>4. /\ HasSeal(more) <=> tok.mark = "!"
        /\ TextOf(more) = IF tok.mark = "!" THEN toks ELSE more
    BY TextGrows
  <1>5. CASE a.handler = Second(t) /\ IsRead(a, t, toks) /\ a.sealed
    <2>1. b.handler = "none"
      BY <1>5, SealedStops
    <2>2. n >= 1 /\ toks[n].mark = "!"
      BY <1>5, TextExact DEF IsRead
    <2> HIDE DEF n, more
    <2>3. n \in 1 .. Len(more) /\ n < Len(more) /\ more[n].mark = "!"
      BY <1>1, <2>2
    <2>4. Obstructed(t, more)
      BY <2>3 DEF Obstructed
    <2>5. QED
      BY <1>2, <2>1, <2>4 DEF Read2, more
  <1>6. CASE a.handler = Second(t) /\ IsRead(a, t, toks) /\ ~a.sealed
    <2>1. IsText(a, t, toks)
      BY <1>6 DEF IsRead, TextOf
    <2>2. CASE tok.mark = "!"
      <3>1. b = [a EXCEPT !.sealed = TRUE]
        BY <1>6, <2>2, Stage2Exact
      <3>2. /\ b.handler = a.handler /\ b.sealed = TRUE /\ b.place = a.place /\ b.found = a.found
        BY <3>1 DEF Annos
      <3> HIDE DEF b, more
      <3>3. IsText(b, t, toks)
        BY <2>1, <3>2 DEF IsText, HasArrow
      <3>4. IsRead(b, t, more)
        BY <1>4, <2>2, <3>2, <3>3 DEF IsRead
      <3>5. QED
        BY <1>2, <1>6, <3>2, <3>4 DEF Read2, b, more
    <2>3. CASE tok.mark # "!"
      <3>1. \/ b.handler = "none" /\ Obstructed(t, more)
            \/ b.handler = Second(t) /\ b.sealed = a.sealed /\ IsText(b, t, more)
        BY <1>6, <2>1, <2>3, TextStep
      <3>2. a.sealed \in BOOLEAN
        BY AnnoParts
      <3> HIDE DEF b, more
      <3>3. HasSeal(more) = FALSE /\ TextOf(more) = more /\ a.sealed = FALSE
        BY <1>4, <1>6, <2>3, <3>2 DEF HasSeal
      <3>4. Read2(b, t, more)
        BY <3>1, <3>3 DEF Read2, IsRead
      <3>5. QED
        BY <1>2, <3>4 DEF b, more
    <2>4. QED
      BY <2>2, <2>3
  <1>7. QED
    BY <1>3, <1>5, <1>6 DEF Read2

\* What has been read so far, of as many tokens.
LEMMA UpToGrows ==
  ASSUME NEW all \in Seq(Tokens)
  PROVE  /\ SubSeq(all, 1, 0) = <<>> /\ SubSeq(all, 1, Len(all)) = all
         /\ \A i \in 1 .. Len(all) :
              /\ SubSeq(all, 1, i - 1) \in Seq(Tokens)
              /\ SubSeq(all, 1, i) = Append(SubSeq(all, 1, i - 1), all[i])
  <1> DEFINE n == Len(all)
             p(i) == SubSeq(all, 1, i)
  <1>1. n \in Nat /\ \A k \in 1 .. n : all[k] \in Tokens
    OBVIOUS
  <1>2. ASSUME NEW i \in 0 .. n
        PROVE  p(i) \in Seq(Tokens) /\ Len(p(i)) = i /\ \A k \in 1 .. i : p(i)[k] = all[k]
    <2>1. 1 \in Nat /\ i \in Nat /\ 1 >= 1 /\ 1 <= i + 1 /\ i <= Len(all)
      BY <1>1
    <2>2. /\ p(i) \in Seq(Tokens) /\ Len(p(i)) = i - 1 + 1
          /\ \A k \in 1 .. i - 1 + 1 : p(i)[k] = all[1 + k - 1]
      BY <2>1, PartExact
    <2> HIDE DEF p
    <2>3. \A k \in 1 .. i : k \in 1 .. i - 1 + 1 /\ 1 + k - 1 = k
      BY <2>1
    <2>4. QED
      BY <2>1, <2>2, <2>3
  <1> HIDE DEF p, n
  <1>3. p(0) = <<>>
    BY <1>1, <1>2, EmptySeq
  <1>4. p(n) = all
    <2>1. p(n) \in Seq(Tokens) /\ Len(p(n)) = Len(all) /\ \A k \in 1 .. Len(all) : p(n)[k] = all[k]
      BY <1>1, <1>2 DEF n
    <2>2. QED
      BY <2>1, SeqEqual
  <1>5. ASSUME NEW i \in 1 .. n
        PROVE  p(i - 1) \in Seq(Tokens) /\ p(i) = Append(p(i - 1), all[i])
    <2> DEFINE x == p(i - 1)
               y == Append(x, all[i])
    <2>1. i - 1 \in 0 .. n /\ i \in 0 .. n /\ i \in Nat
      BY <1>1
    <2>2. x \in Seq(Tokens) /\ Len(x) = i - 1 /\ \A k \in 1 .. i - 1 : x[k] = all[k]
      BY <1>2, <2>1
    <2>3. p(i) \in Seq(Tokens) /\ Len(p(i)) = i /\ \A k \in 1 .. i : p(i)[k] = all[k]
      BY <1>2, <2>1
    <2> HIDE DEF x
    <2>4. y \in Seq(Tokens) /\ Len(y) = i /\ y[i] = all[i] /\ \A k \in 1 .. i - 1 : y[k] = x[k]
      BY <1>1, <2>1, <2>2
    <2> HIDE DEF y
    <2>5. \A k \in 1 .. i : k = i \/ k \in 1 .. i - 1
      BY <2>1
    <2>6. p(i) = y
      BY <2>2, <2>3, <2>4, <2>5, SeqEqual
    <2>7. QED
      BY <2>2, <2>6 DEF y, x
  <1>6. QED
    BY <1>3, <1>4, <1>5 DEF p, n

\* The second stage begins with what the first has kept.
LEMMA ReplayedRead ==
  ASSUME NEW t \in Kinds, NEW a \in Annos(Of(t)), NEW tok \in Tokens
  PROVE  LET b == Replayed(a, Second(t), tok)
         IN  b \in Annos(Of(t)) /\ Read2(b, t, Append(a.tokens, tok))
  <1> DEFINE all == Said(a, tok)
             n == Len(all)
             first == Opened(a, Second(t))
             X == Annos(Of(t))
  <1>1. a.tokens \in Seq(Tokens)
    BY AnnoParts
  <1>2. n \in Nat /\ all \in Seq(Tokens) /\ \A i \in 1 .. n : all[i] \in Tokens
    BY <1>1 DEF Said
  <1>3. PICK f : /\ f[0] = first
                 /\ \A i \in 1 .. n : f[i] = Stage2(f[i - 1], all[i])
                 /\ Replayed(a, Second(t), tok) = f[n]
    <2> HIDE DEF X
    <2> QED
      BY <1>1, ReplayedExact
  <1>4. first \in X /\ Read2(first, t, <<>>)
    <2>1. <<"in", "ws">> \in {"in", "out"} \X Stacks /\ Second(t) \in Of(t)
      BY DEF Stacks, Second, Of, OfLabel, OfOpcode
    <2>2. first \in X
      BY <2>1, NothingTypes DEF Annos, Opened
    <2>3. /\ first.handler = Second(t) /\ first.sealed = FALSE /\ first.found = NoSignature
          /\ first.place = <<"in", "ws">>
      BY DEF Annos, Opened
    <2> HIDE DEF first
    <2>4. first.found["in"] = Empty /\ first.found["out"] = Empty /\ first.found.type = "vector"
      BY <2>3 DEF NoSignature
    <2>5. HasSeal(<<>>) = FALSE /\ TextOf(<<>>) = <<>>
      BY DEF HasSeal, TextOf
    <2>6. IsText(first, t, <<>>)
      BY <2>3, <2>4, SideEmpty DEF IsText
    <2>7. QED
      BY <2>2, <2>3, <2>5, <2>6 DEF Read2, IsRead
  <1> HIDE DEF all, n, first
  <1> DEFINE M == {i \in 0 .. n : f[i] \in X /\ Read2(f[i], t, SubSeq(all, 1, i))}
  <1>5. /\ SubSeq(all, 1, 0) = <<>> /\ SubSeq(all, 1, n) = all
        /\ \A i \in 1 .. n : /\ SubSeq(all, 1, i - 1) \in Seq(Tokens)
                             /\ SubSeq(all, 1, i) = Append(SubSeq(all, 1, i - 1), all[i])
    BY <1>2, UpToGrows DEF n
  <1>6. 0 \in M
    <2>1. 0 \in 0 .. n
      BY <1>2
    <2>2. f[0] \in X /\ Read2(f[0], t, SubSeq(all, 1, 0))
      BY <1>3, <1>4, <1>5
    <2> HIDE DEF X
    <2>3. QED
      BY <2>1, <2>2
  <1>7. ASSUME NEW k \in 0 .. n, k \in M, k + 1 <= n
        PROVE  k + 1 \in M
    <2>1. k + 1 \in 1 .. n /\ (k + 1) - 1 = k /\ k + 1 \in 0 .. n
      BY <1>2, <1>7
    <2>2. f[k] \in X /\ Read2(f[k], t, SubSeq(all, 1, k))
      BY <1>7
    <2>3. /\ f[k + 1] = Stage2(f[k], all[k + 1]) /\ all[k + 1] \in Tokens
          /\ SubSeq(all, 1, k) \in Seq(Tokens)
          /\ SubSeq(all, 1, k + 1) = Append(SubSeq(all, 1, k), all[k + 1])
      BY <1>2, <1>3, <1>5, <2>1
    <2>4. f[k + 1] \in X /\ Read2(f[k + 1], t, SubSeq(all, 1, k + 1))
      BY <2>2, <2>3, Stage2Step
    <2>5. QED
      BY <2>1, <2>4
  <1> HIDE DEF M
  <1>8. n \in M
    <2>1. \A k \in 0 .. n : k \in M /\ k + 1 <= n => k + 1 \in M
      BY <1>7
    <2>2. 0 .. n \subseteq M
      BY <1>2, <1>6, <2>1, Upwards
    <2>3. QED
      BY <1>2, <2>2
  <1>9. f[n] \in X /\ Read2(f[n], t, all)
    BY <1>5, <1>8 DEF M
  <1>10. QED
    BY <1>3, <1>9 DEF all, Said

-----------------------------------------------------------------------------
\* How far a comment has been read after some of its tokens.
Parsed(a, t, toks) ==
  \/ /\ a.handler = First(t) /\ a.tokens = toks /\ HasRoom(toks, Len(toks))
     /\ \A i \in 1 .. Len(toks) : ~Triggers(t, toks[i])
  \/ /\ a.handler = Second(t) /\ IsRead(a, t, toks)
     /\ \E i \in 1 .. Len(toks) : HasRoom(toks, i - 1) /\ Triggers(t, toks[i])
  \/ a.handler = "none" /\ Obstructed(t, toks)

LEMMA OpenedParsed ==
  ASSUME NEW t \in Kinds
  PROVE  LET a == [NoComment EXCEPT !.handler = First(t)]
         IN  a \in Annos(Of(t)) /\ Parsed(a, t, <<>>)
  <1> DEFINE a == [NoComment EXCEPT !.handler = First(t)]
  <1>1. "none" \in Of(t) /\ First(t) \in Of(t)
    BY DEF First, Of, OfLabel, OfOpcode
  <1>2. NoComment \in Annos(Of(t))
    BY <1>1, NothingTypes
  <1>3. a \in Annos(Of(t)) /\ a.handler = First(t) /\ a.tokens = NoComment.tokens
    BY <1>1, <1>2 DEF Annos
  <1>4. NoComment.tokens = <<>> /\ Len(<<>>) = 0 /\ HasRoom(<<>>, 0)
    BY RoomNothing DEF NoComment
  <1> HIDE DEF a
  <1>5. \A i \in 1 .. 0 : FALSE
    OBVIOUS
  <1>6. QED
    BY <1>3, <1>4, <1>5 DEF Parsed, a

LEMMA HandledStep ==
  ASSUME NEW t \in Kinds, NEW a \in Annos(Of(t)), NEW toks \in Seq(Tokens), Parsed(a, t, toks),
         NEW tok \in Tokens
  PROVE  LET b == Handled(a, tok)
         IN  b \in Annos(Of(t)) /\ Parsed(b, t, Append(toks, tok))
  <1> DEFINE n == Len(toks)
             more == Append(toks, tok)
             b == Handled(a, tok)
  <1>1. /\ n \in Nat /\ Len(more) = n + 1 /\ more[n + 1] = tok /\ \A k \in 1 .. n : more[k] = toks[k]
        /\ more \in Seq(Tokens)
    OBVIOUS
  <1>2. \A i \in 0 .. n : HasRoom(more, i) <=> HasRoom(toks, i)
    BY RoomStays
  <1>3. "none" \in Of(t)
    BY DEF Of, OfLabel, OfOpcode
  <1>4. CASE a.handler \in {Second(t), "none"}
    <2>1. b = Stage2(a, tok)
      BY <1>4 DEF Handled, Second
    <2>2. Read2(a, t, toks) /\ (a.handler = Second(t) => \E i \in 1 .. n : HasRoom(toks, i - 1) /\ Triggers(t, toks[i]))
      BY <1>4 DEF Parsed, Read2, First, Second, Kinds
    <2>3. b \in Annos(Of(t)) /\ Read2(b, t, more)
      BY <2>1, <2>2, Stage2Step
    <2>4. b.handler = "none" \/ a.handler = Second(t)
      <3>1. a.handler = "none" => b = a
        BY <2>1 DEF Stage2
      <3>2. QED
        BY <1>4, <3>1
    <2>5. a.handler = Second(t) => \E i \in 1 .. n + 1 : HasRoom(more, i - 1) /\ Triggers(t, more[i])
      <3>1. \A i \in 1 .. n : i - 1 \in 0 .. n /\ i \in 1 .. n + 1
        BY <1>1
      <3> HIDE DEF b, more, n
      <3>2. QED
        BY <1>1, <1>2, <2>2, <3>1
    <2> HIDE DEF b, more, n
    <2>6. "none" # Second(t)
      BY DEF Second
    <2>7. QED
      BY <1>1, <2>3, <2>4, <2>5, <2>6 DEF Read2, Parsed, b, more
  <1>5. CASE /\ a.handler = First(t) /\ a.tokens = toks /\ HasRoom(toks, n)
             /\ \A i \in 1 .. n : ~Triggers(t, toks[i])
    <2>1. b = Parse(a, tok, Triggers(t, tok), Second(t))
      <3>1. CASE t = "label"
        BY <1>5, <3>1 DEF Handled, First, ParseSignature, Triggers, Second
      <3>2. CASE t # "label"
        BY <1>5, <3>2 DEF Handled, First, ParseCast, Triggers, Second
      <3>3. QED
        BY <3>1, <3>2
    <2>2. CASE Triggers(t, tok)
      <3>1. b = Replayed(a, Second(t), tok)
        BY <2>1, <2>2 DEF Parse
      <3>2. b \in Annos(Of(t)) /\ Read2(b, t, more)
        BY <1>5, <3>1, ReplayedRead
      <3>3. n + 1 \in 1 .. Len(more) /\ HasRoom(more, (n + 1) - 1) /\ Triggers(t, more[n + 1])
        <4>1. n \in 0 .. n /\ (n + 1) - 1 = n /\ n + 1 \in 1 .. n + 1
          BY <1>1
        <4> HIDE DEF b, more, n
        <4>2. QED
          BY <1>1, <1>2, <1>5, <2>2, <4>1
      <3> HIDE DEF b, more
      <3>4. QED
        BY <3>2, <3>3 DEF Read2, Parsed, b, more
    <2>3. CASE ~Triggers(t, tok)
      <3>1. \A i \in 1 .. n + 1 : ~Triggers(t, more[i])
        <4>1. \A i \in 1 .. n + 1 : i = n + 1 \/ i \in 1 .. n
          BY <1>1
        <4>2. QED
          BY <1>1, <1>5, <2>3, <4>1
      <3>2. CASE HasRoom(more, n + 1)
        <4>1. b = [a EXCEPT !.tokens = more]
          BY <1>5, <2>1, <2>3, <3>2 DEF Parse
        <4>2. b \in Annos(Of(t)) /\ b.handler = a.handler /\ b.tokens = more
          BY <1>1, <4>1 DEF Annos
        <4>3. HasRoom(more, Len(more))
          BY <1>1, <3>2
        <4> HIDE DEF b, more
        <4>4. QED
          BY <1>1, <1>5, <3>1, <4>2, <4>3 DEF Parsed, b, more
      <3>3. CASE ~HasRoom(more, n + 1)
        <4>1. b = Killed(a)
          BY <1>5, <2>1, <2>3, <3>3 DEF Parse
        <4>2. b \in Annos(Of(t)) /\ b.handler = "none"
          BY <1>3, <4>1, KilledType
        <4>3. n + 1 \in 1 .. Len(more)
          BY <1>1
        <4> HIDE DEF b, more
        <4>4. Obstructed(t, more)
          BY <3>1, <3>3, <4>3 DEF Obstructed, Triggers
        <4>5. QED
          BY <4>2, <4>4 DEF Parsed, b, more
      <3>4. QED
        BY <3>2, <3>3
    <2>4. QED
      BY <2>2, <2>3
  <1>6. QED
    BY <1>4, <1>5 DEF Parsed

\* A side that has been read has no arrow and no seal.
LEMMA SideMarks ==
  ASSUME NEW toks \in Seq(Tokens), NEW place, NEW st, IsSide(toks, place, st)
  PROVE  \A k \in 1 .. Len(toks) : toks[k].mark \notin Arrows /\ toks[k].mark # "!"
  <1>1. CASE Unmarked(toks)
    BY <1>1 DEF Unmarked, Marks, Arrows
  <1>2. ASSUME NEW d \in 1 .. Len(toks), DotAt(toks, d)
        PROVE  \A k \in 1 .. Len(toks) : toks[k].mark \notin Arrows /\ toks[k].mark # "!"
    BY <1>2 DEF DotAt, Marks, Arrows
  <1>3. QED
    BY <1>1, <1>2 DEF IsSide

\* A comment that has been read as a signature is that one, and no other.
LEMMA SignatureRead ==
  ASSUME NEW a \in Annos(OfLabel), NEW toks \in Seq(Tokens), IsRead(a, "label", toks),
         NEW first \in 1 .. Len(toks), HasRoom(toks, first - 1), toks[first].mark \in Arrows
  PROVE  Signatures(toks) = {[sealed |-> a.sealed, sig |-> a.found]}
  <1> DEFINE text == TextOf(toks)
             m == Len(text)
             y == [sealed |-> a.sealed, sig |-> a.found]
  <1>1. /\ text \in Seq(Tokens) /\ m = Len(toks) - (IF HasSeal(toks) THEN 1 ELSE 0)
        /\ \A k \in 1 .. m : text[k] = toks[k]
        /\ HasSeal(toks) => toks[Len(toks)].mark = "!"
    BY TextExact
  <1>2. a.sealed = HasSeal(toks) /\ IsText(a, "label", text) /\ a.found \in Sigs /\ a.found.in \in PlainStacks
        /\ a.found.out \in PlainStacks
    BY AnnoParts DEF IsRead, Sigs
  <1> HIDE DEF text
  <1>3. first \in 1 .. m /\ text[first].mark \in Arrows
    <2>1. first # Len(toks) \/ ~HasSeal(toks)
      BY <1>1 DEF Arrows
    <2>2. first \in 1 .. m
      BY <1>1, <2>1
    <2>3. QED
      BY <1>1, <2>2
  <1>4. PICK i \in 1 .. m : HasArrow(a, text, i)
    <2>1. \A place, st : ~IsSide(text, place, st)
      BY <1>1, <1>3, SideMarks
    <2>2. QED
      BY <1>2, <2>1 DEF IsText
  <1>5. /\ text[i].mark \in Arrows /\ a.found.type = TypeBy(text[i])
        /\ \E place : IsSide(UpTo(text, i), place, a.found["in"])
        /\ IsSide(Beyond(text, i), a.place[2], a.found["out"])
    BY <1>4 DEF HasArrow
  <1>6. /\ UpTo(text, i) \in Seq(Tokens) /\ Len(UpTo(text, i)) = i - 1
        /\ \A k \in 1 .. i - 1 : UpTo(text, i)[k] = text[k]
        /\ Beyond(text, i) \in Seq(Tokens) /\ Len(Beyond(text, i)) = m - i
        /\ \A k \in 1 .. m - i : Beyond(text, i)[k] = text[i + k]
    BY <1>1, AroundArrow
  <1>7. ASSUME NEW k \in 1 .. m, text[k].mark \in Arrows
        PROVE  k = i
    <2>1. ~(k \in 1 .. i - 1)
      BY <1>5, <1>6, <1>7, SideMarks
    <2>2. ~(k \in i + 1 .. m)
      <3>1. SUFFICES ASSUME k \in i + 1 .. m
                     PROVE  FALSE
        OBVIOUS
      <3>2. k - i \in 1 .. m - i /\ i + (k - i) = k
        BY <3>1
      <3>3. Beyond(text, i)[k - i] = text[k] /\ k - i \in 1 .. Len(Beyond(text, i))
        BY <1>6, <3>2
      <3>4. QED
        BY <1>5, <1>6, <1>7, <3>3, SideMarks
    <2>3. QED
      BY <2>1, <2>2
  <1>8. HasRoom(toks, i - 1)
    BY <1>3, <1>7
  <1>9. PICK in : Sides(UpTo(text, i)) = {in} /\ a.found["in"] = OnStacks(in)
    BY <1>5, <1>6, SideExact
  <1>10. PICK out : Sides(Beyond(text, i)) = {out} /\ a.found["out"] = OnStacks(out)
    BY <1>5, <1>6, SideExact
  <1>11. y = Signature(HasSeal(toks), TypeBy(text[i]), in, out)
    <2>1. a.found = [type |-> TypeBy(text[i]), in |-> OnStacks(in), out |-> OnStacks(out)]
      BY <1>2, <1>5, <1>9, <1>10 DEF Sigs
    <2>2. QED
      BY <1>2, <2>1 DEF Signature
  <1> HIDE DEF y
  <1>12. ASSUME NEW x
         PROVE  x \in Signatures(toks) <=> x = y
    <2>1. x \in Signatures(toks) <=>
            \E k \in 1 .. m :
              /\ text[k].mark \in Arrows /\ HasRoom(toks, k - 1)
              /\ \E in1 \in Sides(UpTo(text, k)), out1 \in Sides(Beyond(text, k)) :
                   x = Signature(HasSeal(toks), TypeBy(text[k]), in1, out1)
      BY SignaturesAre DEF text
    <2>2. x \in Signatures(toks) <=>
            \E in1 \in Sides(UpTo(text, i)), out1 \in Sides(Beyond(text, i)) :
               x = Signature(HasSeal(toks), TypeBy(text[i]), in1, out1)
      BY <1>5, <1>7, <1>8, <2>1
    <2>3. QED
      BY <1>9, <1>10, <1>11, <2>2
  <1>13. Signatures(toks) = {y}
    BY <1>12
  <1>14. QED
    BY <1>13 DEF y

\* So is one that has been read as a cast.
LEMMA CastRead ==
  ASSUME NEW a \in Annos(OfOpcode), NEW toks \in Seq(Tokens), IsRead(a, "opcode", toks),
         NEW first \in 1 .. Len(toks), HasRoom(toks, first - 1), toks[first].mark = "!"
  PROVE  Casts(toks) = {a.found.in}
  <1> DEFINE text == TextOf(toks)
             m == Len(text)
             n == Len(toks)
  <1>1. /\ text \in Seq(Tokens) /\ m = n - (IF HasSeal(toks) THEN 1 ELSE 0)
        /\ \A k \in 1 .. m : text[k] = toks[k]
    BY TextExact
  <1>2. a.sealed = HasSeal(toks) /\ IsText(a, "opcode", text)
    BY DEF IsRead
  <1> HIDE DEF text
  <1>3. IsSide(text, a.place[2], a.found["in"])
    BY <1>2 DEF IsText
  <1>4. ~(first \in 1 .. m)
    BY <1>1, <1>3, SideMarks
  <1>5. HasSeal(toks) /\ first = n /\ n \in Nat
    BY <1>1, <1>4
  <1>6. PICK x : Sides(text) = {x} /\ a.found["in"] = OnStacks(x)
    BY <1>1, <1>3, SideExact
  <1>7. Casts(toks) = {OnStacks(sides) : sides \in Sides(Front(toks))}
    <2>1. ~(toks = <<>> \/ Last(toks).mark # "!" \/ ~HasRoom(toks, Len(toks) - 1))
      BY <1>5 DEF HasSeal
    <2>2. QED
      BY <2>1 DEF Casts
  <1>8. Front(toks) = text
    BY <1>5 DEF text, TextOf
  <1>9. Casts(toks) = {OnStacks(x)}
    BY <1>6, <1>7, <1>8
  <1>10. QED
    BY <1>6, <1>9

\* What a comment means is what has been read of it when it closes.
LEMMA ParsedMeans ==
  ASSUME NEW t \in Kinds, NEW a \in Annos(Of(t)), NEW toks \in Seq(Tokens), Parsed(a, t, toks)
  PROVE  /\ a.handler = Second(t) /\ t = "label" =>
              Meanings(t, toks) = {[sealed |-> a.sealed, sig |-> a.found]}
         /\ a.handler = Second(t) /\ t = "opcode" => Meanings(t, toks) = {a.found.in}
         /\ a.handler # Second(t) => Meanings(t, toks) = {}
  <1>1. CASE a.handler = "none" /\ Obstructed(t, toks)
    <2>1. "none" # Second(t)
      BY DEF Second
    <2>2. QED
      BY <1>1, <2>1, ObstructedMeans
  <1>2. CASE /\ a.handler = First(t) /\ \A i \in 1 .. Len(toks) : ~Triggers(t, toks[i])
    <2>1. First(t) # Second(t)
      BY DEF First, Second
    <2>2. Meanings(t, toks) = {}
      <3>1. CASE t = "label"
        BY <1>2, <3>1, SignatureHas DEF Meanings, Triggers
      <3>2. CASE t # "label"
        <4>1. HasSeal(toks) => Len(toks) \in 1 .. Len(toks) /\ toks[Len(toks)].mark = "!"
          BY TextExact
        <4>2. QED
          BY <1>2, <3>2, <4>1, CastHas DEF Meanings, Triggers
      <3>3. QED
        BY <3>1, <3>2
    <2>3. QED
      BY <1>2, <2>1, <2>2
  <1>3. ASSUME a.handler = Second(t), IsRead(a, t, toks),
               NEW i \in 1 .. Len(toks), HasRoom(toks, i - 1), Triggers(t, toks[i])
        PROVE  /\ t = "label" => Meanings(t, toks) = {[sealed |-> a.sealed, sig |-> a.found]}
               /\ t = "opcode" => Meanings(t, toks) = {a.found.in}
    <2>1. CASE t = "label"
      BY <1>3, <2>1, SignatureRead DEF Meanings, Triggers, Of
    <2>2. CASE t = "opcode"
      BY <1>3, <2>2, CastRead DEF Meanings, Triggers, Of
    <2>3. QED
      BY <2>1, <2>2
  <1>4. QED
    BY <1>1, <1>2, <1>3 DEF Parsed

-----------------------------------------------------------------------------
\* A program stays as it is.
LEMMA ProgramStays ==
  ASSUME program' = program
  PROVE  /\ \A i : Opens(i)' = Opens(i) /\ CommentEnd(i)' = CommentEnd(i)
         /\ \A i, j : IsAbout(i, j)' = IsAbout(i, j)
  <1>1. \A i : CommentEnd(i)' = CommentEnd(i)
    BY DEF CommentEnd
  <1>2. \A i : Opens(i)' = Opens(i)
    BY DEF Opens
  <1>3. \A i, j : IsAbout(i, j)' = IsAbout(i, j)
    BY DEF IsAbout
  <1>4. QED
    BY <1>1, <1>2, <1>3

-----------------------------------------------------------------------------
(***************************************************************************)
(* The invariant: what has been read of the comment that is open, and what *)
(* those that are closed have told.                                        *)
(***************************************************************************)
About(i, t, addr) ==
  \E j \in DOMAIN program : IsAbout(i, j) /\ program[j].t = t /\ program[j].addr = addr

IsOpen(i) == Opens(i) /\ i < pos /\ pos <= CommentEnd(i)

\* What a comment says before a place in it, and whether another one is there.
Until(i, p) == [k \in 1 .. p - i - 1 |-> program[i + k].tok]
Simple(i, p) == \A k \in i + 1 .. p - 1 : program[k].id = 1

\* The comments that have told something of an address before a place.
Told(t, addr, p) ==
  {i \in DOMAIN program :
     /\ Opens(i) /\ CommentEnd(i) < p
     /\ ~Nests(i) /\ Meanings(t, Inside(i)) # {} /\ About(i, t, addr)}

Earliest(is) == CHOOSE i \in is : \A j \in is : i <= j

IsCurrent ==
  /\ current.has => current.t \in Kinds /\ About(pos, current.t, current.addr)
  /\ ~current.has => \A j \in DOMAIN program : ~IsAbout(pos, j)

IsReading ==
  /\ \A i \in DOMAIN program : IsOpen(i) =>
       IF current.has /\ Simple(i, pos)
       THEN anno \in Annos(Of(current.t)) /\ Parsed(anno, current.t, Until(i, pos))
       ELSE anno.handler = "none"
  /\ (\A i \in DOMAIN program : ~IsOpen(i)) => anno.handler = "none"

HasLabels ==
  \A i \in DOMAIN program : i < pos /\ program[i].t = "label" => program[i].addr \in DOMAIN infos

\* What is known of an address, and what it has been told.
IsSigned(info, is) ==
  /\ info.routine = (is # {})
  /\ info.routine => Meanings("label", Inside(Earliest(is))) = {[sealed |-> ~info.marked, sig |-> info.sig]}

HasSignatures ==
  \A a \in DOMAIN infos :
    /\ IsSigned(infos[a], Told("label", a, pos))
    /\ infos[a].marked => \E i \in DOMAIN list : list[i].info = a

HasCasts ==
  \A a :
    /\ (a \in DOMAIN casts) = (Told("opcode", a, pos) # {})
    /\ a \in DOMAIN casts =>
         Meanings("opcode", Inside(Earliest(Told("opcode", a, pos)))) = {casts[a]}

CInv ==
  phase = "pass" => IsCurrent /\ IsReading /\ HasLabels /\ HasSignatures /\ HasCasts

\* Programs are those the assembler can report.
Runs == program \in Seq(Reported) /\ \A i \in 1 .. Len(program) : Continues(program, i)

\* A comment goes on until one symbol closes it.
LEMMA CommentRuns ==
  ASSUME Runs, NEW i \in DOMAIN program, Opens(i)
  PROVE  LET e == CommentEnd(i)
         IN  /\ e \in i + 1 .. Len(program) /\ Closes(program[e])
             /\ \A k \in i + 1 .. e - 1 : ~Closes(program[k])
             /\ \A k \in i + 1 .. e : program[k].t = "comment" /\ program[k].id > 0
  <1> DEFINE L == Len(program)
             Ends(j) == Closes(program[j]) /\ \A k \in i + 1 .. j - 1 : ~Closes(program[k])
             S == {k \in i .. L : k > i => program[k].t = "comment" /\ program[k].id > 0}
             T == {k \in i + 1 .. L : Closes(program[k])}
  <1>1. L \in Nat /\ i \in 1 .. L /\ DOMAIN program = 1 .. L
    BY DEF Runs
  <1>2. program[i].t = "comment" /\ program[i].id = 0 /\ ~Closes(program[i])
    BY DEF Opens, Closes
  <1>3. ASSUME NEW k \in i .. L, k \in S, ~Closes(program[k])
        PROVE  k < L /\ k + 1 \in S
    <2>1. program[k].t = "comment" /\ k \in 1 .. L
      BY <1>1, <1>2, <1>3
    <2>2. k < L /\ program[k + 1].t = "comment" /\ program[k + 1].id > 0
      BY <1>3, <2>1 DEF Runs, Continues
    <2>3. QED
      BY <1>1, <2>2
  <1>4. i \in S
    BY <1>1
  <1> HIDE DEF L
  <1>5. T # {}
    <2>1. SUFFICES ASSUME T = {}
                   PROVE  FALSE
      OBVIOUS
    <2>2. \A k \in i .. L : ~Closes(program[k])
      BY <1>1, <1>2, <2>1
    <2> HIDE DEF S
    <2>3. i .. L \subseteq S
      <3>1. \A k \in i .. L : k \in S /\ k + 1 <= L => k + 1 \in S
        BY <1>3, <2>2
      <3>2. i \in Int /\ L \in Int /\ (i <= L => i \in S)
        BY <1>1, <1>4
      <3>3. QED
        BY <3>1, <3>2, Upwards
    <2>4. L \in i .. L
      BY <1>1
    <2>5. L < L
      BY <1>3, <2>2, <2>3, <2>4
    <2>6. QED
      BY <1>1, <2>5
  <1>6. PICK e \in T : \A k \in T : e <= k
    <2>1. T \subseteq Nat
      BY <1>1
    <2> HIDE DEF T
    <2>2. QED
      BY <1>5, <2>1, Lowest
  <1>7. e \in i + 1 .. L /\ Ends(e)
    <2>1. \A k \in i + 1 .. e - 1 : k \in i + 1 .. L /\ ~(e <= k)
      BY <1>1, <1>6
    <2>2. QED
      BY <1>6, <2>1
  <1> DEFINE c == CommentEnd(i)
  <1>8. c \in i + 1 .. L /\ Ends(c)
    <2>1. c = CHOOSE j \in i + 1 .. L : Ends(j)
      BY DEF CommentEnd, L
    <2> HIDE DEF c, Ends
    <2>2. QED
      BY <1>7, <2>1
  <1> HIDE DEF c
  <1>9. c - 1 \in Int /\ i .. c - 1 \subseteq S
    <2>1. \A k \in i .. c - 1 : k \in i .. L /\ ~Closes(program[k])
      BY <1>1, <1>2, <1>8
    <2> HIDE DEF S
    <2>2. \A k \in i .. c - 1 : k \in S /\ k + 1 <= c - 1 => k + 1 \in S
      BY <1>3, <2>1
    <2>3. i \in Int /\ c - 1 \in Int /\ (i <= c - 1 => i \in S)
      BY <1>1, <1>4, <1>8
    <2> DEFINE d == c - 1
    <2>4. i \in Int /\ d \in Int /\ (i <= d => i \in S)
          /\ \A k \in i .. d : k \in S /\ k + 1 <= d => k + 1 \in S
      BY <2>2, <2>3
    <2> HIDE DEF d
    <2>5. i .. d \subseteq S
      BY <2>4, Upwards
    <2>6. QED
      BY <2>3, <2>5 DEF d
  <1>10. c \in S
    <2>1. c - 1 \in i .. c - 1 /\ c - 1 \in i .. L /\ (c - 1) + 1 = c
      BY <1>1, <1>8
    <2>2. c - 1 \in S
      BY <1>9, <2>1
    <2>3. ~Closes(program[c - 1])
      BY <1>1, <1>2, <1>8, <2>1
    <2> HIDE DEF S
    <2>4. QED
      BY <1>3, <2>1, <2>2, <2>3
  <1>11. ASSUME NEW k \in i + 1 .. c
         PROVE  program[k].t = "comment" /\ program[k].id > 0
    <2>1. k \in S /\ k > i
      <3>1. k = c \/ k \in i .. c - 1
        BY <1>1, <1>8
      <3>2. QED
        BY <1>1, <1>8, <1>9, <1>10, <3>1
    <2>2. QED
      BY <2>1
  <1>12. QED
    BY <1>8, <1>11 DEF L, c

\* Of the comments that are open there is one, since the next opens behind it.
LEMMA OneOpens ==
  ASSUME Runs, NEW i \in DOMAIN program, NEW j \in DOMAIN program, Opens(i), Opens(j), i < j
  PROVE  CommentEnd(i) < j
  <1>1. /\ CommentEnd(i) \in Int
        /\ \A k \in i + 1 .. CommentEnd(i) : program[k].id > 0
    BY CommentRuns DEF Runs
  <1>2. program[j].id = 0 /\ j \in Int /\ i \in Int
    BY DEF Opens, Runs
  <1>3. ~(j \in i + 1 .. CommentEnd(i))
    BY <1>1, <1>2
  <1>4. QED
    BY <1>1, <1>2, <1>3

\* The next symbol leaves a comment open unless it closes it.
LEMMA OpenStep ==
  ASSUME Runs, NEW p \in DOMAIN program, NEW i \in DOMAIN program, Opens(i)
  PROVE  LET e == CommentEnd(i)
         IN  /\ e \in Int
             /\ (i < p + 1 /\ p + 1 <= e) <=> (i = p \/ (i < p /\ p <= e /\ ~Closes(program[p])))
             /\ i < p /\ p <= e => program[p].t = "comment" /\ program[p].id > 0
             /\ i < p /\ p <= e => (e = p <=> Closes(program[p]))
             /\ e = p => i < p
  <1> DEFINE e == CommentEnd(i)
  <1>1. /\ e \in i + 1 .. Len(program) /\ Closes(program[e])
        /\ \A k \in i + 1 .. e - 1 : ~Closes(program[k])
        /\ \A k \in i + 1 .. e : program[k].t = "comment" /\ program[k].id > 0
    BY CommentRuns
  <1>2. i \in Int /\ p \in Int /\ Len(program) \in Nat
    BY DEF Runs
  <1> HIDE DEF e
  <1>3. e \in Int
    BY <1>1, <1>2
  <1>4. i < p /\ p <= e => p \in i + 1 .. e /\ (p # e => p \in i + 1 .. e - 1)
    BY <1>2, <1>3
  <1>5. i < p /\ p <= e => (e = p <=> Closes(program[p]))
    BY <1>1, <1>4
  <1>6. (i < p + 1 /\ p + 1 <= e) <=> (i = p \/ (i < p /\ p <= e /\ ~Closes(program[p])))
    <2>1. i + 1 <= e
      BY <1>1, <1>2
    <2>2. (i < p + 1 /\ p + 1 <= e) <=> (i = p \/ (i < p /\ p <= e /\ p # e))
      BY <1>2, <1>3, <2>1
    <2>3. QED
      BY <1>5, <2>2
  <1>7. QED
    BY <1>1, <1>2, <1>3, <1>4, <1>5, <1>6 DEF e

\* What a comment is about is one symbol, and the same all along.
LEMMA OneAbout ==
  ASSUME program \in Seq(Reported), NEW i \in Int, NEW j \in DOMAIN program, NEW k \in DOMAIN program,
         IsAbout(i, j), IsAbout(i, k)
  PROVE  j = k
  <1>1. j \in Int /\ k \in Int
    OBVIOUS
  <1>2. ~(j < k) /\ ~(k < j)
    BY <1>1 DEF IsAbout
  <1>3. QED
    BY <1>1, <1>2

LEMMA AboutStep ==
  ASSUME program \in Seq(Reported), NEW p \in DOMAIN program, NEW j \in DOMAIN program
  PROVE  IsAbout(p + 1, j) <=>
           \/ j = p /\ program[p].t \in {"label", "opcode"}
           \/ IsAbout(p, j) /\ program[p].t \notin {"label", "opcode", "macro"}
  <1>1. p \in Int /\ j \in Int
    OBVIOUS
  <1>2. CASE j = p
    <2>1. j < p + 1 /\ ~(j < p) /\ \A k \in j + 1 .. (p + 1) - 1 : FALSE
      BY <1>1, <1>2
    <2>2. QED
      BY <1>2, <2>1 DEF IsAbout
  <1>3. CASE j < p
    <2>1. j < p + 1 /\ \A k : k \in j + 1 .. (p + 1) - 1 <=> (k = p \/ k \in j + 1 .. p - 1)
      BY <1>1, <1>3
    <2>2. QED
      BY <1>1, <1>3, <2>1 DEF IsAbout
  <1>4. CASE p < j
    <2>1. ~(j < p + 1) /\ ~(j < p)
      BY <1>1, <1>4
    <2>2. QED
      BY <1>4, <2>1 DEF IsAbout
  <1>5. QED
    BY <1>1, <1>2, <1>3, <1>4

LEMMA AboutOpen ==
  ASSUME Runs, NEW i \in DOMAIN program, Opens(i), NEW p \in Int, i < p, p <= CommentEnd(i),
         NEW j \in DOMAIN program
  PROVE  IsAbout(p, j) <=> IsAbout(i, j)
  <1>1. /\ CommentEnd(i) \in Int
        /\ \A k \in i + 1 .. CommentEnd(i) : program[k].t = "comment"
    BY CommentRuns DEF Runs
  <1>2. i \in Int /\ j \in Int /\ program[i].t = "comment"
    BY DEF Opens, Runs
  <1>3. \A k \in i .. p - 1 : program[k].t = "comment"
    <2>1. \A k \in i .. p - 1 : k = i \/ k \in i + 1 .. CommentEnd(i)
      BY <1>1, <1>2
    <2>2. QED
      BY <1>1, <1>2, <2>1
  <1>4. CASE j < i
    <2>1. \A k : k \in j + 1 .. p - 1 <=> (k \in j + 1 .. i - 1 \/ k \in i .. p - 1)
      BY <1>2, <1>4
    <2>2. j < p
      BY <1>2, <1>4
    <2>3. QED
      BY <1>3, <1>4, <2>1, <2>2 DEF IsAbout
  <1>5. CASE ~(j < i)
    <2>1. ~(j < p) \/ program[j].t = "comment"
      BY <1>2, <1>3, <1>5
    <2>2. QED
      BY <1>5, <2>1 DEF IsAbout
  <1>6. QED
    BY <1>4, <1>5

\* What a comment says grows with each of its symbols.
LEMMA UntilExact ==
  ASSUME Runs, NEW i \in DOMAIN program, Opens(i), NEW p \in Int, i < p, p <= CommentEnd(i)
  PROVE  /\ Until(i, p) \in Seq(Tokens)
         /\ p < CommentEnd(i) => Until(i, p + 1) = Append(Until(i, p), program[p].tok)
         /\ Simple(i, p + 1) <=> Simple(i, p) /\ program[p].id = 1
  <1> DEFINE e == CommentEnd(i)
             n == p - i - 1
             u == Until(i, p)
             w == Until(i, p + 1)
  <1>1. e \in Int /\ \A k \in i + 1 .. e : program[k].tok \in Tokens
    <2>1. /\ e \in i + 1 .. Len(program)
          /\ \A k \in i + 1 .. e : program[k].t = "comment"
      BY CommentRuns
    <2>2. i \in 1 .. Len(program) /\ Len(program) \in Nat
      BY DEF Runs
    <2> HIDE DEF e
    <2>3. e \in Int /\ \A k \in i + 1 .. e : k \in 1 .. Len(program)
      BY <2>1, <2>2
    <2>4. \A k \in 1 .. Len(program) : program[k] \in Reported
      BY DEF Runs
    <2>5. QED
      BY <2>1, <2>3, <2>4, ReportedParts
  <1> HIDE DEF e
  <1>2. i \in Int /\ n \in Nat /\ p + 1 - i - 1 = n + 1
    BY DEF Runs
  <1>3. \A k \in 1 .. n + 1 : k \in 1 .. n \/ k = n + 1
    BY <1>2
  <1>4. \A k \in 1 .. n : i + k \in i + 1 .. e
    BY <1>1, <1>2 DEF e
  <1>5. i + (n + 1) = p
    BY <1>2
  <1>6. u = [k \in 1 .. n |-> program[i + k].tok]
    BY DEF Until
  <1>7. w = [k \in 1 .. n + 1 |-> program[i + k].tok]
    BY <1>2 DEF Until
  <1> HIDE DEF n, u, w
  <1>8. u \in Seq(Tokens) /\ Len(u) = n /\ \A k \in 1 .. n : u[k] = program[i + k].tok
    BY <1>1, <1>2, <1>4, <1>6
  <1>9. ASSUME p < e
        PROVE  w = Append(u, program[p].tok)
    <2> DEFINE x == program[p].tok
               v == Append(u, x)
    <2>1. x \in Tokens /\ \A k \in 1 .. n + 1 : i + k \in i + 1 .. e
      <3>1. p \in i + 1 .. e /\ \A k \in 1 .. n + 1 : i + k \in i + 1 .. e
        BY <1>1, <1>2, <1>5, <1>9
      <3>2. QED
        BY <1>1, <3>1
    <2>2. w \in Seq(Tokens) /\ Len(w) = n + 1 /\ \A k \in 1 .. n + 1 : w[k] = program[i + k].tok
      BY <1>1, <1>2, <1>7, <2>1
    <2>3. w[n + 1] = x
      BY <1>2, <1>5, <2>2
    <2> HIDE DEF x
    <2>4. v \in Seq(Tokens) /\ Len(v) = n + 1 /\ v[n + 1] = x /\ \A k \in 1 .. n : v[k] = u[k]
      BY <1>8, <2>1
    <2> HIDE DEF v
    <2>5. w = v
      BY <1>2, <1>3, <1>8, <2>2, <2>3, <2>4, SeqEqual
    <2>6. QED
      BY <2>5 DEF v, x
  <1>10. Simple(i, p + 1) <=> Simple(i, p) /\ program[p].id = 1
    <2>1. \A k : k \in i + 1 .. (p + 1) - 1 <=> (k = p \/ k \in i + 1 .. p - 1)
      BY <1>2
    <2>2. QED
      BY <2>1 DEF Simple
  <1>11. QED
    BY <1>8, <1>9, <1>10 DEF u, w, e

LEMMA UntilOpened ==
  ASSUME NEW i \in Int
  PROVE  Until(i, i + 1) = <<>> /\ Simple(i, i + 1)
  <1>1. i + 1 - i - 1 = 0 /\ (i + 1) - 1 = i
    OBVIOUS
  <1> DEFINE u == Until(i, i + 1)
  <1>2. u = [k \in 1 .. 0 |-> program[i + k].tok]
    BY <1>1 DEF Until
  <1> HIDE DEF u
  <1>3. u = <<>>
    BY <1>2
  <1>4. Simple(i, i + 1)
    BY <1>1 DEF Simple
  <1>5. QED
    BY <1>3, <1>4 DEF u

LEMMA UntilClosed ==
  ASSUME Runs, NEW i \in DOMAIN program, Opens(i)
  PROVE  Inside(i) = Until(i, CommentEnd(i)) /\ (Nests(i) <=> ~Simple(i, CommentEnd(i)))
  <1> DEFINE e == CommentEnd(i)
  <1>1. e \in Int /\ i \in Int
    BY CommentRuns DEF Runs
  <1> HIDE DEF e
  <1>2. e - i - 1 = e - i - 1
    OBVIOUS
  <1>3. Inside(i) = Until(i, e)
    BY <1>1 DEF Inside, Until, e
  <1>4. Nests(i) <=> ~Simple(i, e)
    BY DEF Nests, Simple, e
  <1>5. QED
    BY <1>3, <1>4 DEF e

-----------------------------------------------------------------------------
\* What a step of the assembler does to what the invariant speaks of.
LEMMA ReadStays ==
  ASSUME program' = program
  PROVE  /\ \A i : Until(i, pos)' = Until(i, pos') /\ Simple(i, pos)' = Simple(i, pos')
         /\ \A i, t, addr : About(i, t, addr)' = About(i, t, addr)
         /\ \A i : Inside(i)' = Inside(i) /\ Nests(i)' = Nests(i)
  <1>1. \A i : Until(i, pos)' = Until(i, pos') /\ Simple(i, pos)' = Simple(i, pos')
    BY DEF Until, Simple
  <1>2. \A i, t, addr : About(i, t, addr)' = About(i, t, addr)
    BY ProgramStays DEF About
  <1>3. \A i : CommentEnd(i)' = CommentEnd(i)
    BY ProgramStays
  <1>4. \A i : Inside(i)' = Inside(i)
    BY <1>3 DEF Inside
  <1>5. \A i : Nests(i)' = Nests(i)
    BY <1>3 DEF Nests
  <1>6. QED
    BY <1>1, <1>2, <1>4, <1>5

LEMMA ToldStays ==
  ASSUME program' = program
  PROVE  \A t, addr : Told(t, addr, pos)' = Told(t, addr, pos')
  BY ProgramStays, ReadStays DEF Told

LEMMA OpenMoves ==
  ASSUME Runs, pos \in DOMAIN program, program' = program, pos' = pos + 1
  PROVE  \A i \in DOMAIN program :
           /\ IsOpen(i)' <=> ((i = pos /\ Opens(pos)) \/ (IsOpen(i) /\ ~Closes(program[pos])))
           /\ IsOpen(i) => program[pos].t = "comment" /\ program[pos].id > 0
  <1> SUFFICES ASSUME NEW i \in DOMAIN program
               PROVE  /\ IsOpen(i)' <=> ((i = pos /\ Opens(pos)) \/ (IsOpen(i) /\ ~Closes(program[pos])))
                      /\ IsOpen(i) => program[pos].t = "comment" /\ program[pos].id > 0
    OBVIOUS
  <1>1. Opens(i)' = Opens(i) /\ CommentEnd(i)' = CommentEnd(i)
    BY ProgramStays
  <1>2. IsOpen(i)' <=> Opens(i) /\ i < pos + 1 /\ pos + 1 <= CommentEnd(i)
    BY <1>1 DEF IsOpen
  <1>3. CASE Opens(i)
    BY <1>2, <1>3, OpenStep DEF IsOpen
  <1>4. CASE ~Opens(i)
    BY <1>2, <1>4 DEF IsOpen
  <1>5. QED
    BY <1>3, <1>4

\* A symbol of another kind finds no comment open.
LEMMA NoneOpen ==
  ASSUME Runs, pos \in DOMAIN program, program' = program, pos' = pos + 1,
         IsReading, program[pos].t # "comment" \/ program[pos].id = 0
  PROVE  /\ anno.handler = "none"
         /\ \A i \in DOMAIN program : IsOpen(i)' <=> (i = pos /\ Opens(pos))
  <1>1. \A i \in DOMAIN program : ~IsOpen(i)
    <2>1. ~(program[pos].t = "comment" /\ program[pos].id > 0)
      OBVIOUS
    <2>2. QED
      BY <2>1, OpenMoves
  <1>2. anno.handler = "none"
    BY <1>1 DEF IsReading
  <1>3. QED
    BY <1>1, <1>2, OpenMoves

LEMMA KilledNone ==
  ASSUME IInv, phase = "pass"
  PROVE  Killed(anno).handler = "none"
  <1>1. anno \in Annos(OfOpcode) \/ anno \in Annos(OfLabel)
    BY DEF IInv, IsComment
  <1>2. "none" \in OfOpcode /\ "none" \in OfLabel
    BY DEF OfOpcode, OfLabel
  <1>3. QED
    BY <1>1, <1>2, KilledType

LEMMA ReadingLeft ==
  ASSUME IInv, phase = "pass", Runs, pos \in DOMAIN program, program' = program, pos' = pos + 1,
         IsReading, program[pos].t # "comment", anno' = anno \/ anno' = Killed(anno)
  PROVE  IsReading'
  <1>1. \A i \in DOMAIN program : ~IsOpen(i)'
    BY NoneOpen DEF Opens
  <1>2. anno'.handler = "none"
    BY NoneOpen, KilledNone
  <1>3. QED
    BY <1>1, <1>2 DEF IsReading

LEMMA OpenReading ==
  ASSUME IInv, phase = "pass", Runs, pos \in DOMAIN program, IsReading, IsCurrent, OpenComment
  PROVE  IsReading'
  <1>1. /\ program' = program /\ pos' = pos + 1 /\ current' = current
        /\ program[pos].t = "comment" /\ program[pos].id = 0
        /\ anno' = IF program[pos].tok.mark = "(" /\ current.has
                   THEN [NoComment EXCEPT !.handler = First(current.t)] ELSE anno
    BY DEF OpenComment, Reads, First
  <1>2. /\ anno.handler = "none"
        /\ \A i \in DOMAIN program : IsOpen(i)' <=> (i = pos /\ Opens(pos))
    BY <1>1, NoneOpen
  <1>3. CASE Opens(pos) /\ current.has
    <2>1. current.t \in Kinds
      BY <1>3 DEF IsCurrent
    <2>2. anno' = [NoComment EXCEPT !.handler = First(current.t)]
      BY <1>1, <1>3 DEF Opens
    <2>3. anno' \in Annos(Of(current.t)) /\ Parsed(anno', current.t, <<>>)
      BY <2>1, <2>2, OpenedParsed
    <2>4. Until(pos, pos + 1) = <<>>
      BY UntilOpened DEF Runs
    <2>5. ASSUME NEW i \in DOMAIN program, IsOpen(i)'
          PROVE  anno' \in Annos(Of(current'.t)) /\ Parsed(anno', current'.t, Until(i, pos)')
      <3>1. i = pos
        BY <1>2, <2>5
      <3>2. Until(i, pos)' = <<>>
        BY <1>1, <2>4, <3>1, ReadStays
      <3>3. QED
        BY <1>1, <2>3, <3>2
    <2>6. \E i \in DOMAIN program : IsOpen(i)'
      BY <1>2, <1>3
    <2>7. current'.has
      BY <1>1, <1>3
    <2>8. \A i \in DOMAIN program : IsOpen(i)' => Simple(i, pos)'
      <3>1. Simple(pos, pos + 1)
        BY UntilOpened DEF Runs
      <3>2. QED
        BY <1>1, <1>2, <3>1, ReadStays
    <2>9. QED
      BY <1>1, <2>5, <2>6, <2>7, <2>8 DEF IsReading
  <1>4. CASE ~(Opens(pos) /\ current.has)
    <2>1. anno' = anno
      BY <1>1, <1>4 DEF Opens
    <2>2. anno'.handler = "none" /\ \A i \in DOMAIN program : IsOpen(i)' => ~current'.has
      BY <1>1, <1>2, <1>4, <2>1
    <2>3. QED
      BY <1>1, <2>2 DEF IsReading
  <1>5. QED
    BY <1>3, <1>4

LEMMA InReading ==
  ASSUME IInv, phase = "pass", Runs, pos \in DOMAIN program, IsReading, IsCurrent, InComment
  PROVE  IsReading'
  <1> DEFINE sym == program[pos]
  <1>1. /\ program' = program /\ pos' = pos + 1 /\ current' = current
        /\ sym.t = "comment" /\ sym.id > 0 /\ ~Closes(sym)
        /\ anno' = IF sym.id = 1 THEN Handled(anno, sym.tok) ELSE Killed(anno)
    BY DEF InComment, Reads
  <1>2. sym.tok \in Tokens
    BY <1>1, ReportedParts DEF Runs
  <1>3. \A i \in DOMAIN program : IsOpen(i)' <=> IsOpen(i)
    <2>1. ~Opens(pos)
      BY <1>1 DEF Opens
    <2>2. QED
      BY <1>1, <2>1, OpenMoves
  <1>4. anno.handler = "none" => anno'.handler = "none"
    <2>1. anno.handler = "none" => Handled(anno, sym.tok) = anno
      BY DEF Handled, Stage2
    <2>2. QED
      BY <1>1, <2>1, KilledNone
  <1>5. ASSUME NEW i \in DOMAIN program, IsOpen(i)
        PROVE  IF current'.has /\ Simple(i, pos)'
               THEN anno' \in Annos(Of(current'.t)) /\ Parsed(anno', current'.t, Until(i, pos)')
               ELSE anno'.handler = "none"
    <2>1. Opens(i) /\ i < pos /\ pos <= CommentEnd(i) /\ pos \in Int /\ CommentEnd(i) # pos
      <3>1. Opens(i) /\ i < pos /\ pos <= CommentEnd(i) /\ pos \in Int
        BY <1>5 DEF IsOpen, Runs
      <3>2. QED
        BY <1>1, <3>1, OpenStep
    <2>2. pos < CommentEnd(i)
      <3>1. CommentEnd(i) \in Int
        BY <2>1, OpenStep
      <3>2. QED
        BY <2>1, <3>1
    <2>3. /\ Until(i, pos) \in Seq(Tokens)
          /\ Until(i, pos + 1) = Append(Until(i, pos), sym.tok)
          /\ Simple(i, pos + 1) <=> Simple(i, pos) /\ sym.id = 1
      BY <2>1, <2>2, UntilExact
    <2>4. Until(i, pos)' = Until(i, pos + 1) /\ Simple(i, pos)' = Simple(i, pos + 1)
      BY <1>1, ReadStays
    <2>5. IF current.has /\ Simple(i, pos)
          THEN anno \in Annos(Of(current.t)) /\ Parsed(anno, current.t, Until(i, pos))
          ELSE anno.handler = "none"
      BY <1>5 DEF IsReading
    <2>6. CASE current.has /\ Simple(i, pos) /\ sym.id = 1
      <3>1. current.t \in Kinds /\ anno' = Handled(anno, sym.tok)
        BY <1>1, <2>6 DEF IsCurrent
      <3> HIDE DEF sym
      <3>2. /\ anno' \in Annos(Of(current.t))
            /\ Parsed(anno', current.t, Append(Until(i, pos), sym.tok))
        BY <1>2, <2>3, <2>5, <2>6, <3>1, HandledStep
      <3>3. QED
        BY <1>1, <2>3, <2>4, <2>6, <3>2
    <2>7. CASE ~(current.has /\ Simple(i, pos) /\ sym.id = 1)
      <3>1. anno'.handler = "none"
        BY <1>1, <1>4, <2>5, <2>7, KilledNone
      <3>2. QED
        BY <1>1, <2>3, <2>4, <2>7, <3>1
    <2>8. QED
      BY <2>6, <2>7
  <1>6. (\A i \in DOMAIN program : ~IsOpen(i)) => anno'.handler = "none"
    BY <1>4 DEF IsReading
  <1>7. QED
    BY <1>1, <1>3, <1>5, <1>6 DEF IsReading

LEMMA CloseReading ==
  ASSUME IInv, phase = "pass", Runs, pos \in DOMAIN program, IsReading, CloseComment
  PROVE  IsReading'
  <1>1. /\ program' = program /\ pos' = pos + 1 /\ Closes(program[pos]) /\ anno' = Killed(anno)
    BY DEF CloseComment, Reads
  <1>2. ~Opens(pos)
    BY <1>1 DEF Opens, Closes
  <1>3. \A i \in DOMAIN program : ~IsOpen(i)'
    BY <1>1, <1>2, OpenMoves
  <1>4. anno'.handler = "none"
    BY <1>1, KilledNone
  <1>5. QED
    BY <1>1, <1>3, <1>4 DEF IsReading

-----------------------------------------------------------------------------
\* What a comment would be about.
LEMMA AboutNow ==
  ASSUME program' = program
  PROVE  /\ About(pos, current.t, current.addr)' = About(pos', current'.t, current'.addr)
         /\ \A j : IsAbout(pos, j)' = IsAbout(pos', j)
  BY DEF About, IsAbout

LEMMA CurrentStep ==
  ASSUME Runs, pos \in DOMAIN program, program' = program, pos' = pos + 1, IsCurrent,
         \/ /\ program[pos].t \in Kinds
            /\ current' = [has |-> TRUE, t |-> program[pos].t, addr |-> program[pos].addr]
         \/ program[pos].t = "macro" /\ ~current'.has
         \/ program[pos].t \notin {"label", "opcode", "macro"} /\ current' = current
  PROVE  IsCurrent'
  <1>1. \A j \in DOMAIN program :
          IsAbout(pos + 1, j) <=>
            \/ j = pos /\ program[pos].t \in {"label", "opcode"}
            \/ IsAbout(pos, j) /\ program[pos].t \notin {"label", "opcode", "macro"}
    BY AboutStep DEF Runs
  <1>2. CASE /\ program[pos].t \in Kinds
             /\ current' = [has |-> TRUE, t |-> program[pos].t, addr |-> program[pos].addr]
    <2>1. current'.has /\ current'.t = program[pos].t /\ current'.addr = program[pos].addr
      BY <1>2
    <2>2. IsAbout(pos + 1, pos)
      BY <1>1, <1>2 DEF Kinds
    <2>3. About(pos + 1, current'.t, current'.addr)
      BY <2>1, <2>2 DEF About
    <2>4. QED
      BY <1>2, <2>1, <2>3, AboutNow DEF IsCurrent
  <1>3. CASE program[pos].t = "macro" /\ ~current'.has
    <2>1. \A j \in DOMAIN program : ~IsAbout(pos + 1, j)
      BY <1>1, <1>3
    <2>2. QED
      BY <1>3, <2>1, AboutNow DEF IsCurrent
  <1>4. CASE program[pos].t \notin {"label", "opcode", "macro"} /\ current' = current
    <2>1. \A j \in DOMAIN program : IsAbout(pos + 1, j) <=> IsAbout(pos, j)
      BY <1>1, <1>4
    <2>2. About(pos + 1, current.t, current.addr) <=> About(pos, current.t, current.addr)
      BY <2>1 DEF About
    <2>3. QED
      BY <1>4, <2>1, <2>2, AboutNow DEF IsCurrent
  <1>5. QED
    BY <1>2, <1>3, <1>4

-----------------------------------------------------------------------------
\* A comment tells something where it closes.
LEMMA ToldGrows ==
  ASSUME Runs, pos \in DOMAIN program, program' = program, pos' = pos + 1, NEW t, NEW addr
  PROVE  /\ \A i \in DOMAIN program :
              i \in Told(t, addr, pos)' <=>
                \/ i \in Told(t, addr, pos)
                \/ /\ Opens(i) /\ CommentEnd(i) = pos
                   /\ ~Nests(i) /\ Meanings(t, Inside(i)) # {} /\ About(i, t, addr)
         /\ Told(t, addr, pos) \subseteq DOMAIN program /\ Told(t, addr, pos)' \subseteq DOMAIN program
  <1>1. Told(t, addr, pos)' = Told(t, addr, pos + 1)
    BY ToldStays
  <1>2. \A i \in DOMAIN program : Opens(i) => (CommentEnd(i) < pos + 1 <=> CommentEnd(i) < pos \/ CommentEnd(i) = pos)
    <2>1. \A i \in DOMAIN program : Opens(i) => CommentEnd(i) \in Int
      BY OpenStep
    <2>2. pos \in Int
      BY DEF Runs
    <2>3. QED
      BY <2>1, <2>2
  <1>3. QED
    BY <1>1, <1>2 DEF Told

LEMMA ToldLeft ==
  ASSUME Runs, pos \in DOMAIN program, program' = program, pos' = pos + 1, ~Closes(program[pos]),
         NEW t, NEW addr
  PROVE  Told(t, addr, pos)' = Told(t, addr, pos)
  <1>1. \A i \in DOMAIN program : Opens(i) => CommentEnd(i) # pos
    BY CommentRuns
  <1>2. QED
    BY <1>1, ToldGrows

\* The comment that closes comes after those that have told something already.
LEMMA ToldClosed ==
  ASSUME IInv, phase = "pass", Runs, pos \in DOMAIN program, IsReading, IsCurrent,
         program' = program, pos' = pos + 1, Closes(program[pos])
  PROVE  \E i \in Nat :
           /\ \A t \in Kinds : \A addr :
                Told(t, addr, pos)' =
                  IF anno.handler = Second(t) /\ current.addr = addr THEN Told(t, addr, pos) \union {i}
                  ELSE Told(t, addr, pos)
           /\ \A t, addr : \A k \in Told(t, addr, pos) : k \in Nat /\ k < i
           /\ anno.handler = Second("label") =>
                Meanings("label", Inside(i)) = {[sealed |-> anno.sealed, sig |-> anno.found]}
           /\ anno.handler = Second("opcode") => Meanings("opcode", Inside(i)) = {anno.found.in}
  <1>1. pos \in Nat /\ DOMAIN program \subseteq Nat
    BY DEF Runs
  <1>2. \A k \in DOMAIN program : Opens(k) => k < CommentEnd(k) /\ CommentEnd(k) \in Nat
    <2>1. \A k \in DOMAIN program : Opens(k) => CommentEnd(k) \in k + 1 .. Len(program)
      BY CommentRuns
    <2>2. QED
      BY <1>1, <2>1
  <1>3. ASSUME NEW i \in DOMAIN program, IsOpen(i)
        PROVE  /\ \A t \in Kinds : \A addr :
                    Told(t, addr, pos)' =
                      IF anno.handler = Second(t) /\ current.addr = addr
                      THEN Told(t, addr, pos) \union {i}
                      ELSE Told(t, addr, pos)
               /\ \A t, addr : \A k \in Told(t, addr, pos) : k \in Nat /\ k < i
               /\ anno.handler = Second("label") =>
                    Meanings("label", Inside(i)) = {[sealed |-> anno.sealed, sig |-> anno.found]}
               /\ anno.handler = Second("opcode") => Meanings("opcode", Inside(i)) = {anno.found.in}
    <2>1. Opens(i) /\ i < pos /\ CommentEnd(i) = pos
      <3>1. Opens(i) /\ i < pos /\ pos <= CommentEnd(i)
        BY <1>3 DEF IsOpen
      <3>2. QED
        BY <3>1, OpenStep
    <2>2. \A k \in DOMAIN program : Opens(k) /\ CommentEnd(k) = pos => k = i
      <3>1. \A k \in DOMAIN program : Opens(k) /\ i < k => pos < k
        BY <2>1, OneOpens
      <3>2. \A k \in DOMAIN program : Opens(k) /\ k < i => CommentEnd(k) < i
        BY <2>1, OneOpens
      <3>3. QED
        BY <1>1, <1>2, <2>1, <3>1, <3>2
    <2>3. \A k \in DOMAIN program : Opens(k) /\ CommentEnd(k) < pos => k < i
      <3>1. \A k \in DOMAIN program : Opens(k) /\ i < k => pos < k
        BY <2>1, OneOpens
      <3>2. \A k \in DOMAIN program : Opens(k) /\ k = i => CommentEnd(k) = pos
        BY <2>1
      <3>3. QED
        BY <1>1, <1>2, <2>1, <3>1, <3>2
    <2>4. ASSUME NEW t, NEW addr, NEW k \in Told(t, addr, pos)
          PROVE  k \in Nat /\ k < i
      <3>1. k \in DOMAIN program /\ Opens(k) /\ CommentEnd(k) < pos
        BY <2>4 DEF Told
      <3>2. QED
        BY <1>1, <2>3, <3>1
    <2>5. \A t, addr : About(i, t, addr) <=> About(pos, t, addr)
      <3>1. \A j \in DOMAIN program : IsAbout(pos, j) <=> IsAbout(i, j)
        BY <1>1, <2>1, AboutOpen
      <3>2. QED
        BY <3>1 DEF About
    <2>6. Inside(i) = Until(i, pos) /\ (Nests(i) <=> ~Simple(i, pos)) /\ Until(i, pos) \in Seq(Tokens)
      BY <1>1, <2>1, UntilClosed, UntilExact
    <2> DEFINE Adds(t, addr) ==
                 Simple(i, pos) /\ Meanings(t, Until(i, pos)) # {} /\ About(pos, t, addr)
    <2>7. ASSUME NEW t, NEW addr
          PROVE  Told(t, addr, pos)' = IF Adds(t, addr) THEN Told(t, addr, pos) \union {i}
                                                        ELSE Told(t, addr, pos)
      <3>1. \A k \in DOMAIN program :
              k \in Told(t, addr, pos)' <=>
                \/ k \in Told(t, addr, pos)
                \/ /\ Opens(k) /\ CommentEnd(k) = pos
                   /\ ~Nests(k) /\ Meanings(t, Inside(k)) # {} /\ About(k, t, addr)
        BY ToldGrows
      <3>2. Told(t, addr, pos) \subseteq DOMAIN program /\ Told(t, addr, pos)' \subseteq DOMAIN program
        BY ToldGrows
      <3>3. Adds(t, addr) <=> (~Nests(i) /\ Meanings(t, Inside(i)) # {} /\ About(i, t, addr))
        BY <2>5, <2>6
      <3>4. \A k \in DOMAIN program :
              k \in Told(t, addr, pos)' <=> (k \in Told(t, addr, pos) \/ (k = i /\ Adds(t, addr)))
        BY <2>1, <2>2, <3>1, <3>3
      <3> HIDE DEF Adds
      <3>5. QED
        BY <3>2, <3>4
    <2>8. IF current.has /\ Simple(i, pos)
          THEN anno \in Annos(Of(current.t)) /\ Parsed(anno, current.t, Until(i, pos))
          ELSE anno.handler = "none"
      BY <1>3 DEF IsReading
    <2>9. CASE current.has /\ Simple(i, pos)
      <3>1. current.t \in Kinds /\ About(pos, current.t, current.addr)
        BY <2>9 DEF IsCurrent
      <3>2. ASSUME NEW t, NEW addr, About(pos, t, addr)
            PROVE  t = current.t /\ addr = current.addr
        <4>1. PICK j \in DOMAIN program :
                IsAbout(pos, j) /\ program[j].t = current.t /\ program[j].addr = current.addr
          BY <3>1 DEF About
        <4>2. PICK k \in DOMAIN program :
                IsAbout(pos, k) /\ program[k].t = t /\ program[k].addr = addr
          BY <3>2 DEF About
        <4>3. j = k
          BY <1>1, <4>1, <4>2, OneAbout DEF Runs
        <4>4. QED
          BY <4>1, <4>2, <4>3
      <3>3. \A t \in Kinds : anno.handler = Second(t) => t = current.t
        <4>1. anno.handler \in Of(current.t)
          BY <2>8, <2>9, AnnoParts
        <4>2. QED
          BY <3>1, <4>1 DEF Of, OfLabel, OfOpcode, Second, Kinds
      <3>4. LET toks == Until(i, pos)
            IN  /\ anno.handler = Second(current.t) /\ current.t = "label" =>
                     Meanings(current.t, toks) = {[sealed |-> anno.sealed, sig |-> anno.found]}
                /\ anno.handler = Second(current.t) /\ current.t = "opcode" =>
                     Meanings(current.t, toks) = {anno.found.in}
                /\ anno.handler # Second(current.t) => Meanings(current.t, toks) = {}
        BY <2>6, <2>8, <2>9, <3>1, ParsedMeans
      <3>5. anno.handler = Second(current.t) => Meanings(current.t, Until(i, pos)) # {}
        BY <3>1, <3>4 DEF Kinds
      <3>6. \A t \in Kinds : \A addr :
              Adds(t, addr) <=> anno.handler = Second(t) /\ current.addr = addr
        BY <2>9, <3>1, <3>2, <3>3, <3>4, <3>5
      <3>7. anno.handler = Second("label") => current.t = "label"
        BY <3>3 DEF Kinds
      <3>8. anno.handler = Second("opcode") => current.t = "opcode"
        BY <3>3 DEF Kinds
      <3> HIDE DEF Adds
      <3>9. QED
        BY <2>4, <2>6, <2>7, <3>4, <3>6, <3>7, <3>8
    <2>10. CASE ~(current.has /\ Simple(i, pos))
      <3>1. anno.handler # Second("label") /\ anno.handler # Second("opcode")
            /\ \A t \in Kinds : anno.handler # Second(t)
        BY <2>8, <2>10 DEF Second
      <3>2. \A t, addr : ~Adds(t, addr)
        BY <2>10 DEF IsCurrent, About
      <3> HIDE DEF Adds
      <3>3. QED
        BY <2>4, <2>7, <3>1, <3>2
    <2>11. QED
      BY <2>9, <2>10
  <1>4. ASSUME \A i \in DOMAIN program : ~IsOpen(i)
        PROVE  \E i \in Nat :
                 /\ \A t \in Kinds : \A addr :
                      Told(t, addr, pos)' =
                        IF anno.handler = Second(t) /\ current.addr = addr
                        THEN Told(t, addr, pos) \union {i}
                        ELSE Told(t, addr, pos)
                 /\ \A t, addr : \A k \in Told(t, addr, pos) : k \in Nat /\ k < i
                 /\ anno.handler = Second("label") =>
                      Meanings("label", Inside(i)) = {[sealed |-> anno.sealed, sig |-> anno.found]}
                 /\ anno.handler = Second("opcode") => Meanings("opcode", Inside(i)) = {anno.found.in}
    <2>1. anno.handler = "none"
      BY <1>4 DEF IsReading
    <2>2. /\ anno.handler # Second("label") /\ anno.handler # Second("opcode")
          /\ \A t \in Kinds : anno.handler # Second(t)
      BY <2>1 DEF Second
    <2>3. \A k \in DOMAIN program : Opens(k) => CommentEnd(k) # pos
      BY <1>1, <1>2, <1>4 DEF IsOpen
    <2>4. \A t, addr : Told(t, addr, pos)' = Told(t, addr, pos)
      BY <2>3, ToldGrows
    <2>5. \A t, addr : \A k \in Told(t, addr, pos) : k \in Nat /\ k < pos
      BY <1>1, <1>2 DEF Told
    <2>6. QED
      BY <1>1, <2>2, <2>4, <2>5
  <1>5. QED
    BY <1>1, <1>3, <1>4

\* The earliest of them stays the earliest.
LEMMA EarliestExact ==
  ASSUME NEW is, NEW i \in Nat, \A k \in is : k \in Nat /\ k < i
  PROVE  /\ is = {} => Earliest(is \union {i}) = i
         /\ is # {} => Earliest(is \union {i}) = Earliest(is)
  <1>1. ASSUME is = {}
        PROVE  Earliest(is \union {i}) = i
    <2>1. is \union {i} = {i}
      BY <1>1
    <2>2. QED
      BY <2>1 DEF Earliest
  <1>2. ASSUME is # {}
        PROVE  Earliest(is \union {i}) = Earliest(is)
    <2> DEFINE x == Earliest(is)
               y == Earliest(is \union {i})
               more == is \union {i}
    <2>1. is \subseteq Nat /\ more \subseteq Nat /\ more # {}
      OBVIOUS
    <2>2. \E k \in is : \A j \in is : k <= j
      BY <1>2, <2>1, Lowest
    <2>3. x \in is /\ \A j \in is : x <= j
      BY <2>2 DEF Earliest
    <2> HIDE DEF more
    <2>4. \E k \in more : \A j \in more : k <= j
      BY <2>1, Lowest
    <2>5. y \in more /\ \A j \in more : y <= j
      BY <2>4 DEF Earliest, more
    <2> HIDE DEF x, y
    <2>6. x \in more /\ \A j \in more : x <= j
      BY <2>1, <2>3 DEF more
    <2>7. x <= y /\ y <= x /\ x \in Nat /\ y \in Nat
      BY <2>1, <2>5, <2>6
    <2>8. QED
      BY <2>7 DEF x, y
  <1>3. QED
    BY <1>1, <1>2


-----------------------------------------------------------------------------
\* What is known of an address in the next state, of a program that stays.
Meant(t, is) == Meanings(t, Inside(Earliest(is)))

LEMMA MeantStays ==
  ASSUME program' = program, NEW t, NEW addr
  PROVE  Meanings(t, Inside(Earliest(Told(t, addr, pos))))' = Meant(t, Told(t, addr, pos)')
  <1> DEFINE is == Told(t, addr, pos)
  <1> HIDE DEF is
  <1>1. Earliest(is)' = Earliest(is')
    BY DEF Earliest
  <1>2. Inside(Earliest(is))' = Inside(Earliest(is'))
    BY <1>1 DEF Inside, CommentEnd, Closes
  <1>3. QED
    BY <1>2 DEF Meant, is

LEMMA SignedNow ==
  ASSUME program' = program
  PROVE  HasSignatures' <=>
           \A a \in DOMAIN infos' :
             /\ infos'[a].routine = (Told("label", a, pos)' # {})
             /\ infos'[a].routine =>
                  Meant("label", Told("label", a, pos)') = {[sealed |-> ~infos'[a].marked, sig |-> infos'[a].sig]}
             /\ infos'[a].marked => \E i \in DOMAIN list' : list'[i].info = a
  BY MeantStays DEF HasSignatures, IsSigned

LEMMA CastsNow ==
  ASSUME program' = program
  PROVE  HasCasts' <=>
           \A a :
             /\ (a \in DOMAIN casts') = (Told("opcode", a, pos)' # {})
             /\ a \in DOMAIN casts' => Meant("opcode", Told("opcode", a, pos)') = {casts'[a]}
  BY MeantStays DEF HasCasts

\* What leaves the tables alone tells nothing.
LEMMA LabelsKept ==
  ASSUME Runs, pos \in DOMAIN program, program' = program, pos' = pos + 1, HasLabels,
         DOMAIN infos \subseteq DOMAIN infos',
         program[pos].t = "label" => program[pos].addr \in DOMAIN infos'
  PROVE  HasLabels'
  <1>1. pos \in Int /\ DOMAIN program \subseteq Int
    BY DEF Runs
  <1>2. \A i \in DOMAIN program : i < pos + 1 => i < pos \/ i = pos
    BY <1>1
  <1>3. QED
    BY <1>2 DEF HasLabels

LEMMA NothingTold ==
  ASSUME Runs, pos \in DOMAIN program, program' = program, pos' = pos + 1, ~Closes(program[pos]),
         HasSignatures, HasCasts, infos' = infos, casts' = casts, list' = list
  PROVE  HasSignatures' /\ HasCasts'
  <1>1. \A t, addr : Told(t, addr, pos)' = Told(t, addr, pos)
    BY ToldLeft
  <1>2. HasSignatures'
    <2>1. \A a \in DOMAIN infos :
            /\ infos[a].routine = (Told("label", a, pos)' # {})
            /\ infos[a].routine =>
                 Meant("label", Told("label", a, pos)') = {[sealed |-> ~infos[a].marked, sig |-> infos[a].sig]}
            /\ infos[a].marked => \E i \in DOMAIN list : list[i].info = a
      BY <1>1 DEF HasSignatures, IsSigned, Meant
    <2>2. QED
      BY <2>1, SignedNow
  <1>3. HasCasts'
    <2>1. \A a :
            /\ (a \in DOMAIN casts) = (Told("opcode", a, pos)' # {})
            /\ a \in DOMAIN casts => Meant("opcode", Told("opcode", a, pos)') = {casts[a]}
      BY <1>1 DEF HasCasts, Meant
    <2>2. QED
      BY <2>1, CastsNow
  <1>4. QED
    BY <1>2, <1>3

\* A label at a new address has not been told anything.
LEMMA NewLabel ==
  ASSUME Runs, pos \in DOMAIN program, HasLabels, NEW addr, addr \notin DOMAIN infos
  PROVE  Told("label", addr, pos) = {}
  <1>1. ASSUME NEW i \in Told("label", addr, pos)
        PROVE  FALSE
    <2>1. i \in DOMAIN program /\ Opens(i) /\ CommentEnd(i) < pos /\ About(i, "label", addr)
      BY <1>1 DEF Told
    <2>2. PICK j \in DOMAIN program : IsAbout(i, j) /\ program[j].t = "label" /\ program[j].addr = addr
      BY <2>1 DEF About
    <2>3. j < i
      BY <2>2 DEF IsAbout
    <2>4. CommentEnd(i) \in i + 1 .. Len(program)
      BY <2>1, CommentRuns
    <2>5. i \in Int /\ j \in Int /\ pos \in Int
      BY <2>1, <2>2 DEF Runs
    <2>6. j < pos
      BY <2>1, <2>3, <2>4, <2>5
    <2>7. QED
      BY <2>2, <2>6 DEF HasLabels
  <1>2. QED
    BY <1>1

LEMMA LabelTold ==
  ASSUME IInv, phase = "pass", Runs, pos \in DOMAIN program, HasLabels, HasSignatures, HasCasts, ReadLabel
  PROVE  HasLabels' /\ HasSignatures' /\ HasCasts'
  <1> DEFINE addr == program[pos].addr
  <1>1. /\ program' = program /\ pos' = pos + 1 /\ program[pos].t = "label"
        /\ infos' = Known(addr) /\ casts' = casts /\ list' = list
    BY DEF ReadLabel, Reads
  <1>2. ~Closes(program[pos])
    BY <1>1 DEF Closes
  <1>3. /\ DOMAIN infos' = DOMAIN infos \union {addr}
        /\ \A a \in DOMAIN infos' : infos'[a] = IF a \in DOMAIN infos THEN infos[a] ELSE NoInfo
    BY <1>1 DEF Known
  <1>4. \A t, a : Told(t, a, pos)' = Told(t, a, pos)
    BY <1>1, <1>2, ToldLeft
  <1>5. HasLabels'
    BY <1>1, <1>3, LabelsKept
  <1>6. HasSignatures'
    <2>1. ASSUME NEW a \in DOMAIN infos'
          PROVE  /\ infos'[a].routine = (Told("label", a, pos)' # {})
                 /\ infos'[a].routine =>
                      Meant("label", Told("label", a, pos)')
                        = {[sealed |-> ~infos'[a].marked, sig |-> infos'[a].sig]}
                 /\ infos'[a].marked => \E i \in DOMAIN list' : list'[i].info = a
      <3>1. CASE a \in DOMAIN infos
        <4>1. infos'[a] = infos[a]
          BY <1>3, <3>1
        <4>2. QED
          BY <1>1, <1>4, <3>1, <4>1 DEF HasSignatures, IsSigned, Meant
      <3>2. CASE a \notin DOMAIN infos
        <4>1. infos'[a] = NoInfo
          BY <1>3, <3>2
        <4>2. ~infos'[a].routine /\ ~infos'[a].marked /\ infos'[a].routine \in BOOLEAN
          BY <4>1 DEF NoInfo
        <4>3. Told("label", a, pos)' = {}
          BY <1>4, <3>2, NewLabel
        <4>4. QED
          BY <4>2, <4>3
      <3>3. QED
        BY <3>1, <3>2
    <2>2. QED
      BY <1>1, <2>1, SignedNow
  <1>7. HasCasts'
    <2>1. \A a :
            /\ (a \in DOMAIN casts) = (Told("opcode", a, pos)' # {})
            /\ a \in DOMAIN casts => Meant("opcode", Told("opcode", a, pos)') = {casts[a]}
      BY <1>4 DEF HasCasts, Meant
    <2>2. QED
      BY <1>1, <2>1, CastsNow
  <1>8. QED
    BY <1>5, <1>6, <1>7

\* The entry of the routine that a comment gives its signature.
LEMMA SignedStep ==
  ASSUME IInv, phase = "pass", CloseComment
  PROVE  LET a == current.addr
         IN  /\ anno.handler = "signature2" => a \in DOMAIN infos
             /\ DOMAIN infos' = DOMAIN infos
             /\ \A b \in DOMAIN infos : (b # a \/ ~Signed2) => infos'[b] = infos[b]
             /\ Signed2 =>
                  /\ infos'[a].routine = TRUE /\ infos'[a].sig = anno.found
                  /\ infos'[a].marked = ~anno.sealed
                  /\ ~anno.sealed => \E i \in DOMAIN list' : list'[i].info = a
             /\ \A i \in DOMAIN list : \E j \in DOMAIN list' : list'[j] = list[i]
  <1> DEFINE a == current.addr
             found == anno.found
             known == [infos EXCEPT ![a].routine = TRUE, ![a].sig = found]
             now == [known EXCEPT ![a].marked = TRUE]
             entry == Entry(a, found)
  <1>1. IsTable(infos) /\ list \in Seq(Entries(Len(nodes.heap), Marked(infos)))
    BY DEF IInv, IsTables
  <1>2. anno.handler = "signature2" => a \in DOMAIN infos
    BY DEF IInv, IsComment, Annos, OfOpcode
  <1>3. /\ infos' = (IF ~Signed2 THEN infos ELSE IF anno.sealed THEN known ELSE now)
        /\ list' = (IF Signed2 /\ ~anno.sealed THEN <<entry>> \o list ELSE list)
    BY DEF CloseComment, Enqueued
  <1>4. anno.sealed \in BOOLEAN
    BY DEF IInv, IsComment, Annos
  <1>5. CASE ~Signed2
    <2>1. infos' = infos /\ list' = list
      BY <1>3, <1>5
    <2>2. QED
      BY <1>2, <1>5, <2>1
  <1>6. CASE Signed2
    <2>1. a \in DOMAIN infos /\ infos[a] \in Info /\ ~infos[a].routine
      BY <1>1, <1>2, <1>6 DEF Signed2, IsTable
    <2>2. ~infos[a].marked /\ infos[a].marked \in BOOLEAN
      BY <2>1 DEF Info
    <2>3. /\ DOMAIN known = DOMAIN infos /\ \A b \in DOMAIN infos : b # a => known[b] = infos[b]
          /\ known[a].routine = TRUE /\ known[a].sig = found /\ known[a].marked = infos[a].marked
      BY <1>1, <2>1 DEF IsTable, Info
    <2>4. /\ DOMAIN now = DOMAIN infos /\ \A b \in DOMAIN infos : b # a => now[b] = infos[b]
          /\ now[a].routine = TRUE /\ now[a].sig = found /\ now[a].marked = TRUE
      BY <1>1, <2>1 DEF IsTable, Info
    <2>5. entry.info = a
      BY DEF Entry
    <2> HIDE DEF known, now, entry
    <2>6. CASE anno.sealed
      BY <1>2, <1>3, <1>6, <2>2, <2>3, <2>6
    <2>7. CASE ~anno.sealed
      <3>1. infos' = now /\ list' = <<entry>> \o list
        BY <1>3, <1>6, <2>7
      <3>2. \E i \in DOMAIN list' : list'[i] = entry
        <4> DEFINE E == Entries(Len(nodes.heap), Marked(infos)) \union {entry}
        <4>1. list \in Seq(E) /\ entry \in E
          BY <1>1
        <4> HIDE DEF E
        <4>2. 1 \in DOMAIN (<<entry>> \o list) /\ (<<entry>> \o list)[1] = entry
          BY <4>1
        <4>3. QED
          BY <3>1, <4>2
      <3>3. \A i \in DOMAIN list : \E j \in DOMAIN list' : list'[j] = list[i]
        <4> DEFINE E == Entries(Len(nodes.heap), Marked(infos)) \union {entry}
        <4>1. list \in Seq(E) /\ entry \in E
          BY <1>1
        <4> HIDE DEF E
        <4>2. \A i \in DOMAIN list :
                i + 1 \in DOMAIN (<<entry>> \o list) /\ (<<entry>> \o list)[i + 1] = list[i]
          BY <4>1
        <4>3. QED
          BY <3>1, <4>2
      <3>4. \E i \in DOMAIN list' : list'[i].info = a
        BY <2>5, <3>2
      <3>5. DOMAIN infos' = DOMAIN infos /\ \A b \in DOMAIN infos : b # a => infos'[b] = infos[b]
        BY <2>4, <3>1
      <3>6. infos'[a].routine = TRUE /\ infos'[a].sig = found /\ infos'[a].marked = ~anno.sealed
        BY <2>4, <2>7, <3>1
      <3> HIDE DEF a
      <3>7. QED
        BY <1>2, <1>6, <3>3, <3>4, <3>5, <3>6 DEF a
    <2>8. QED
      BY <2>6, <2>7
  <1>7. QED
    BY <1>5, <1>6

LEMMA ClosedTold ==
  ASSUME IInv, phase = "pass", Runs, pos \in DOMAIN program, IsReading, IsCurrent,
         HasLabels, HasSignatures, HasCasts, CloseComment
  PROVE  HasLabels' /\ HasSignatures' /\ HasCasts'
  <1> DEFINE addr == current.addr
             told(t, a) == Told(t, a, pos)
             after(t, a) == Told(t, a, pos)'
  <1>1. /\ program' = program /\ pos' = pos + 1 /\ program[pos].t = "comment" /\ Closes(program[pos])
    BY DEF CloseComment, Reads
  <1>2. PICK i \in Nat :
          /\ \A t \in Kinds : \A a :
               after(t, a) =
                 IF anno.handler = Second(t) /\ addr = a THEN told(t, a) \union {i} ELSE told(t, a)
          /\ \A t, a : \A k \in told(t, a) : k \in Nat /\ k < i
          /\ anno.handler = Second("label") =>
               Meanings("label", Inside(i)) = {[sealed |-> anno.sealed, sig |-> anno.found]}
          /\ anno.handler = Second("opcode") => Meanings("opcode", Inside(i)) = {anno.found.in}
    BY <1>1, ToldClosed
  <1>3. "label" \in Kinds /\ "opcode" \in Kinds /\ Second("label") = "signature2" /\ Second("opcode") = "cast2"
    BY DEF Kinds, Second
  <1>4. \A t, a : /\ told(t, a) = {} => Earliest(told(t, a) \union {i}) = i
                  /\ told(t, a) # {} => Earliest(told(t, a) \union {i}) = Earliest(told(t, a))
    <2>1. ASSUME NEW t, NEW a
          PROVE  /\ told(t, a) = {} => Earliest(told(t, a) \union {i}) = i
                 /\ told(t, a) # {} => Earliest(told(t, a) \union {i}) = Earliest(told(t, a))
      <3>1. \A k \in told(t, a) : k \in Nat /\ k < i
        BY <1>2
      <3> HIDE DEF told
      <3>2. QED
        BY <3>1, EarliestExact
    <2>2. QED
      BY <2>1
  <1>5. anno.sealed \in BOOLEAN
    BY DEF IInv, IsComment, Annos
  <1>6. /\ \A a : a \in DOMAIN casts <=> told("opcode", a) # {}
        /\ \A a \in DOMAIN casts : Meant("opcode", told("opcode", a)) = {casts[a]}
    BY DEF HasCasts, Meant
  <1>7. \A a \in DOMAIN infos :
          /\ infos[a].routine <=> told("label", a) # {}
          /\ infos[a].routine =>
               Meant("label", told("label", a)) = {[sealed |-> ~infos[a].marked, sig |-> infos[a].sig]}
          /\ infos[a].marked => \E k \in DOMAIN list : list[k].info = a
    BY DEF HasSignatures, IsSigned, Meant
  <1>8. /\ anno.handler = "signature2" => addr \in DOMAIN infos
        /\ DOMAIN infos' = DOMAIN infos
        /\ \A b \in DOMAIN infos : (b # addr \/ ~Signed2) => infos'[b] = infos[b]
        /\ Signed2 =>
             /\ infos'[addr].routine = TRUE /\ infos'[addr].sig = anno.found
             /\ infos'[addr].marked = ~anno.sealed
             /\ ~anno.sealed => \E k \in DOMAIN list' : list'[k].info = addr
        /\ \A k \in DOMAIN list : \E j \in DOMAIN list' : list'[j] = list[k]
    BY SignedStep
  <1>9. casts' = IF Cast2 THEN [a \in DOMAIN casts \union {addr} |->
                                  IF a = addr THEN anno.found.in ELSE casts[a]]
                 ELSE casts
    BY DEF CloseComment
  <1>10. HasLabels'
    BY <1>1, <1>8, LabelsKept
  <1> HIDE DEF addr, told, after
  <1>11. ASSUME NEW a
         PROVE  /\ (a \in DOMAIN casts') = (after("opcode", a) # {})
                /\ a \in DOMAIN casts' => Meant("opcode", after("opcode", a)) = {casts'[a]}
    <2>1. CASE ~(anno.handler = "cast2" /\ addr = a)
      <3>1. after("opcode", a) = told("opcode", a)
        BY <1>2, <1>3, <2>1
      <3>2. (a \in DOMAIN casts' <=> a \in DOMAIN casts) /\ (a \in DOMAIN casts => casts'[a] = casts[a])
        BY <1>9, <2>1 DEF Cast2, addr
      <3>3. QED
        BY <1>6, <3>1, <3>2
    <2>2. CASE anno.handler = "cast2" /\ addr = a
      <3>1. after("opcode", a) = told("opcode", a) \union {i} /\ after("opcode", a) # {}
        BY <1>2, <1>3, <2>2
      <3>2. CASE a \in DOMAIN casts
        <4>1. casts' = casts
          BY <1>9, <2>2, <3>2 DEF Cast2, addr
        <4>2. Earliest(after("opcode", a)) = Earliest(told("opcode", a))
          BY <1>4, <1>6, <3>1, <3>2
        <4>3. Meant("opcode", after("opcode", a)) = Meant("opcode", told("opcode", a))
          BY <4>2 DEF Meant
        <4>4. QED
          BY <1>6, <3>1, <3>2, <4>1, <4>3
      <3>3. CASE a \notin DOMAIN casts
        <4>1. a \in DOMAIN casts' /\ casts'[a] = anno.found.in
          BY <1>9, <2>2, <3>3 DEF Cast2, addr
        <4>2. Earliest(after("opcode", a)) = i
          BY <1>4, <1>6, <3>1, <3>3
        <4>3. Meant("opcode", after("opcode", a)) = {anno.found.in}
          BY <1>2, <1>3, <2>2, <4>2 DEF Meant
        <4>4. QED
          BY <3>1, <4>1, <4>3
      <3>4. QED
        BY <3>2, <3>3
    <2>3. QED
      BY <2>1, <2>2
  <1>12. HasCasts'
    BY <1>1, <1>11, CastsNow DEF after
  <1>13. ASSUME NEW a \in DOMAIN infos'
         PROVE  /\ infos'[a].routine = (after("label", a) # {})
                /\ infos'[a].routine =>
                     Meant("label", after("label", a))
                       = {[sealed |-> ~infos'[a].marked, sig |-> infos'[a].sig]}
                /\ infos'[a].marked => \E k \in DOMAIN list' : list'[k].info = a
    <2>1. a \in DOMAIN infos /\ infos[a].routine \in BOOLEAN
      BY <1>8 DEF IInv, IsTables, IsTable, Info
    <2>2. (\E k \in DOMAIN list : list[k].info = a) => \E k \in DOMAIN list' : list'[k].info = a
      BY <1>8
    <2>3. CASE ~(anno.handler = "signature2" /\ addr = a)
      <3>1. after("label", a) = told("label", a)
        BY <1>2, <1>3, <2>3
      <3>2. infos'[a] = infos[a]
        BY <1>8, <2>1, <2>3 DEF Signed2, addr
      <3>3. QED
        BY <1>7, <2>1, <2>2, <3>1, <3>2
    <2>4. CASE anno.handler = "signature2" /\ addr = a
      <3>1. after("label", a) = told("label", a) \union {i} /\ after("label", a) # {}
        BY <1>2, <1>3, <2>4
      <3>2. CASE infos[a].routine
        <4>1. infos'[a] = infos[a]
          BY <1>8, <2>1, <2>4, <3>2 DEF Signed2, addr
        <4>2. Earliest(after("label", a)) = Earliest(told("label", a))
          BY <1>4, <1>7, <2>1, <3>1, <3>2
        <4>3. Meant("label", after("label", a)) = Meant("label", told("label", a))
          BY <4>2 DEF Meant
        <4>4. QED
          BY <1>7, <2>1, <2>2, <3>1, <3>2, <4>1, <4>3
      <3>3. CASE ~infos[a].routine
        <4>1. Signed2
          BY <2>4, <3>3 DEF Signed2, addr
        <4>2. /\ infos'[a].routine = TRUE /\ infos'[a].sig = anno.found
              /\ infos'[a].marked = ~anno.sealed
              /\ ~anno.sealed => \E k \in DOMAIN list' : list'[k].info = a
          BY <1>8, <2>4, <4>1
        <4>3. Earliest(after("label", a)) = i
          BY <1>4, <1>7, <2>1, <3>1, <3>3
        <4>4. Meant("label", after("label", a)) = {[sealed |-> anno.sealed, sig |-> anno.found]}
          BY <1>2, <1>3, <2>4, <4>3 DEF Meant
        <4>5. anno.sealed = ~infos'[a].marked
          BY <1>5, <4>2
        <4>6. Meant("label", after("label", a)) = {[sealed |-> ~infos'[a].marked, sig |-> infos'[a].sig]}
          BY <4>2, <4>4, <4>5
        <4>7. infos'[a].marked => ~anno.sealed
          BY <4>5
        <4>8. QED
          BY <3>1, <4>2, <4>6, <4>7
      <3>4. QED
        BY <2>1, <3>2, <3>3
    <2>5. QED
      BY <2>3, <2>4
  <1>14. HasSignatures'
    BY <1>1, <1>13, SignedNow DEF after
  <1>15. QED
    BY <1>10, <1>12, <1>14

-----------------------------------------------------------------------------
(***************************************************************************)
(* The invariant is kept, and says what is claimed.                        *)
(***************************************************************************)
AInv == IInv /\ Runs /\ CInv

LEMMA ReadingKeeps ==
  ASSUME AInv, Reading
  PROVE  Runs' /\ CInv'
  <1> USE DEF Reads
  <1>1. /\ IInv /\ phase = "pass" /\ Runs
        /\ IsCurrent /\ IsReading /\ HasLabels /\ HasSignatures /\ HasCasts
    BY DEF AInv, CInv, Reading
  <1>2. /\ pos <= Len(program) /\ program' = program /\ pos' = pos + 1
    BY DEF Reading, HandleSymbol, OpenComment, InComment, CloseComment, ReadLabel, ReadMacro, ReadOther, ReadCode
  <1>3. pos \in DOMAIN program
    BY <1>1, <1>2 DEF IInv, IsSource, Runs
  <1>4. Runs'
    BY <1>1, <1>2 DEF Runs, Continues, Closes
  <1>5. CASE OpenComment
    <2>1. program[pos].t = "comment" /\ program[pos].id = 0 /\ current' = current /\ UNCHANGED tables
      BY <1>5 DEF OpenComment
    <2>2. ~Closes(program[pos]) /\ infos' = infos /\ casts' = casts /\ list' = list
      BY <2>1 DEF Closes, tables
    <2>3. IsCurrent'
      BY <1>1, <1>2, <1>3, <2>1, CurrentStep
    <2>4. IsReading'
      BY <1>1, <1>3, <1>5, OpenReading
    <2>5. HasLabels'
      BY <1>1, <1>2, <1>3, <2>1, <2>2, LabelsKept
    <2>6. HasSignatures' /\ HasCasts'
      BY <1>1, <1>2, <1>3, <2>2, NothingTold
    <2>7. QED
      BY <1>4, <2>3, <2>4, <2>5, <2>6 DEF CInv
  <1>6. CASE InComment
    <2>1. program[pos].t = "comment" /\ ~Closes(program[pos]) /\ current' = current /\ UNCHANGED tables
      BY <1>6 DEF InComment
    <2>2. infos' = infos /\ casts' = casts /\ list' = list
      BY <2>1 DEF tables
    <2>3. IsCurrent'
      BY <1>1, <1>2, <1>3, <2>1, CurrentStep
    <2>4. IsReading'
      BY <1>1, <1>3, <1>6, InReading
    <2>5. HasLabels'
      BY <1>1, <1>2, <1>3, <2>1, <2>2, LabelsKept
    <2>6. HasSignatures' /\ HasCasts'
      BY <1>1, <1>2, <1>3, <2>1, <2>2, NothingTold
    <2>7. QED
      BY <1>4, <2>3, <2>4, <2>5, <2>6 DEF CInv
  <1>7. CASE CloseComment
    <2>1. program[pos].t = "comment" /\ current' = current
      BY <1>7 DEF CloseComment
    <2>2. IsCurrent'
      BY <1>1, <1>2, <1>3, <2>1, CurrentStep
    <2>3. IsReading'
      BY <1>1, <1>3, <1>7, CloseReading
    <2>4. HasLabels' /\ HasSignatures' /\ HasCasts'
      BY <1>1, <1>3, <1>7, ClosedTold
    <2>5. QED
      BY <1>4, <2>2, <2>3, <2>4 DEF CInv
  <1>8. CASE ReadLabel
    <2>1. /\ program[pos].t = "label" /\ program[pos].t \in Kinds
          /\ current' = [has |-> TRUE, t |-> program[pos].t, addr |-> program[pos].addr]
          /\ anno' = Killed(anno)
      BY <1>8 DEF ReadLabel, Kinds
    <2>2. IsCurrent'
      BY <1>1, <1>2, <1>3, <2>1, CurrentStep
    <2>3. IsReading'
      BY <1>1, <1>2, <1>3, <2>1, ReadingLeft
    <2>4. HasLabels' /\ HasSignatures' /\ HasCasts'
      BY <1>1, <1>3, <1>8, LabelTold
    <2>5. QED
      BY <1>4, <2>2, <2>3, <2>4 DEF CInv
  <1>9. CASE \/ ReadMacro \/ ReadOther
             \/ \E t \in {"opcode", "ref", "number", "text"} : ReadCode(t)
    <2>1. /\ program[pos].t \in {"macro", "other", "opcode", "ref", "number", "text"}
          /\ UNCHANGED tables
      BY <1>9 DEF ReadMacro, ReadOther, ReadCode
    <2>2. infos' = infos /\ casts' = casts /\ list' = list /\ ~Closes(program[pos])
      BY <2>1 DEF tables, Closes
    <2>3. /\ anno' = anno \/ anno' = Killed(anno)
          /\ \/ /\ program[pos].t \in Kinds
                /\ current' = [has |-> TRUE, t |-> program[pos].t, addr |-> program[pos].addr]
             \/ program[pos].t = "macro" /\ ~current'.has
             \/ program[pos].t \notin {"label", "opcode", "macro"} /\ current' = current
      <3>1. CASE ReadMacro
        <4>1. /\ program[pos].t = "macro" /\ anno' = anno /\ current' = [current EXCEPT !.has = FALSE]
          BY <3>1 DEF ReadMacro
        <4>2. ~current'.has
          BY <1>1, <4>1 DEF IInv, IsComment
        <4>3. QED
          BY <4>1, <4>2
      <3>2. CASE ReadOther
        BY <3>2 DEF ReadOther, parsing
      <3>3. ASSUME NEW t \in {"opcode", "ref", "number", "text"}, ReadCode(t)
            PROVE  <2>3
        BY <3>3 DEF ReadCode, parsing, Kinds
      <3>4. QED
        BY <1>9, <3>1, <3>2, <3>3
    <2>4. IsCurrent'
      BY <1>1, <1>2, <1>3, <2>3, CurrentStep
    <2>5. IsReading'
      BY <1>1, <1>2, <1>3, <2>1, <2>3, ReadingLeft
    <2>6. HasLabels'
      BY <1>1, <1>2, <1>3, <2>1, <2>2, LabelsKept
    <2>7. HasSignatures' /\ HasCasts'
      BY <1>1, <1>2, <1>3, <2>2, NothingTold
    <2>8. QED
      BY <1>4, <2>4, <2>5, <2>6, <2>7 DEF CInv
  <1>10. QED
    BY <1>5, <1>6, <1>7, <1>8, <1>9 DEF Reading, HandleSymbol

LEMMA VerifyKeeps ==
  ASSUME AInv, Verify
  PROVE  Runs' /\ CInv'
  <1>1. UNCHANGED source /\ phase' # "pass"
    BY DEF Verify, BeginVerification, Start, Running, ReachZeroPage, FallThrough, ReachNonOpcode,
           Execute, Becomes, Finish, Conclude
  <1>2. program' = program
    BY <1>1 DEF source
  <1>3. QED
    BY <1>1, <1>2 DEF AInv, Runs, CInv, Continues, Closes

LEMMA StutterKeeps ==
  ASSUME AInv, UNCHANGED vars
  PROVE  Runs' /\ CInv'
  <1>1. /\ program' = program /\ pos' = pos /\ current' = current /\ anno' = anno
        /\ infos' = infos /\ casts' = casts /\ list' = list /\ phase' = phase
    BY DEF vars, source, parsing, tables, verification
  <1>2. Runs'
    BY <1>1 DEF AInv, Runs, Continues, Closes
  <1>3. CASE phase # "pass"
    BY <1>1, <1>2, <1>3 DEF CInv
  <1>4. CASE phase = "pass"
    <2>1. IsCurrent /\ IsReading /\ HasLabels /\ HasSignatures /\ HasCasts
      BY <1>4 DEF AInv, CInv
    <2>2. IsCurrent'
      BY <1>1, <2>1, AboutNow DEF IsCurrent
    <2>3. IsReading'
      <3>1. \A i : IsOpen(i)' <=> IsOpen(i)
        BY <1>1 DEF IsOpen, Opens, CommentEnd, Closes
      <3>2. \A i : Until(i, pos)' = Until(i, pos) /\ (Simple(i, pos)' <=> Simple(i, pos))
        BY <1>1, ReadStays
      <3>3. ASSUME NEW i \in DOMAIN program, IsOpen(i)
            PROVE  IF current.has /\ Simple(i, pos)'
                   THEN anno \in Annos(Of(current.t)) /\ Parsed(anno, current.t, Until(i, pos)')
                   ELSE anno.handler = "none"
        BY <2>1, <3>2, <3>3 DEF IsReading
      <3>4. (\A i \in DOMAIN program : ~IsOpen(i)) => anno.handler = "none"
        BY <2>1 DEF IsReading
      <3>5. QED
        BY <1>1, <3>1, <3>3, <3>4 DEF IsReading
    <2>4. HasLabels'
      BY <1>1, <2>1 DEF HasLabels
    <2>5. \A t, addr : Told(t, addr, pos)' = Told(t, addr, pos)
      BY <1>1, ToldStays
    <2>6. HasSignatures'
      <3>1. \A a \in DOMAIN infos :
              /\ infos[a].routine = (Told("label", a, pos)' # {})
              /\ infos[a].routine =>
                   Meant("label", Told("label", a, pos)') = {[sealed |-> ~infos[a].marked, sig |-> infos[a].sig]}
              /\ infos[a].marked => \E i \in DOMAIN list : list[i].info = a
        BY <2>1, <2>5 DEF HasSignatures, IsSigned, Meant
      <3>2. QED
        BY <1>1, <3>1, SignedNow
    <2>7. HasCasts'
      <3>1. \A a :
              /\ (a \in DOMAIN casts) = (Told("opcode", a, pos)' # {})
              /\ a \in DOMAIN casts => Meant("opcode", Told("opcode", a, pos)') = {casts[a]}
        BY <2>1, <2>5 DEF HasCasts, Meant
      <3>2. QED
        BY <1>1, <3>1, CastsNow
    <2>8. QED
      BY <1>2, <2>2, <2>3, <2>4, <2>6, <2>7 DEF CInv
  <1>5. QED
    BY <1>3, <1>4

LEMMA InitReads ==
  ASSUME Init
  PROVE  Runs /\ CInv
  <1>1. Runs
    BY ProgramsAssumption DEF Init, InitAnnotations, Runs
  <1>2. /\ pos = 1 /\ ~current.has /\ anno.handler = "none" /\ infos = <<>> /\ casts = <<>>
        /\ DOMAIN infos = {} /\ DOMAIN casts = {}
    <2>1. /\ pos = 1 /\ current = Nothing /\ anno = NoComment /\ infos = <<>> /\ casts = <<>>
      BY DEF Init, InitAnnotations
    <2>2. ~Nothing.has /\ NoComment.handler = "none" /\ DOMAIN <<>> = {}
      BY DEF Nothing, NoComment
    <2>3. QED
      BY <2>1, <2>2
  <1>3. \A i \in DOMAIN program : i \in Nat /\ i >= 1
    BY <1>1 DEF Runs
  <1>4. IsCurrent
    BY <1>2, <1>3 DEF IsCurrent, IsAbout
  <1>5. IsReading
    BY <1>2, <1>3 DEF IsReading, IsOpen
  <1>6. HasLabels
    BY <1>2, <1>3 DEF HasLabels
  <1>7. HasSignatures
    BY <1>2 DEF HasSignatures
  <1>8. HasCasts
    <2>1. \A i \in DOMAIN program : Opens(i) => ~(CommentEnd(i) < pos)
      BY <1>1, <1>2, <1>3, CommentRuns
    <2>2. \A a : Told("opcode", a, pos) = {}
      BY <2>1 DEF Told
    <2>3. QED
      BY <1>2, <2>2 DEF HasCasts
  <1>9. QED
    BY <1>1, <1>4, <1>5, <1>6, <1>7, <1>8 DEF CInv

\* When all is read, every comment is closed.
LEMMA AllTold ==
  ASSUME Runs, pos \in Nat, pos > Len(program), NEW t, NEW addr
  PROVE  /\ Readings(t, addr).said = (Told(t, addr, pos) # {})
         /\ Told(t, addr, pos) # {} => Readings(t, addr).first = Meant(t, Told(t, addr, pos))
  <1> DEFINE is == {i \in DOMAIN program :
                      /\ Opens(i) /\ ~Nests(i) /\ Meanings(t, Inside(i)) # {}
                      /\ \E j \in DOMAIN program :
                           IsAbout(i, j) /\ program[j].t = t /\ program[j].addr = addr}
  <1>1. ASSUME NEW i \in DOMAIN program, Opens(i)
        PROVE  CommentEnd(i) < pos
    <2>1. CommentEnd(i) \in i + 1 .. Len(program)
      BY <1>1, CommentRuns
    <2>2. i \in Int /\ Len(program) \in Int
      BY DEF Runs
    <2>3. QED
      BY <2>1, <2>2
  <1>2. is = Told(t, addr, pos)
    BY <1>1 DEF Told, About
  <1>3. /\ Readings(t, addr).said = (is # {})
        /\ is # {} => Readings(t, addr).first = Meant(t, is)
    BY DEF Readings, Meant, Earliest
  <1> HIDE DEF is
  <1>4. QED
    BY <1>2, <1>3

LEMMA InvAnnotations == AInv => AnnotationsExact
  <1> SUFFICES ASSUME AInv, phase = "pass", pos > Len(program)
               PROVE  /\ \A a \in Addresses("label") :
                           LET r == Readings("label", a)
                           IN  /\ infos[a].routine = r.said
                               /\ r.said => r.first = {[sealed |-> ~infos[a].marked, sig |-> infos[a].sig]}
                               /\ infos[a].marked = \E i \in DOMAIN list : list[i].info = a
                      /\ \A a \in Addresses("opcode") :
                           LET r == Readings("opcode", a)
                           IN  /\ (a \in DOMAIN casts) = r.said
                               /\ r.said => r.first = {casts[a]}
    BY Zenon DEF AnnotationsExact
  <1>1. Runs /\ HasLabels /\ HasSignatures /\ HasCasts /\ pos \in Nat /\ IInv
    BY DEF AInv, CInv, IInv, IsSource
  <1>2. ASSUME NEW a \in Addresses("label")
        PROVE  LET r == Readings("label", a)
               IN  /\ infos[a].routine = r.said
                   /\ r.said => r.first = {[sealed |-> ~infos[a].marked, sig |-> infos[a].sig]}
                   /\ infos[a].marked = \E i \in DOMAIN list : list[i].info = a
    <2>1. PICK i \in DOMAIN program : program[i].t = "label" /\ program[i].addr = a
      BY <1>2 DEF Addresses
    <2>2. i < pos
      BY <1>1 DEF Runs
    <2>3. a \in DOMAIN infos
      BY <1>1, <2>1, <2>2 DEF HasLabels
    <2>4. infos[a].marked \in BOOLEAN
      BY <1>1, <2>3 DEF IInv, IsTables, IsTable, Info
    <2>5. \A k \in DOMAIN list : list[k].info \in Verified
      BY <1>1, InvTypeOK DEF TypeOK
    <2>6. infos[a].marked <=> \E k \in DOMAIN list : list[k].info = a
      BY <1>1, <2>3, <2>5 DEF HasSignatures, Verified
    <2>7. infos[a].marked = \E k \in DOMAIN list : list[k].info = a
      BY <2>4, <2>6
    <2>8. /\ infos[a].routine = (Told("label", a, pos) # {})
          /\ infos[a].routine =>
               Meant("label", Told("label", a, pos)) = {[sealed |-> ~infos[a].marked, sig |-> infos[a].sig]}
      BY <1>1, <2>3 DEF HasSignatures, IsSigned, Meant
    <2>9. QED
      BY <1>1, <2>7, <2>8, AllTold
  <1>3. ASSUME NEW a
        PROVE  LET r == Readings("opcode", a)
               IN  /\ (a \in DOMAIN casts) = r.said
                   /\ r.said => r.first = {casts[a]}
    <2>1. /\ (a \in DOMAIN casts) = (Told("opcode", a, pos) # {})
          /\ a \in DOMAIN casts => Meant("opcode", Told("opcode", a, pos)) = {casts[a]}
      BY <1>1 DEF HasCasts, Meant
    <2>2. QED
      BY <1>1, <2>1, AllTold
  <1>4. QED
    BY <1>2, <1>3

\* Whatever the program, and whatever its comments say: when all of it has been
\* read, each label is the routine that the first comment about it that is a
\* signature describes, each instruction has the cast of the first comment that
\* is one, and no other comment is taken for either; just the routines that are
\* not sealed wait to be verified (buxn_chess_parse, chess.c).
THEOREM AnnotationsAreRead == Spec => []AnnotationsExact
  <1>1. Init => AInv
    BY InitInv, InitReads DEF AInv
  <1>2. AInv /\ [Next]_vars => AInv'
    <2> SUFFICES ASSUME AInv, [Next]_vars
                 PROVE  AInv'
      OBVIOUS
    <2>1. IInv'
      BY Inductive DEF AInv
    <2>2. Runs' /\ CInv'
      BY ReadingKeeps, VerifyKeeps, StutterKeeps DEF Next, Done
    <2>3. QED
      BY <2>1, <2>2 DEF AInv
  <1>3. AInv => AnnotationsExact
    BY InvAnnotations
  <1>4. QED
    BY <1>1, <1>2, <1>3, PTL DEF Spec
=============================================================================
