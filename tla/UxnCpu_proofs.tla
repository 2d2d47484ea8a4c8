---------------------------- MODULE UxnCpu_proofs ----------------------------
(***************************************************************************)
(* The machine, for bytes of any size: every pointer, word and byte stays  *)
(* in its range; the expansion operation does to each byte of memory what  *)
(* it should; and every opcode does what its signature says, seen from the *)
(* top of the stacks.                                                      *)
(*                                                                         *)
(* Types are inductive by themselves.  For the opcodes, a stack with its   *)
(* pointer is the ring of bytes below the pointer: what is popped is what  *)
(* the ring has at its depth, and pushing turns the ring.                  *)
(***************************************************************************)
EXTENDS UxnCpu, NumberFacts, SequenceTheorems, TLAPS

(***************************************************************************)
(* Arithmetic.                                                             *)
(***************************************************************************)

\* A byte has four values or more.
LEMMA ByteType == Byte \in Nat /\ Byte >= 4
  BY NibbleAssumption DEF Byte

\* A short has sixteen or more, no fewer than a byte.
LEMMA ShortType == Short \in Nat /\ Short >= 16 /\ Short >= Byte
  <1> HIDE DEF Byte
  <1> QED
    BY ByteType DEF Short

\* The memory has two pages or more.
LEMMA MemType == MemSize \in Nat /\ MemSize >= 2 * Short
  <1> HIDE DEF Short
  <1> QED
    BY ShortType, BanksAssumption DEF MemSize

\* The halves of a number are bytes.
LEMMA DigitsType ==
  ASSUME NEW v \in Int
  PROVE  Hi(v) \in Bytes /\ Lo(v) \in Bytes
  <1> HIDE DEF Byte
  <1>1. v \div Byte \in Int
    BY ByteType
  <1>2. QED
    BY <1>1, ByteType, Quotient DEF Hi, Lo, Bytes

\* A short is its two bytes, a byte its low one.
LEMMA Digits ==
  ASSUME NEW h \in Bytes, NEW l \in Bytes
  PROVE  /\ h * Byte + l \in 0 .. Short - 1
         /\ Hi(h * Byte + l) = h
         /\ Lo(h * Byte + l) = l
         /\ Hi(l) = 0
         /\ Lo(l) = l
  <1> HIDE DEF Byte
  <1>1. h \in Int /\ l \in 0 .. Byte - 1 /\ h \in 0 .. Byte - 1 /\ h * Byte = Byte * h
    BY ByteType DEF Bytes
  <1>2. h * Byte + l \in 0 .. Short - 1
    BY <1>1, ByteType, TwoDigits DEF Short
  <1>3. (h * Byte + l) \div Byte = h /\ (h * Byte + l) % Byte = l
    BY <1>1, ByteType, Divided
  <1>4. l \div Byte = 0 /\ l % Byte = l
    BY <1>1, ByteType, Divided
  <1>5. h % Byte = h /\ 0 % Byte = 0
    BY <1>1, ByteType, InRange
  <1>6. QED
    BY <1>2, <1>3, <1>4, <1>5 DEF Hi, Lo

-----------------------------------------------------------------------------
(***************************************************************************)
(* What the operators of the machine return.                               *)
(***************************************************************************)
Shorts == 0 .. Short - 1
Widths == {1, 2}
Memory == [0 .. MemSize - 1 -> Bytes]

\* Bytes are shorts, and both are natural numbers.
LEMMA Numbers ==
  /\ Bytes \subseteq Shorts
  /\ Bytes \subseteq Nat
  /\ Shorts \subseteq Nat
  /\ 0 \in Bytes /\ 1 \in Bytes
  /\ 0 .. Byte - 1 = Bytes
  /\ Shorts \subseteq 0 .. MemSize - 1
  /\ Stacks = {"ws", "rs"}
  BY ByteType, ShortType, MemType DEF Bytes, Shorts, Stacks

\* Bytes and shorts are numbers.
LEMMA Nats ==
  /\ \A v \in Bytes : v \in Nat /\ v \in Int
  /\ \A v \in Shorts : v \in Nat /\ v \in Int
  BY Numbers

\* What is loaded is a short, or a byte where one byte is.
LEMMA LoadType ==
  ASSUME NEW size \in Nat, size > 0, NEW bytes \in [0 .. size - 1 -> Bytes], NEW addr \in Int,
         NEW width \in Widths
  PROVE  /\ Load(bytes, addr, width, size) \in Shorts
         /\ width = 1 => Load(bytes, addr, width, size) \in Bytes
  <1>1. addr % size \in 0 .. size - 1 /\ (addr + 1) % size \in 0 .. size - 1
    BY Quotient
  <1> DEFINE h == bytes[addr % size]
             l == bytes[(addr + 1) % size]
  <1>2. h \in Bytes /\ l \in Bytes
    BY <1>1
  <1> HIDE DEF h, l
  <1>3. h * Byte + l \in Shorts
    BY <1>2, Digits DEF Shorts
  <1>4. Load(bytes, addr, width, size) = IF width = 1 THEN h ELSE h * Byte + l
    BY DEF Load, h, l
  <1>5. QED
    BY <1>2, <1>3, <1>4, Numbers

\* Storing keeps an array of bytes one.
LEMMA StoreType ==
  ASSUME NEW size \in Nat, size > 0, NEW bytes \in [0 .. size - 1 -> Bytes], NEW addr \in Int,
         NEW width \in Widths, NEW v \in Int
  PROVE  Store(bytes, addr, width, size, v) \in [0 .. size - 1 -> Bytes]
  <1>1. Hi(v) \in Bytes /\ Lo(v) \in Bytes
    BY DigitsType
  <1>2. QED
    BY <1>1 DEF Store

\* The first widths take what those before them do, and the last of them.
LEMMA TotalExact ==
  ASSUME NEW widths \in Seq(Widths)
  PROVE  /\ Total(widths) \in [0 .. Len(widths) -> Nat]
         /\ Total(widths)[0] = 0
         /\ \A n \in 1 .. Len(widths) : Total(widths)[n] = Total(widths)[n - 1] + widths[n]
  <1> DEFINE N == Len(widths)
             step == [p \in (1 .. N) \X Nat |-> p[2] + widths[p[1]]]
             IsTotal(f) == f = [n \in 0 .. N |-> IF n = 0 THEN 0 ELSE f[n - 1] + widths[n]]
  <1>1. N \in Nat /\ \A n \in 1 .. N : widths[n] \in Nat
    BY DEF Widths
  <1>2. step \in [(1 .. N) \X Nat -> Nat]
    <2> HIDE DEF N
    <2> QED
      BY <1>1
  <1>3. PICK f \in [0 .. N -> Nat] : Follows(f, N, 0, step)
    <2> HIDE DEF N, step
    <2> QED
      BY <1>1, <1>2, Recursion
  <1> HIDE DEF N
  <1>4. ASSUME NEW n \in 1 .. N
        PROVE  f[n] = f[n - 1] + widths[n]
    <2>1. <<n, f[n - 1]>> \in (1 .. N) \X Nat
      BY <1>1, <1>3
    <2>2. step[<<n, f[n - 1]>>] = f[n - 1] + widths[n]
      BY <2>1
    <2>3. QED
      BY <1>3, <2>2 DEF Follows
  <1>5. IsTotal(f)
    <2>1. f = [n \in 0 .. N |-> f[n]]
      BY <1>3
    <2>2. \A n \in 0 .. N : f[n] = IF n = 0 THEN 0 ELSE f[n - 1] + widths[n]
      BY <1>1, <1>3, <1>4 DEF Follows
    <2>3. QED
      BY <2>1, <2>2
  <1> DEFINE total == Total(widths)
  <1>6. IsTotal(total)
    <2>1. total = CHOOSE g : IsTotal(g)
      BY DEF Total, N
    <2> HIDE DEF IsTotal, total
    <2>2. QED
      BY <1>5, <2>1
  <1> HIDE DEF total
  <1>7. /\ DOMAIN total = 0 .. N /\ total = [n \in 0 .. N |-> total[n]]
        /\ total[0] = 0
        /\ \A n \in 1 .. N : total[n] = total[n - 1] + widths[n]
    <2>1. total = [n \in 0 .. N |-> IF n = 0 THEN 0 ELSE total[n - 1] + widths[n]]
      BY <1>6
    <2>2. 0 \in 0 .. N /\ \A n \in 1 .. N : n \in 0 .. N /\ n # 0
      BY <1>1
    <2>3. QED
      BY <2>1, <2>2
  <1> HIDE DEF IsTotal, step
  <1>8. \A n \in 0 .. N : total[n] \in Nat
    <2> DEFINE X == Nat
    <2>1. ASSUME NEW n \in 1 .. N, total[n - 1] \in X
          PROVE  total[n] \in X
      <3>1. total[n] = total[n - 1] + widths[n] /\ widths[n] \in Nat
        BY <1>1, <1>7
      <3>2. QED
        BY <2>1, <3>1
    <2>2. total[0] \in X
      BY <1>7
    <2>3. \A n \in 0 .. N : total[n] \in X
      <3> HIDE DEF X
      <3> QED
        BY <1>1, <2>1, <2>2, AllAlong
    <2>4. QED
      BY <2>3
  <1>9. total \in [0 .. N -> Nat]
    BY <1>7, <1>8
  <1>10. QED
    BY <1>7, <1>9 DEF N, total

\* Values are pushed one on top of the other.
LEMMA PushedExact ==
  ASSUME NEW bytes \in [Bytes -> Bytes], NEW p \in Int, NEW width \in Widths, NEW values \in Seq(Int)
  PROVE  /\ PushedFirst(bytes, p, width, values) \in [0 .. Len(values) -> [Bytes -> Bytes]]
         /\ PushedFirst(bytes, p, width, values)[0] = bytes
         /\ \A n \in 1 .. Len(values) : PushedFirst(bytes, p, width, values)[n] = Store(PushedFirst(bytes, p, width, values)[n - 1], p + (n - 1) * width, width, Byte, values[n])
  <1> DEFINE N == Len(values)
             X == [Bytes -> Bytes]
             Made(x, n) == Store(x, p + (n - 1) * width, width, Byte, values[n])
             step == [pair \in (1 .. N) \X X |-> Made(pair[2], pair[1])]
             Is(f) == f = [n \in 0 .. N |-> IF n = 0 THEN bytes ELSE Made(f[n - 1], n)]
  <1>1. N \in Nat /\ bytes \in X
    OBVIOUS
  <1>2. ASSUME NEW n \in 1 .. N, NEW x \in X
        PROVE  Made(x, n) \in X
    <2>1. values[n] \in Int /\ n \in Int /\ width \in Int
      BY DEF Widths
    <2>2. p + (n - 1) * width \in Int
      BY <2>1
    <2>3. x \in [Bytes -> Bytes] /\ Bytes = 0 .. Byte - 1 /\ Byte \in Nat /\ Byte > 0
      <3>1. Byte \in Nat /\ Byte > 0
        BY ByteType
      <3>2. QED
        BY <3>1 DEF Bytes
    <2>4. QED
      BY <2>1, <2>2, <2>3, StoreType DEF Bytes
  <1> HIDE DEF N, X, Made
  <1>3. step \in [(1 .. N) \X X -> X]
    BY <1>2
  <1>4. PICK f \in [0 .. N -> X] : Follows(f, N, bytes, step)
    <2> HIDE DEF step
    <2> QED
      BY <1>1, <1>3, Recursion
  <1>5. ASSUME NEW n \in 1 .. N
        PROVE  f[n] = Made(f[n - 1], n)
    <2>1. <<n, f[n - 1]>> \in (1 .. N) \X X
      BY <1>1, <1>4
    <2>2. step[<<n, f[n - 1]>>] = Made(f[n - 1], n)
      BY <2>1
    <2>3. QED
      BY <1>4, <2>2 DEF Follows
  <1>6. Is(f)
    <2>1. f = [n \in 0 .. N |-> f[n]]
      BY <1>4
    <2>2. \A n \in 0 .. N : f[n] = IF n = 0 THEN bytes ELSE Made(f[n - 1], n)
      BY <1>1, <1>4, <1>5 DEF Follows
    <2>3. QED
      BY <2>1, <2>2
  <1> DEFINE F == PushedFirst(bytes, p, width, values)
  <1>7. Is(F)
    <2>1. F = CHOOSE g : Is(g)
      BY DEF PushedFirst, N, Made
    <2> HIDE DEF Is, F
    <2>2. QED
      BY <1>6, <2>1
  <1> HIDE DEF F
  <1>8. /\ DOMAIN F = 0 .. N /\ F = [n \in 0 .. N |-> F[n]]
        /\ F[0] = bytes
        /\ \A n \in 1 .. N : F[n] = Made(F[n - 1], n)
    <2>1. F = [n \in 0 .. N |-> IF n = 0 THEN bytes ELSE Made(F[n - 1], n)]
      BY <1>7
    <2>2. 0 \in 0 .. N /\ \A n \in 1 .. N : n \in 0 .. N /\ n # 0
      BY <1>1
    <2>3. QED
      BY <2>1, <2>2
  <1> HIDE DEF Is, step
  <1>9. \A n \in 0 .. N : F[n] \in X
    <2>1. ASSUME NEW n \in 1 .. N, F[n - 1] \in X
          PROVE  F[n] \in X
      BY <1>2, <1>8, <2>1
    <2>2. F[0] \in X
      BY <1>1, <1>8
    <2>3. QED
      BY <1>1, <2>1, <2>2, AllAlong
  <1>10. F \in [0 .. N -> X]
    BY <1>8, <1>9
  <1>11. QED
    BY <1>8, <1>10 DEF N, X, F, Made

ByteByByte(F, m, src, dst, at) ==
  /\ F \in [0 .. Len(at) -> Memory]
  /\ F[0] = m
  /\ \A n \in 1 .. Len(at) : F[n] = [F[n - 1] EXCEPT ![dst + at[n]] = F[n - 1][src + at[n]]]

\* A copy is made byte by byte.
LEMMA CopiedExact ==
  ASSUME NEW mem0 \in Memory, NEW at \in Seq(Int), NEW src \in Int, NEW dst \in Int,
         \A n \in 1 .. Len(at) : src + at[n] \in 0 .. MemSize - 1
  PROVE  ByteByByte(Copied(mem0, src, dst, at), mem0, src, dst, at)
  <1> DEFINE N == Len(at)
             X == Memory
             Made(x, n) == [x EXCEPT ![dst + at[n]] = x[src + at[n]]]
             step == [pair \in (1 .. N) \X X |-> Made(pair[2], pair[1])]
             Is(f) == f = [n \in 0 .. N |-> IF n = 0 THEN mem0 ELSE Made(f[n - 1], n)]
  <1>1. N \in Nat /\ mem0 \in X
    OBVIOUS
  <1>2. ASSUME NEW n \in 1 .. N, NEW x \in X
        PROVE  Made(x, n) \in X
    BY DEF Memory
  <1> HIDE DEF N, X, Made
  <1>3. step \in [(1 .. N) \X X -> X]
    BY <1>2
  <1>4. PICK f \in [0 .. N -> X] : Follows(f, N, mem0, step)
    <2> HIDE DEF step
    <2> QED
      BY <1>1, <1>3, Recursion
  <1>5. ASSUME NEW n \in 1 .. N
        PROVE  f[n] = Made(f[n - 1], n)
    <2>1. <<n, f[n - 1]>> \in (1 .. N) \X X
      BY <1>1, <1>4
    <2>2. step[<<n, f[n - 1]>>] = Made(f[n - 1], n)
      BY <2>1
    <2>3. QED
      BY <1>4, <2>2 DEF Follows
  <1>6. Is(f)
    <2>1. f = [n \in 0 .. N |-> f[n]]
      BY <1>4
    <2>2. \A n \in 0 .. N : f[n] = IF n = 0 THEN mem0 ELSE Made(f[n - 1], n)
      BY <1>1, <1>4, <1>5 DEF Follows
    <2>3. QED
      BY <2>1, <2>2
  <1> DEFINE F == Copied(mem0, src, dst, at)
  <1>7. Is(F)
    <2>1. F = CHOOSE g : Is(g)
      BY DEF Copied, N, Made
    <2> HIDE DEF Is, F
    <2>2. QED
      BY <1>6, <2>1
  <1> HIDE DEF F
  <1>8. /\ DOMAIN F = 0 .. N /\ F = [n \in 0 .. N |-> F[n]]
        /\ F[0] = mem0
        /\ \A n \in 1 .. N : F[n] = Made(F[n - 1], n)
    <2>1. F = [n \in 0 .. N |-> IF n = 0 THEN mem0 ELSE Made(F[n - 1], n)]
      BY <1>7
    <2>2. 0 \in 0 .. N /\ \A n \in 1 .. N : n \in 0 .. N /\ n # 0
      BY <1>1
    <2>3. QED
      BY <2>1, <2>2
  <1> HIDE DEF Is, step
  <1>9. \A n \in 0 .. N : F[n] \in X
    <2>1. ASSUME NEW n \in 1 .. N, F[n - 1] \in X
          PROVE  F[n] \in X
      BY <1>2, <1>8, <2>1
    <2>2. F[0] \in X
      BY <1>1, <1>8
    <2>3. QED
      BY <1>1, <2>1, <2>2, AllAlong
  <1>10. F \in [0 .. N -> X]
    BY <1>8, <1>9
  <1>11. QED
    BY <1>8, <1>10 DEF N, X, F, Made, ByteByByte

\* The powers of two that a shift needs are positive.
LEMMA PowersExact ==
  /\ PowerOf2 \in [0 .. Nibble - 1 -> (Nat \ {0})]
  /\ PowerOf2[0] = 1
  /\ \A n \in 1 .. Nibble - 1 : PowerOf2[n] = 2 * PowerOf2[n - 1]
  <1> DEFINE N == Nibble - 1
             X == (Nat \ {0})
             Made(x, n) == 2 * x
             step == [pair \in (1 .. N) \X X |-> Made(pair[2], pair[1])]
             Is(f) == f = [n \in 0 .. N |-> IF n = 0 THEN 1 ELSE Made(f[n - 1], n)]
  <1>1. N \in Nat /\ 1 \in X
    BY NibbleAssumption
  <1>2. ASSUME NEW n \in 1 .. N, NEW x \in X
        PROVE  Made(x, n) \in X
    OBVIOUS
  <1> HIDE DEF N, X, Made
  <1>3. step \in [(1 .. N) \X X -> X]
    BY <1>2
  <1>4. PICK f \in [0 .. N -> X] : Follows(f, N, 1, step)
    <2> HIDE DEF step
    <2> QED
      BY <1>1, <1>3, Recursion
  <1>5. ASSUME NEW n \in 1 .. N
        PROVE  f[n] = Made(f[n - 1], n)
    <2>1. <<n, f[n - 1]>> \in (1 .. N) \X X
      BY <1>1, <1>4
    <2>2. step[<<n, f[n - 1]>>] = Made(f[n - 1], n)
      BY <2>1
    <2>3. QED
      BY <1>4, <2>2 DEF Follows
  <1>6. Is(f)
    <2>1. f = [n \in 0 .. N |-> f[n]]
      BY <1>4
    <2>2. \A n \in 0 .. N : f[n] = IF n = 0 THEN 1 ELSE Made(f[n - 1], n)
      BY <1>1, <1>4, <1>5 DEF Follows
    <2>3. QED
      BY <2>1, <2>2
  <1> DEFINE F == PowerOf2
  <1>7. Is(F)
    <2>1. F = CHOOSE g : Is(g)
      BY DEF PowerOf2, N, Made
    <2> HIDE DEF Is, F
    <2>2. QED
      BY <1>6, <2>1
  <1> HIDE DEF F
  <1>8. /\ DOMAIN F = 0 .. N /\ F = [n \in 0 .. N |-> F[n]]
        /\ F[0] = 1
        /\ \A n \in 1 .. N : F[n] = Made(F[n - 1], n)
    <2>1. F = [n \in 0 .. N |-> IF n = 0 THEN 1 ELSE Made(F[n - 1], n)]
      BY <1>7
    <2>2. 0 \in 0 .. N /\ \A n \in 1 .. N : n \in 0 .. N /\ n # 0
      BY <1>1
    <2>3. QED
      BY <2>1, <2>2
  <1> HIDE DEF Is, step
  <1>9. \A n \in 0 .. N : F[n] \in X
    <2>1. ASSUME NEW n \in 1 .. N, F[n - 1] \in X
          PROVE  F[n] \in X
      BY <1>2, <1>8, <2>1
    <2>2. F[0] \in X
      BY <1>1, <1>8
    <2>3. QED
      BY <1>1, <2>1, <2>2, AllAlong
  <1>10. F \in [0 .. N -> X]
    BY <1>8, <1>9
  <1>11. QED
    BY <1>8, <1>10 DEF N, X, F, Made

\* A shift leaves a short: what it moves to the left is cut off.
LEMMA ShiftType ==
  ASSUME NEW a \in Shorts, NEW b \in Bytes
  PROVE  Shift(a, b) \in Shorts
  <1>1. Nibble \in Nat /\ Nibble > 0 /\ b \in 0 .. Nibble * Nibble - 1 /\ a \in Int
    BY NibbleAssumption, Numbers DEF Bytes, Byte
  <1>2. b % Nibble \in 0 .. Nibble - 1
    BY <1>1, Quotient
  <1>3. b \div Nibble \in 0 .. Nibble - 1
    BY <1>1
  <1> DEFINE p == PowerOf2[b % Nibble]
             q == PowerOf2[b \div Nibble]
  <1>4. p \in Nat /\ p > 0 /\ q \in Nat
    <2>1. PowerOf2[b % Nibble] \in Nat \ {0} /\ PowerOf2[b \div Nibble] \in Nat \ {0}
      BY <1>2, <1>3, PowersExact
    <2>2. QED
      BY <2>1
  <1> HIDE DEF p, q
  <1>5. a \div p \in Int
    BY <1>1, <1>4
  <1>6. (a \div p) * q \in Int
    BY <1>4, <1>5
  <1> DEFINE r == (a \div p) * q
  <1>7. r % Short \in Shorts
    <2> HIDE DEF r
    <2> QED
      BY <1>6, ShortType, Quotient DEF Shorts, r
  <1>8. QED
    BY <1>7 DEF Shift, p, q

\* A result is a number, though it may not fit its width.
LEMMA ComputeType ==
  ASSUME NEW base \in Arithmetic, NEW a \in Shorts, NEW b \in Shorts
  PROVE  Compute(base, a, b) \in Int
  <1>1. a \in Int /\ b \in Nat
    BY Numbers
  <1>2. {And(a, b), Ora(a, b), Eor(a, b)} \subseteq Int
    BY BitwiseAssumption DEF Shorts
  <1>3. b # 0 => a \div b \in Int
    BY <1>1
  <1>4. a + b \in Int /\ a - b \in Int /\ a * b \in Int
    BY <1>1
  <1>5. QED
    BY <1>2, <1>3, <1>4 DEF Compute, Arithmetic

\* A relative place wraps around in its page.
LEMMA RelType ==
  ASSUME NEW from \in Int, NEW v \in Shorts
  PROVE  Rel(from, v) \in Shorts
  <1>1. v \in Int /\ Signed(v) \in Int
    BY Numbers, ByteType DEF Signed
  <1>2. from + Signed(v) \in Int
    BY <1>1
  <1>3. QED
    BY <1>2, ShortType, Quotient DEF Rel, Shorts

\* An opcode works on one of the two stacks, on bytes or on shorts.
LEMMA OpTypes ==
  ASSUME NEW op \in Opcodes
  PROVE  /\ op.base \in Poly \union {"LIT", "BRK", "JCI", "JMI", "JSI"}
         /\ op.k \in BOOLEAN /\ op.r \in BOOLEAN /\ op.s \in BOOLEAN
         /\ On(op) \in Stacks /\ Off(op) \in Stacks /\ On(op) # Off(op)
         /\ Stacks = {On(op), Off(op)}
         /\ Width(op) \in Widths
  BY DEF Opcodes, On, Off, Width, Widths, Stacks

\* What is popped is a short, or a byte where one byte is.
LEMMA PoppedType ==
  ASSUME TypeOK, NEW s \in Stacks, NEW widths \in Seq(Widths), NEW n \in 1 .. Len(widths)
  PROVE  /\ Popped(s, widths)[n] \in Shorts
         /\ widths[n] = 1 => Popped(s, widths)[n] \in Bytes
  <1>1. ptr[s] \in Nat /\ Total(widths)[n] \in Nat /\ widths[n] \in Widths
    <2>1. ptr[s] \in Nat
      BY Numbers DEF TypeOK
    <2>2. n \in 0 .. Len(widths) /\ widths[n] \in Widths
      OBVIOUS
    <2>3. Total(widths)[n] \in Nat
      BY <2>2, TotalExact
    <2>4. QED
      BY <2>1, <2>2, <2>3
  <1> DEFINE at == ptr[s] - Total(widths)[n]
  <1>2. at \in Int
    BY <1>1
  <1>3. data[s] \in [0 .. Byte - 1 -> Bytes]
    BY Numbers DEF TypeOK
  <1>4. /\ Load(data[s], at, widths[n], Byte) \in Shorts
        /\ widths[n] = 1 => Load(data[s], at, widths[n], Byte) \in Bytes
    <2> HIDE DEF at
    <2> QED
      BY <1>1, <1>2, <1>3, ByteType, LoadType
  <1>5. QED
    BY <1>4 DEF Popped

\* The pointer without the operands stays a byte, in keep mode and out of it.
LEMMA AfterType ==
  ASSUME TypeOK, NEW op \in Opcodes, NEW widths \in Seq(Widths)
  PROVE  After(op, widths) \in Bytes
  <1>1. ptr[On(op)] \in Bytes /\ ptr[On(op)] \in Nat
    BY OpTypes, Numbers DEF TypeOK
  <1>2. Total(widths)[Len(widths)] \in Nat
    BY TotalExact
  <1>3. ptr[On(op)] - Total(widths)[Len(widths)] \in Int
    BY <1>1, <1>2
  <1>4. (ptr[On(op)] - Total(widths)[Len(widths)]) % Byte \in Bytes
    BY <1>3, ByteType, Quotient DEF Bytes
  <1>5. QED
    BY <1>1, <1>4 DEF After

\* A push keeps a stack an array of bytes.
LEMMA PushedType ==
  ASSUME NEW bytes \in [Bytes -> Bytes], NEW p \in Int, NEW width \in Widths, NEW values \in Seq(Int)
  PROVE  Pushed(bytes, p, width, values) \in [Bytes -> Bytes]
  <1>1. Len(values) \in 0 .. Len(values)
    OBVIOUS
  <1>2. QED
    BY <1>1, PushedExact DEF Pushed

\* So do operands replaced by results, and the pointers stay bytes.
LEMMA ReplaceType ==
  ASSUME TypeOK, NEW op \in Opcodes, NEW taken \in Seq(Widths), NEW width \in Widths,
         NEW values \in Seq(Int), Replace(op, taken, width, values)
  PROVE  data' \in [Stacks -> [Bytes -> Bytes]] /\ ptr' \in [Stacks -> Bytes]
  <1> DEFINE p == After(op, taken)
             top == (p + Len(values) * width) % Byte
  <1>1. p \in Int /\ Len(values) \in Int /\ width \in Int
    <2>1. After(op, taken) \in Bytes
      BY AfterType
    <2>2. p \in Int
      BY <2>1, Nats
    <2>3. width \in Int
      BY DEF Widths
    <2>4. QED
      BY <2>2, <2>3
  <1>2. p + Len(values) * width \in Int
    <2> HIDE DEF p
    <2> QED
      BY <1>1
  <1>3. top \in Bytes
    <2> HIDE DEF p
    <2> QED
      BY <1>2, ByteType, Quotient DEF Bytes
  <1>4. On(op) \in Stacks /\ data[On(op)] \in [Bytes -> Bytes]
    BY OpTypes DEF TypeOK
  <1>5. Pushed(data[On(op)], p, width, values) \in [Bytes -> Bytes]
    <2> HIDE DEF p
    <2> QED
      BY <1>1, <1>4, PushedType
  <1>6. /\ data' = [data EXCEPT ![On(op)] = Pushed(data[On(op)], p, width, values)]
        /\ ptr' = [ptr EXCEPT ![On(op)] = top]
    BY DEF Replace
  <1> HIDE DEF p, top
  <1>7. QED
    BY <1>3, <1>4, <1>5, <1>6 DEF TypeOK

\* What is read from the memory is a short.
LEMMA MemoryRead ==
  ASSUME NEW m \in Memory, NEW addr \in Int, NEW width \in Widths, NEW size \in {Byte, Short}
  PROVE  Load(m, addr, width, size) \in Shorts /\ Load(m, addr, width, size) \in Int
  <1> DEFINE low == [i \in 0 .. size - 1 |-> m[i]]
  <1>1. size \in Nat /\ size > 0 /\ size <= Short /\ addr + 1 \in Int
    BY ByteType, ShortType
  <1>2. low \in [0 .. size - 1 -> Bytes]
    <2>1. \A i \in 0 .. size - 1 : i \in 0 .. MemSize - 1
      BY <1>1, MemType, ShortType
    <2>2. QED
      BY <2>1 DEF Memory
  <1>3. addr % size \in 0 .. size - 1 /\ (addr + 1) % size \in 0 .. size - 1
    BY <1>1, Quotient
  <1>4. Load(m, addr, width, size) = Load(low, addr, width, size)
    BY <1>3 DEF Load
  <1> HIDE DEF low
  <1>5. Load(m, addr, width, size) \in Shorts
    BY <1>1, <1>2, <1>4, LoadType
  <1>6. QED
    BY <1>5, Nats

\* A place for an expansion is in the memory.
LEMMA PlaceType ==
  ASSUME NEW m \in Memory, NEW addr \in Int
  PROVE  /\ Short2(m, addr) \in Shorts
         /\ Place(m, addr) \in 0 .. MemSize - 1
  <1>1. MemSize \in Nat /\ MemSize > 0 /\ Short \in Nat /\ Short > 0 /\ addr + 2 \in Int
    BY MemType, ShortType
  <1>2. ASSUME NEW x \in Int
        PROVE  Short2(m, x) \in Shorts
    BY MemoryRead DEF Short2, Widths
  <1> DEFINE h == Short2(m, addr)
             l == Short2(m, addr + 2)
  <1>3. h \in Nat /\ l \in Nat
    BY <1>1, <1>2, Numbers
  <1> HIDE DEF h, l
  <1>4. h * Short + l \in Nat
    BY <1>1, <1>3
  <1> DEFINE place == h * Short + l
  <1>5. Place(m, addr) = IF place < MemSize THEN place ELSE MemSize - 1
    BY DEF Place, h, l
  <1> HIDE DEF place
  <1>6. place \in Nat
    BY <1>4 DEF place
  <1>7. QED
    BY <1>1, <1>2, <1>5, <1>6

\* What fits of a length is no more than that, and is in the memory.
LEMMA Fits ==
  ASSUME NEW place \in 0 .. MemSize - 1, NEW length \in Shorts
  PROVE  /\ Fitting(place, length) \in 0 .. length
         /\ place + Fitting(place, length) <= MemSize
         /\ \/ Fitting(place, length) = length
            \/ place + Fitting(place, length) = MemSize
  <1>1. MemSize \in Nat /\ length \in Nat
    BY MemType, Numbers
  <1>2. QED
    BY <1>1 DEF Fitting

\* A copy inside the memory keeps it an array of bytes.
LEMMA CopyType ==
  ASSUME NEW m \in Memory, NEW src \in Nat, NEW dst \in Nat, NEW length \in Nat,
         src + length <= MemSize, dst + length <= MemSize
  PROVE  CopyLeft(m, src, dst, length) \in Memory /\ CopyRight(m, src, dst, length) \in Memory
  <1> DEFINE left == [n \in 1 .. length |-> n - 1]
             right == [n \in 1 .. length |-> length - n]
  <1>1. /\ left \in Seq(Int) /\ Len(left) = length
        /\ \A n \in 1 .. length : src + left[n] \in 0 .. MemSize - 1
    BY MemType
  <1>2. /\ right \in Seq(Int) /\ Len(right) = length
        /\ \A n \in 1 .. length : src + right[n] \in 0 .. MemSize - 1
    BY MemType
  <1> HIDE DEF left, right
  <1>3. Copied(m, src, dst, left)[length] \in Memory
    <2>1. Copied(m, src, dst, left) \in [0 .. length -> Memory]
      BY <1>1, CopiedExact DEF ByteByByte
    <2>2. QED
      BY <2>1
  <1>4. Copied(m, src, dst, right)[length] \in Memory
    <2>1. Copied(m, src, dst, right) \in [0 .. length -> Memory]
      BY <1>2, CopiedExact DEF ByteByByte
    <2>2. QED
      BY <2>1
  <1>5. QED
    BY <1>3, <1>4 DEF CopyLeft, CopyRight, left, right

\* So does any operation of System/expansion, wherever its places are.
LEMMA ExpandedType ==
  ASSUME NEW m \in Memory, NEW addr \in Shorts
  PROVE  Expanded(m, addr) \in Memory
  <1> DEFINE length == Short2(m, addr + 1)
             first == Place(m, addr + 3)
             second == Place(m, addr + 7)
             fits == Fitting(Farther(first, second), length)
  <1>1. addr \in Nat /\ addr + 1 \in Int /\ addr + 3 \in Int /\ addr + 7 \in Int
    BY Numbers
  <1>2. m[addr] \in Bytes /\ m[addr + 7] \in Bytes
    BY <1>1, MemType, ShortType DEF Memory, Shorts
  <1>3. length \in Shorts /\ first \in 0 .. MemSize - 1 /\ second \in 0 .. MemSize - 1
    BY <1>1, PlaceType
  <1> HIDE DEF length, first, second
  <1>4. Farther(first, second) \in 0 .. MemSize - 1
    BY <1>3 DEF Farther
  <1>5. fits \in 0 .. length /\ Farther(first, second) + fits <= MemSize
    BY <1>3, <1>4, Fits
  <1> HIDE DEF fits
  <1>6. length \in Nat /\ fits \in Nat /\ first \in Nat /\ second \in Nat
    BY <1>3, <1>5, Numbers
  <1>7. first + fits <= MemSize /\ second + fits <= MemSize
    BY <1>5, <1>6, MemType DEF Farther
  <1>8. /\ CopyLeft(m, first, second, fits) \in Memory
        /\ CopyRight(m, first, second, fits) \in Memory
    BY <1>6, <1>7, CopyType
  <1>9. Fill(m, first, Fitting(first, length), m[addr + 7]) \in Memory
    BY <1>2 DEF Fill, Memory
  <1>10. \/ Expanded(m, addr) = Fill(m, first, Fitting(first, length), m[addr + 7])
         \/ Expanded(m, addr) = CopyLeft(m, first, second, fits)
         \/ Expanded(m, addr) = CopyRight(m, first, second, fits)
         \/ Expanded(m, addr) = m
    BY DEF Expanded, length, first, second, fits
  <1>11. QED
    BY <1>8, <1>9, <1>10

\* A write to a port leaves pointers bytes and the memory an array of them.
LEMMA DeoType ==
  ASSUME NEW m \in Memory, NEW p \in [Stacks -> Bytes], NEW d \in [Bytes -> Bytes], NEW port \in Bytes
  PROVE  DeoPtr(p, port, d) \in [Stacks -> Bytes] /\ DeoMem(m, port, d) \in Memory
  <1>1. port - 1 \in Int /\ 2 \in Widths /\ Byte \in Nat /\ Byte > 0 /\ 0 .. Byte - 1 = Bytes
    BY ByteType, Numbers DEF Widths
  <1>2. Load(d, port - 1, 2, Byte) \in Shorts
    BY <1>1, LoadType
  <1>3. DeoMem(m, port, d) \in Memory
    BY <1>2, ExpandedType DEF DeoMem
  <1>4. DeoPtr(p, port, d) \in [Stacks -> Bytes]
    BY DEF DeoPtr
  <1>5. QED
    BY <1>3, <1>4

\* A byte is read from a port.
LEMMA DeiType ==
  ASSUME TypeOK, NEW p \in [Stacks -> Bytes], NEW port \in Bytes
  PROVE  Dei(p, port) \in Bytes
  BY Numbers DEF Dei, TypeOK

-----------------------------------------------------------------------------
(***************************************************************************)
(* Types: pointers and bytes stay in their eight bits, pc in its sixteen.  *)
(***************************************************************************)
MachineOK ==
  /\ running \in BOOLEAN
  /\ pc \in Shorts
  /\ data \in [Stacks -> [Bytes -> Bytes]]
  /\ ptr \in [Stacks -> Bytes]
  /\ saved \in [Stacks -> Bytes]
  /\ mem \in Memory
  /\ dev \in [Bytes -> Bytes]

\* TypeOK is that of the machine and of what only the model has.
LEMMA MachineTyped ==
  /\ TypeOK <=> MachineOK /\ instr \in Opcodes /\ fuel \in Nat
  /\ TypeOK' <=> MachineOK' /\ instr' \in Opcodes /\ fuel' \in Nat
  BY DEF TypeOK, MachineOK, Memory, Shorts, Bytes

\* Short tuples are sequences.
LEMMA Tuples ==
  ASSUME NEW S, NEW a \in S, NEW b \in S, NEW c \in S
  PROVE  /\ <<>> \in Seq(S) /\ Len(<<>>) = 0
         /\ <<a>> \in Seq(S) /\ Len(<<a>>) = 1
         /\ <<a, b>> \in Seq(S) /\ Len(<<a, b>>) = 2
         /\ <<a, b, c>> \in Seq(S) /\ Len(<<a, b, c>>) = 3
  OBVIOUS

\* The place after the opcode wraps around.
LEMMA NextType ==
  ASSUME TypeOK
  PROVE  next \in Shorts /\ next \in Nat /\ (next + 2) % Short \in Shorts
  <1>1. pc \in Int /\ pc + 1 \in Int
    BY ShortType DEF TypeOK
  <1>2. next \in Shorts
    BY <1>1, ShortType, Quotient DEF next, Shorts
  <1>3. next \in Nat
    BY <1>2, Numbers
  <1>4. (next + 2) % Short \in Shorts
    <2> HIDE DEF next
    <2>1. next + 2 \in Int
      BY <1>3
    <2>2. QED
      BY <2>1, ShortType, Quotient DEF Shorts
  <1>5. QED
    BY <1>2, <1>3, <1>4

\* The operands of one width, as a sequence of widths.
LEMMA SameType ==
  ASSUME NEW op \in Opcodes, NEW n \in 1 .. 3
  PROVE  /\ Same(op, n) \in Seq(Widths) /\ Len(Same(op, n)) = n
         /\ \A i \in 1 .. n : Same(op, n)[i] = Width(op)
  BY OpTypes DEF Same

\* What most instructions do leaves the machine typed.
LEMMA ReplaceTyped ==
  ASSUME TypeOK, NEW op \in Opcodes, NEW taken \in Seq(Widths), NEW width \in Widths,
         NEW values \in Seq(Int), Replace(op, taken, width, values),
         pc' \in Shorts, UNCHANGED <<running, saved, mem, dev>>
  PROVE  MachineOK'
  <1>1. data' \in [Stacks -> [Bytes -> Bytes]] /\ ptr' \in [Stacks -> Bytes]
    BY ReplaceType
  <1>2. QED
    BY <1>1, MachineTyped DEF MachineOK

\* What the instructions that shuffle operands put back.
Arity(op) == IF op.base \in {"INC", "POP", "DUP"} THEN 1 ELSE IF op.base = "ROT" THEN 3 ELSE 2

Shuffled(op, x) ==
  CASE op.base = "INC" -> <<x[1] + 1>>
    [] op.base = "POP" -> <<>>
    [] op.base = "NIP" -> <<x[1]>>
    [] op.base = "SWP" -> <<x[1], x[2]>>
    [] op.base = "ROT" -> <<x[2], x[1], x[3]>>
    [] op.base = "DUP" -> <<x[1], x[1]>>
    [] op.base = "OVR" -> <<x[2], x[1], x[2]>>

\* It is made of integers.
LEMMA ShuffleTyped ==
  ASSUME TypeOK, NEW op \in Opcodes, Shuffle(op)
  PROVE  /\ Same(op, Arity(op)) \in Seq(Widths)
         /\ Shuffled(op, Popped(On(op), Same(op, Arity(op)))) \in Seq(Int)
         /\ op.base \in Shuffles
         /\ Replace(op, Same(op, Arity(op)), Width(op), Shuffled(op, Popped(On(op), Same(op, Arity(op)))))
         /\ pc' = next
         /\ UNCHANGED <<running, saved, mem, dev>>
  <1> DEFINE arity == Arity(op)
             widths == Same(op, arity)
             x == Popped(On(op), widths)
             results == Shuffled(op, x)
  <1>1. arity \in 1 .. 3 /\ widths \in Seq(Widths) /\ Len(widths) = arity
    <2>1. arity \in 1 .. 3
      BY DEF Arity
    <2>2. QED
      BY <2>1, SameType
  <1>2. \A n \in 1 .. arity : x[n] \in Int
    <2>1. ASSUME NEW n \in 1 .. arity
          PROVE  x[n] \in Int
      <3> HIDE DEF arity, widths
      <3>1. x[n] \in Shorts
        BY <1>1, OpTypes, PoppedType
      <3>2. QED
        BY <3>1, Nats
    <2>2. QED
      BY <2>1
  <1>3. op.base \in Shuffles
    BY DEF Shuffle
  <1>4. results \in Seq(Int)
    <2> HIDE DEF x
    <2>1. CASE op.base \in {"INC", "POP", "DUP"}
      <3>1. x[1] \in Int /\ x[1] + 1 \in Int
        BY <1>2, <2>1 DEF Arity
      <3>2. QED
        BY <2>1, <3>1, Tuples DEF Shuffled
    <2>2. CASE op.base = "ROT"
      <3>1. x[1] \in Int /\ x[2] \in Int /\ x[3] \in Int
        BY <1>2, <2>2 DEF Arity
      <3>2. QED
        BY <2>2, <3>1, Tuples DEF Shuffled
    <2>3. CASE op.base \in {"NIP", "SWP", "OVR"}
      <3>1. x[1] \in Int /\ x[2] \in Int
        BY <1>2, <2>3 DEF Arity
      <3>2. QED
        BY <2>3, <3>1, Tuples DEF Shuffled
    <2>4. QED
      BY <1>3, <2>1, <2>2, <2>3 DEF Shuffles
  <1>5. /\ Replace(op, widths, Width(op), results)
        /\ pc' = next
        /\ UNCHANGED <<running, saved, mem, dev>>
    BY DEF Shuffle, Arity, Shuffled
  <1>6. QED
    BY <1>1, <1>3, <1>4, <1>5

\* Shuffles leave the machine typed.
LEMMA ShuffleType ==
  ASSUME TypeOK, NEW op \in Opcodes, Shuffle(op)
  PROVE  MachineOK'
  BY ShuffleTyped, OpTypes, NextType, ReplaceTyped

\* So do calculations: a result is cut to its width.
LEMMA CalculateType ==
  ASSUME TypeOK, NEW op \in Opcodes, Calculate(op)
  PROVE  MachineOK'
  <1> DEFINE widths == Same(op, 2)
             x == Popped(On(op), widths)
             truth == IF Holds(op.base, x[2], x[1]) THEN 1 ELSE 0
             value == Compute(op.base, x[2], x[1])
  <1>1. widths \in Seq(Widths) /\ Len(widths) = 2
    BY SameType
  <1>2. x[1] \in Shorts /\ x[2] \in Shorts
    <2> HIDE DEF widths
    <2> QED
      BY <1>1, OpTypes, PoppedType
  <1>3. /\ op.base \in Comparisons \union Arithmetic
        /\ IF op.base \in Comparisons THEN Replace(op, widths, 1, <<truth>>)
           ELSE Replace(op, widths, Width(op), <<value>>)
        /\ pc' = next
        /\ UNCHANGED <<running, saved, mem, dev>>
    BY DEF Calculate
  <1> HIDE DEF widths, x
  <1>4. <<truth>> \in Seq(Int)
    BY Tuples
  <1>5. op.base \notin Comparisons => <<value>> \in Seq(Int)
    <2> HIDE DEF value
    <2>1. op.base \notin Comparisons => value \in Int
      BY <1>2, <1>3, ComputeType DEF value
    <2>2. QED
      BY <2>1, Tuples
  <1>6. 1 \in Widths /\ Width(op) \in Widths
    BY OpTypes DEF Widths
  <1> HIDE DEF truth, value
  <1>7. QED
    BY <1>1, <1>3, <1>4, <1>5, <1>6, NextType, ReplaceTyped

\* The operands of an instruction that takes a byte or an address first.
LEMMA TwoPopped ==
  ASSUME TypeOK, NEW s \in Stacks, NEW a \in Widths, NEW b \in Widths
  PROVE  /\ Popped(s, <<a>>)[1] \in Shorts
         /\ a = 1 => Popped(s, <<a>>)[1] \in Bytes
         /\ Popped(s, <<a, b>>)[1] \in Shorts
         /\ a = 1 => Popped(s, <<a, b>>)[1] \in Bytes
         /\ Popped(s, <<a, b>>)[2] \in Shorts
         /\ b = 1 => Popped(s, <<a, b>>)[2] \in Bytes
  <1> DEFINE one == <<a>>
             two == <<a, b>>
  <1>1. one \in Seq(Widths) /\ Len(one) = 1 /\ one[1] = a
    OBVIOUS
  <1>2. two \in Seq(Widths) /\ Len(two) = 2 /\ two[1] = a /\ two[2] = b
    OBVIOUS
  <1> HIDE DEF one, two
  <1>3. 1 \in 1 .. 1 /\ 1 \in 1 .. 2 /\ 2 \in 1 .. 2
    OBVIOUS
  <1>4. Popped(s, one)[1] \in Shorts /\ (a = 1 => Popped(s, one)[1] \in Bytes)
    BY <1>1, <1>3, PoppedType
  <1>5. /\ Popped(s, two)[1] \in Shorts /\ (a = 1 => Popped(s, two)[1] \in Bytes)
        /\ Popped(s, two)[2] \in Shorts /\ (b = 1 => Popped(s, two)[2] \in Bytes)
    BY <1>2, <1>3, PoppedType
  <1>6. QED
    BY <1>4, <1>5 DEF one, two

\* So do shifts.
LEMMA ShiftBitsType ==
  ASSUME TypeOK, NEW op \in Opcodes, ShiftBits(op)
  PROVE  MachineOK'
  <1> DEFINE widths == <<1, Width(op)>>
             x == Popped(On(op), widths)
             value == Shift(x[2], x[1])
  <1>1. 1 \in Widths /\ Width(op) \in Widths /\ On(op) \in Stacks
    BY OpTypes DEF Widths
  <1>2. widths \in Seq(Widths)
    BY <1>1, Tuples
  <1>3. value \in Int
    <2>1. x[1] \in Bytes /\ x[2] \in Shorts
      BY <1>1, TwoPopped
    <2> HIDE DEF x
    <2>2. QED
      BY <2>1, ShiftType, Nats
  <1>4. /\ Replace(op, widths, Width(op), <<value>>)
        /\ pc' = next
        /\ UNCHANGED <<running, saved, mem, dev>>
    BY DEF ShiftBits
  <1> HIDE DEF widths, value
  <1>5. <<value>> \in Seq(Int)
    BY <1>3, Tuples
  <1>6. QED
    BY <1>1, <1>2, <1>4, <1>5, NextType, ReplaceTyped

\* The place a jump goes to is in the memory the program counter reaches.
LEMMA TargetType ==
  ASSUME TypeOK, NEW op \in Opcodes, NEW v \in Shorts
  PROVE  Target(op, v) \in Shorts
  BY NextType, RelType, Nats DEF Target

\* Jumps leave the machine typed.
LEMMA JumpType ==
  ASSUME TypeOK, NEW op \in Opcodes, Jump(op)
  PROVE  MachineOK'
  <1> DEFINE widths == IF op.base = "JCN" THEN <<Width(op), 1>> ELSE <<Width(op)>>
             x == Popped(On(op), widths)
  <1>1. 1 \in Widths /\ Width(op) \in Widths /\ On(op) \in Stacks
    BY OpTypes DEF Widths
  <1>2. widths \in Seq(Widths)
    BY <1>1, Tuples
  <1>3. x[1] \in Shorts
    BY <1>1, TwoPopped
  <1>4. /\ Replace(op, widths, 1, <<>>)
        /\ pc' = IF op.base = "JCN" /\ x[2] = 0 THEN next ELSE Target(op, x[1])
        /\ UNCHANGED <<running, saved, mem, dev>>
    BY DEF Jump
  <1> HIDE DEF widths, x
  <1>5. pc' \in Shorts
    BY <1>3, <1>4, NextType, TargetType
  <1>6. <<>> \in Seq(Int)
    BY Tuples
  <1>7. QED
    BY <1>1, <1>2, <1>4, <1>5, <1>6, ReplaceTyped

\* A value pushed on a stack leaves the stacks typed.
LEMMA PushTyped ==
  ASSUME TypeOK, NEW s \in Stacks, NEW width \in Widths, NEW v \in Int
  PROVE  /\ [data EXCEPT ![s] = Pushed(data[s], ptr[s], width, <<v>>)]
              \in [Stacks -> [Bytes -> Bytes]]
         /\ (ptr[s] + width) % Byte \in Bytes
  <1>1. data[s] \in [Bytes -> Bytes] /\ ptr[s] \in Bytes
    BY DEF TypeOK
  <1>2. ptr[s] \in Int /\ width \in Int
    <2>1. ptr[s] \in Int
      BY <1>1, Nats
    <2>2. width \in Int
      BY DEF Widths
    <2>3. QED
      BY <2>1, <2>2
  <1>3. <<v>> \in Seq(Int)
    BY Tuples
  <1>4. Pushed(data[s], ptr[s], width, <<v>>) \in [Bytes -> Bytes]
    BY <1>1, <1>2, <1>3, PushedType
  <1>5. ptr[s] + width \in Int
    BY <1>2
  <1>6. (ptr[s] + width) % Byte \in Bytes
    BY <1>5, ByteType, Quotient DEF Bytes
  <1>7. QED
    BY <1>4, <1>6 DEF TypeOK

\* So do instructions that put something on the other stack.
LEMMA StashType ==
  ASSUME TypeOK, NEW op \in Opcodes, Stash(op)
  PROVE  MachineOK'
  <1> DEFINE widths == <<Width(op)>>
             x == Popped(On(op), widths)
             width == IF op.base = "JSR" THEN 2 ELSE Width(op)
             v == IF op.base = "JSR" THEN next ELSE x[1]
             after == After(op, widths)
             top == (ptr[Off(op)] + width) % Byte
  <1>1. /\ Width(op) \in Widths /\ On(op) \in Stacks /\ Off(op) \in Stacks
        /\ width \in Widths
    BY OpTypes DEF Widths
  <1>2. widths \in Seq(Widths)
    BY <1>1, Tuples
  <1>3. x[1] \in Shorts
    BY <1>1, TwoPopped
  <1>4. v \in Int
    <2> HIDE DEF x
    <2> QED
      BY <1>3, NextType, Nats
  <1>5. after \in Bytes
    BY <1>2, AfterType
  <1>6. /\ data' = [data EXCEPT ![Off(op)] = Pushed(data[Off(op)], ptr[Off(op)], width, <<v>>)]
        /\ ptr' = [ptr EXCEPT ![On(op)] = after, ![Off(op)] = top]
        /\ pc' = IF op.base = "JSR" THEN Target(op, x[1]) ELSE next
        /\ UNCHANGED <<running, saved, mem, dev>>
    BY DEF Stash
  <1> HIDE DEF widths, x, width, v, after, top
  <1>7. data' \in [Stacks -> [Bytes -> Bytes]] /\ top \in Bytes
    BY <1>1, <1>4, <1>6, PushTyped DEF top
  <1>8. pc' \in Shorts
    BY <1>3, <1>6, NextType, TargetType
  <1>9. ptr' \in [Stacks -> Bytes]
    BY <1>1, <1>5, <1>6, <1>7 DEF TypeOK
  <1>10. QED
    BY <1>6, <1>7, <1>8, <1>9, MachineTyped DEF MachineOK

\* Where a memory access goes, and what is there.
LEMMA ReachedType ==
  ASSUME TypeOK, NEW op \in Opcodes, NEW a \in Shorts
  PROVE  /\ Reached(op, a) \in Int
         /\ Wraps(op) \in {Byte, Short}
         /\ AddrWidth(op) \in Widths
  <1>1. Rel(next, a) \in Shorts
    BY NextType, RelType
  <1>2. QED
    BY <1>1, Nats DEF Reached, Wraps, AddrWidth, Widths

\* A value stored to the memory, in the zero page or anywhere, leaves it an array of bytes.
LEMMA MemoryWritten ==
  ASSUME NEW m \in Memory, NEW addr \in Int, NEW width \in Widths, NEW size \in {Byte, Short},
         NEW v \in Int
  PROVE  Store(m, addr, width, size, v) \in Memory
  <1>1. Hi(v) \in Bytes /\ Lo(v) \in Bytes
    BY DigitsType
  <1>2. QED
    BY <1>1 DEF Store, Memory

\* Loads leave the machine typed.
LEMMA LoadMemoryType ==
  ASSUME TypeOK, NEW op \in Opcodes, LoadMemory(op)
  PROVE  MachineOK'
  <1> DEFINE widths == <<AddrWidth(op)>>
             a == Popped(On(op), widths)[1]
             v == Load(mem, Reached(op, a), Width(op), Wraps(op))
  <1>1. AddrWidth(op) \in Widths /\ Width(op) \in Widths /\ On(op) \in Stacks
    BY OpTypes DEF AddrWidth, Widths
  <1>2. widths \in Seq(Widths)
    BY <1>1, Tuples
  <1>3. a \in Shorts
    BY <1>1, TwoPopped
  <1>4. /\ Replace(op, widths, Width(op), <<v>>)
        /\ pc' = next
        /\ UNCHANGED <<running, saved, mem, dev>>
    BY DEF LoadMemory
  <1> HIDE DEF widths, a
  <1>5. v \in Int
    BY <1>1, <1>3, ReachedType, MemoryRead, MachineTyped DEF MachineOK
  <1> HIDE DEF v
  <1>6. <<v>> \in Seq(Int)
    BY <1>5, Tuples
  <1>7. QED
    BY <1>1, <1>2, <1>4, <1>6, NextType, ReplaceTyped

\* So do stores.
LEMMA StoreMemoryType ==
  ASSUME TypeOK, NEW op \in Opcodes, StoreMemory(op)
  PROVE  MachineOK'
  <1> DEFINE widths == <<AddrWidth(op), Width(op)>>
             x == Popped(On(op), widths)
  <1>1. /\ AddrWidth(op) \in Widths /\ Width(op) \in Widths /\ On(op) \in Stacks
        /\ 1 \in Widths
    BY OpTypes DEF AddrWidth, Widths
  <1>2. widths \in Seq(Widths)
    BY <1>1, Tuples
  <1>3. x[1] \in Shorts /\ x[2] \in Shorts
    BY <1>1, TwoPopped
  <1>4. /\ Replace(op, widths, 1, <<>>)
        /\ mem' = Store(mem, Reached(op, x[1]), Width(op), Wraps(op), x[2])
        /\ pc' = next
        /\ UNCHANGED <<running, saved, dev>>
    BY DEF StoreMemory
  <1> HIDE DEF widths, x
  <1>5. mem' \in Memory
    <2>1. x[2] \in Int /\ mem \in Memory
      BY <1>3, Nats, MachineTyped DEF MachineOK
    <2>2. QED
      BY <1>1, <1>3, <1>4, <2>1, ReachedType, MemoryWritten
  <1>6. <<>> \in Seq(Int)
    BY Tuples
  <1>7. data' \in [Stacks -> [Bytes -> Bytes]] /\ ptr' \in [Stacks -> Bytes]
    BY <1>1, <1>2, <1>4, <1>6, ReplaceType
  <1>8. QED
    BY <1>4, <1>5, <1>7, NextType, MachineTyped DEF MachineOK

\* So do the instructions with something after their opcode.
LEMMA ImmediateType ==
  ASSUME TypeOK, NEW op \in Opcodes, Immediate(op)
  PROVE  MachineOK'
  <1> DEFINE where == Load(mem, next, 2, Short)
             onward == (next + 2) % Short
             there == (onward + where) % Short
             cond == Popped("ws", <<1>>)[1]
             literal == Load(mem, next, Width(op), Short)
  <1>1. 1 \in Widths /\ 2 \in Widths /\ Width(op) \in Widths /\ "rs" \in Stacks
    BY OpTypes DEF Widths, Stacks
  <1>2. mem \in Memory /\ next \in Int
    BY MachineTyped, NextType DEF MachineOK
  <1>3. where \in Int /\ literal \in Int
    BY <1>1, <1>2, MemoryRead
  <1>4. onward \in Shorts /\ onward \in Int
    BY NextType, Nats
  <1> HIDE DEF where, literal, onward
  <1>5. onward + where \in Int
    BY <1>3, <1>4
  <1>6. there \in Shorts
    BY <1>5, ShortType, Quotient DEF Shorts
  <1>7. next + Width(op) \in Int
    BY <1>1, <1>2 DEF Widths
  <1>8. (next + Width(op)) % Short \in Shorts
    BY <1>7, ShortType, Quotient DEF Shorts
  <1> HIDE DEF there
  <1>9. UNCHANGED <<running, saved, mem, dev>>
    BY DEF Immediate
  <1>10. CASE /\ Replace(op, <<>>, Width(op), <<literal>>)
              /\ pc' = (next + Width(op)) % Short
    <2>1. <<>> \in Seq(Widths) /\ <<literal>> \in Seq(Int)
      BY <1>3, Tuples
    <2>2. QED
      BY <1>1, <1>8, <1>9, <1>10, <2>1, ReplaceTyped
  <1>11. CASE pc' = there /\ UNCHANGED <<data, ptr>>
    BY <1>6, <1>9, <1>11, MachineTyped DEF MachineOK
  <1>12. CASE /\ Replace(op, <<1>>, 1, <<>>)
              /\ pc' \in {there, onward}
    <2>1. <<1>> \in Seq(Widths) /\ <<>> \in Seq(Int)
      BY <1>1, Tuples
    <2>2. pc' \in Shorts
      BY <1>4, <1>6, <1>12
    <2>3. QED
      BY <1>1, <1>9, <1>12, <2>1, <2>2, ReplaceTyped
  <1>13. CASE /\ data' = [data EXCEPT !["rs"] = Pushed(data["rs"], ptr["rs"], 2, <<onward>>)]
              /\ ptr' = [ptr EXCEPT !["rs"] = (ptr["rs"] + 2) % Byte]
              /\ pc' = there
    <2>1. data' \in [Stacks -> [Bytes -> Bytes]] /\ (ptr["rs"] + 2) % Byte \in Bytes
      BY <1>1, <1>4, <1>13, PushTyped
    <2>2. ptr' \in [Stacks -> Bytes]
      BY <1>1, <1>13, <2>1 DEF TypeOK
    <2>3. QED
      BY <1>6, <1>9, <1>13, <2>1, <2>2, MachineTyped DEF MachineOK
  <1>14. QED
    <2>1. \/ /\ Replace(op, <<>>, Width(op), <<literal>>)
             /\ pc' = (next + Width(op)) % Short
          \/ pc' = there /\ UNCHANGED <<data, ptr>>
          \/ /\ Replace(op, <<1>>, 1, <<>>)
             /\ pc' = IF cond # 0 THEN there ELSE onward
          \/ /\ data' = [data EXCEPT !["rs"] = Pushed(data["rs"], ptr["rs"], 2, <<onward>>)]
             /\ ptr' = [ptr EXCEPT !["rs"] = (ptr["rs"] + 2) % Byte]
             /\ pc' = there
      BY DEF Immediate, where, literal, onward, there
    <2>2. QED
      BY <1>10, <1>11, <1>12, <1>13, <2>1

\* So do reads of devices.
LEMMA InputType ==
  ASSUME TypeOK, NEW op \in Opcodes, Input(op)
  PROVE  MachineOK'
  <1> DEFINE a == Popped(On(op), <<1>>)[1]
             after == After(op, <<1>>)
             inLine == [ptr EXCEPT ![On(op)] = after]
             hi == Dei(inLine, a)
             lo == Dei(inLine, (a + 1) % Byte)
             v == IF op.s THEN hi * Byte + lo ELSE hi
  <1>1. 1 \in Widths /\ Width(op) \in Widths /\ On(op) \in Stacks
    BY OpTypes DEF Widths
  <1>2. <<1>> \in Seq(Widths)
    BY <1>1, Tuples
  <1>3. a \in Bytes
    BY <1>1, TwoPopped
  <1>4. after \in Bytes
    BY <1>2, AfterType
  <1>5. /\ saved' = inLine
        /\ Replace(op, <<1>>, Width(op), <<v>>)
        /\ pc' = next
        /\ UNCHANGED <<running, mem, dev>>
    BY DEF Input
  <1> HIDE DEF after, a
  <1>6. inLine \in [Stacks -> Bytes]
    BY <1>1, <1>4 DEF TypeOK
  <1> HIDE DEF inLine
  <1>7. (a + 1) % Byte \in Bytes
    <2>1. a + 1 \in Int
      BY <1>3, Nats
    <2>2. QED
      BY <2>1, ByteType, Quotient DEF Bytes
  <1>8. hi \in Bytes /\ lo \in Bytes
    BY <1>3, <1>6, <1>7, DeiType
  <1> HIDE DEF hi, lo
  <1>9. v \in Int
    BY <1>8, Nats, ByteType
  <1> HIDE DEF v
  <1>10. <<v>> \in Seq(Int)
    BY <1>9, Tuples
  <1>11. data' \in [Stacks -> [Bytes -> Bytes]] /\ ptr' \in [Stacks -> Bytes]
    BY <1>1, <1>2, <1>5, <1>10, ReplaceType
  <1>12. QED
    BY <1>5, <1>6, <1>11, NextType, MachineTyped DEF MachineOK

\* So do writes to devices, which may move the pointers and change the memory.
LEMMA OutputType ==
  ASSUME TypeOK, NEW op \in Opcodes, Output(op)
  PROVE  MachineOK'
  <1> DEFINE widths == <<1, Width(op)>>
             x == Popped(On(op), widths)
             port == x[1]
             after == (port + 1) % Byte
             d == Store(dev, port, Width(op), Byte, x[2])
             inLine == [ptr EXCEPT ![On(op)] = After(op, widths)]
             p == DeoPtr(inLine, port, d)
             m == DeoMem(mem, port, d)
  <1>1. 1 \in Widths /\ Width(op) \in Widths /\ On(op) \in Stacks
    BY OpTypes DEF Widths
  <1>2. After(op, widths) \in Bytes
    <2>1. widths \in Seq(Widths)
      BY <1>1, Tuples
    <2>2. QED
      BY <2>1, AfterType
  <1>3. port \in Bytes /\ x[2] \in Shorts
    BY <1>1, TwoPopped
  <1>4. /\ dev' = d
        /\ saved' = IF op.s THEN DeoPtr(p, after, d) ELSE p
        /\ mem' = IF op.s THEN DeoMem(m, after, d) ELSE m
        /\ ptr' = saved'
        /\ pc' = next
        /\ UNCHANGED <<running, data>>
    BY DEF Output
  <1>5. inLine \in [Stacks -> Bytes]
    <2> HIDE DEF widths
    <2> QED
      BY <1>1, <1>2 DEF TypeOK
  <1> HIDE DEF port, x, inLine
  <1>6. d \in [Bytes -> Bytes]
    <2>1. port \in Int /\ x[2] \in Int /\ Byte \in Nat /\ Byte > 0 /\ 0 .. Byte - 1 = Bytes
      BY <1>3, Nats, ByteType DEF Bytes
    <2>2. QED
      BY <1>1, <2>1, StoreType DEF TypeOK
  <1>7. after \in Bytes
    <2>1. port + 1 \in Int
      BY <1>3, Nats
    <2>2. QED
      BY <2>1, ByteType, Quotient DEF Bytes
  <1> HIDE DEF after, d
  <1>8. p \in [Stacks -> Bytes] /\ m \in Memory
    BY <1>3, <1>5, <1>6, DeoType, MachineTyped DEF MachineOK
  <1> HIDE DEF p, m
  <1>9. DeoPtr(p, after, d) \in [Stacks -> Bytes] /\ DeoMem(m, after, d) \in Memory
    BY <1>6, <1>7, <1>8, DeoType
  <1>10. QED
    BY <1>4, <1>6, <1>8, <1>9, NextType, MachineTyped DEF MachineOK

\* The machine is typed at first.
LEMMA InitType == Init => TypeOK
  <1> SUFFICES ASSUME Init PROVE TypeOK
    OBVIOUS
  <1>1. 0 \in Shorts /\ 0 \in Bytes
    BY Numbers
  <1>2. instr \in Opcodes
    BY DEF Init, Brk, Opcodes
  <1>3. fuel \in Nat
    BY MachinesAssumption DEF Init
  <1>4. /\ data \in [Stacks -> [Bytes -> Bytes]] /\ saved \in [Stacks -> Bytes]
        /\ mem \in Memory /\ dev \in [Bytes -> Bytes]
    BY MachinesAssumption DEF Init, Bytes, Memory
  <1>5. ptr \in [Stacks -> Bytes] /\ pc \in Shorts /\ running \in BOOLEAN
    BY <1>1 DEF Init
  <1>6. QED
    BY <1>2, <1>3, <1>4, <1>5, MachineTyped DEF MachineOK

\* A step of a program leaves it so.
LEMMA StepType ==
  ASSUME TypeOK, Step
  PROVE  TypeOK'
  <1>1. PICK op \in Opcodes :
          /\ Fetch(op)
          /\ \/ Shuffle(op) \/ Calculate(op) \/ ShiftBits(op) \/ Jump(op) \/ Stash(op)
             \/ LoadMemory(op) \/ StoreMemory(op) \/ Immediate(op)
             \/ Input(op) \/ Output(op) \/ Break(op)
    BY DEF Step
  <1>2. instr' \in Opcodes /\ fuel' \in Nat
    BY <1>1 DEF Fetch, Burn, TypeOK
  <1>3. Break(op) => MachineOK'
    BY NextType, MachineTyped DEF Break, MachineOK
  <1>4. MachineOK'
    BY <1>1, <1>3, ShuffleType, CalculateType, ShiftBitsType, JumpType, StashType, LoadMemoryType,
       StoreMemoryType, ImmediateType, InputType, OutputType
  <1>5. QED
    BY <1>2, <1>4, MachineTyped

\* A step of the machine, of its hosts or of the debugger leaves it typed.
LEMMA TypeStep == TypeOK /\ [Next]_vars => TypeOK'
  <1> SUFFICES ASSUME TypeOK, [Next]_vars
               PROVE  TypeOK'
    OBVIOUS
  <1>1. CASE Step
    BY <1>1, StepType
  <1>2. ASSUME NEW vector \in Vectors, Start(vector)
        PROVE  TypeOK'
    BY <1>2, VectorsAssumption DEF Start, Burn, TypeOK
  <1>3. ASSUME NEW all \in BOOLEAN, Reset(all)
        PROVE  TypeOK'
    <2>1. /\ saved' \in [Stacks -> Bytes] /\ data' \in [Stacks -> [Bytes -> Bytes]]
          /\ dev' \in [Bytes -> Bytes]
      BY <1>3, Numbers DEF Reset, TypeOK
    <2>2. mem' \in Memory
      BY <1>3, Numbers DEF Reset, TypeOK, Memory
    <2>3. QED
      BY <1>3, <2>1, <2>2 DEF Reset, Burn, TypeOK, Memory
  <1>4. ASSUME NEW port \in 0 .. Byte - 1, NEW v \in Inputs, DevWrite(port, v)
        PROVE  TypeOK'
    <2>1. port \in Bytes /\ v \in Bytes
      BY InputsAssumption DEF Bytes
    <2>2. dev' \in [Bytes -> Bytes]
      BY <1>4, <2>1 DEF DevWrite, TypeOK
    <2>3. saved' \in [Stacks -> Bytes] /\ mem' \in Memory
      BY <1>4, <2>1, <2>2, DeoType, MachineTyped DEF DevWrite, MachineOK
    <2>4. instr' \in Opcodes /\ fuel' \in Nat
      BY <1>4 DEF DevWrite, Burn, TypeOK
    <2>5. MachineOK'
      BY <1>4, <2>2, <2>3, MachineTyped DEF DevWrite, MachineOK
    <2>6. QED
      BY <2>4, <2>5, MachineTyped
  <1>5. CASE UNCHANGED vars
    BY <1>5 DEF vars, TypeOK
  <1>6. QED
    BY <1>1, <1>2, <1>3, <1>4, <1>5 DEF Next

\* Whatever a program does, pointers and bytes stay in their eight bits and pc in
\* its sixteen: no instruction, no device and no debugger takes the machine out
\* of its arrays.
THEOREM StaysInBounds == Spec => []TypeOK
  <1>1. Init => TypeOK
    BY InitType
  <1>2. TypeOK /\ [Next]_vars => TypeOK'
    BY TypeStep
  <1>3. QED
    BY <1>1, <1>2, PTL DEF Spec

-----------------------------------------------------------------------------
(***************************************************************************)
(* System/expansion.                                                       *)
(***************************************************************************)

\* A copy changes nothing but the bytes it is to.
LEMMA CopyChanges ==
  ASSUME NEW m \in Memory, NEW at \in Seq(Int), NEW src \in Int, NEW dst \in Int,
         \A n \in 1 .. Len(at) : src + at[n] \in 0 .. MemSize - 1,
         NEW i \in 0 .. MemSize - 1, \A n \in 1 .. Len(at) : i # dst + at[n]
  PROVE  Copied(m, src, dst, at)[Len(at)][i] = m[i]
  <1> DEFINE N == Len(at)
             F == Copied(m, src, dst, at)
             X == {x \in Memory : x[i] = m[i]}
  <1>1. /\ N \in Nat
        /\ F \in [0 .. N -> Memory] /\ F[0] = m
        /\ \A n \in 1 .. N : F[n] = [F[n - 1] EXCEPT ![dst + at[n]] = F[n - 1][src + at[n]]]
    <2>1. ByteByByte(Copied(m, src, dst, at), m, src, dst, at)
      BY CopiedExact
    <2>2. N \in Nat
      OBVIOUS
    <2>3. QED
      BY <2>1, <2>2, Zenon DEF ByteByByte
  <1> HIDE DEF N, F
  <1>2. F[0] \in X
    BY <1>1
  <1>3. ASSUME NEW n \in 1 .. N, F[n - 1] \in X
        PROVE  F[n] \in X
    <2>1. dst + at[n] # i
      BY DEF N
    <2>2. F[n] \in Memory /\ F[n - 1] \in Memory
      BY <1>1
    <2>3. F[n][i] = F[n - 1][i]
      <3> DEFINE there == dst + at[n]
                 v == F[n - 1][src + at[n]]
      <3>1. F[n] = [F[n - 1] EXCEPT ![there] = v]
        BY <1>1
      <3> HIDE DEF there, v
      <3>2. QED
        BY <2>1, <2>2, <3>1 DEF there, Memory
    <2>4. QED
      BY <1>3, <2>2, <2>3
  <1>4. \A n \in 0 .. N : F[n] \in X
    <2> HIDE DEF X
    <2> QED
      BY <1>1, <1>2, <1>3, AllAlong
  <1>5. N \in 0 .. N
    BY <1>1
  <1>6. QED
    BY <1>4, <1>5 DEF N, F

\* The bytes are in the memory, and none is written twice or before it is read.
Orderly(at, src, dst) ==
  /\ \A n \in 1 .. Len(at) : src + at[n] \in 0 .. MemSize - 1 /\ dst + at[n] \in 0 .. MemSize - 1
  /\ \A n \in 1 .. Len(at) : \A k \in 1 .. n - 1 : src + at[n] # dst + at[k] /\ at[n] # at[k]

\* A copy whose sources are not written before they are read is as if at once.
LEMMA CopyExact ==
  ASSUME NEW m \in Memory, NEW at \in Seq(Int), NEW src \in Int, NEW dst \in Int,
         Orderly(at, src, dst), NEW n \in 1 .. Len(at)
  PROVE  Copied(m, src, dst, at)[Len(at)][dst + at[n]] = m[src + at[n]]
  <1> DEFINE N == Len(at)
             F == Copied(m, src, dst, at)
             Done(j) == \A k \in 1 .. j : F[j][dst + at[k]] = m[src + at[k]]
             Left(j) == \A i \in 0 .. MemSize - 1 :
                          (\A k \in 1 .. j : i # dst + at[k]) => F[j][i] = m[i]
             S == {j \in 0 .. N : Done(j) /\ Left(j)}
  <1>1. /\ N \in Nat
        /\ F \in [0 .. N -> Memory] /\ F[0] = m
        /\ \A j \in 1 .. N : F[j] = [F[j - 1] EXCEPT ![dst + at[j]] = F[j - 1][src + at[j]]]
    <2>1. \A j \in 1 .. Len(at) : src + at[j] \in 0 .. MemSize - 1
      BY DEF Orderly
    <2>2. ByteByByte(Copied(m, src, dst, at), m, src, dst, at)
      BY <2>1, CopiedExact
    <2>3. N \in Nat
      OBVIOUS
    <2>4. QED
      BY <2>2, <2>3, Zenon DEF ByteByByte
  <1>2. /\ \A j \in 1 .. N : at[j] \in Int /\ src + at[j] \in 0 .. MemSize - 1
                             /\ dst + at[j] \in 0 .. MemSize - 1
        /\ \A j \in 1 .. N : \A k \in 1 .. j - 1 : src + at[j] # dst + at[k] /\ at[j] # at[k]
    <2>1. \A j \in 1 .. N : at[j] \in Int
      OBVIOUS
    <2>2. QED
      BY <2>1 DEF Orderly
  <1> HIDE DEF N, F
  <1>3. 0 \in S
    BY <1>1
  <1>4. ASSUME NEW j \in 0 .. N, j \in S, j + 1 <= N
        PROVE  j + 1 \in S
    <2> DEFINE there == dst + at[j + 1]
               from == src + at[j + 1]
    <2>1. j \in Nat /\ j + 1 \in 1 .. N /\ (j + 1) - 1 = j /\ j + 1 \in 0 .. N
      BY <1>1, <1>4
    <2>2. F[j] \in Memory /\ F[j + 1] = [F[j] EXCEPT ![there] = F[j][from]]
      BY <1>1, <2>1
    <2>3. there \in 0 .. MemSize - 1 /\ from \in 0 .. MemSize - 1 /\ at[j + 1] \in Int
      BY <1>2, <2>1
    <2>4. \A k \in 1 .. j : /\ from # dst + at[k] /\ at[j + 1] # at[k] /\ at[k] \in Int
                            /\ dst + at[k] \in 0 .. MemSize - 1
      <3>1. ASSUME NEW k \in 1 .. j
            PROVE  /\ from # dst + at[k] /\ at[j + 1] # at[k] /\ at[k] \in Int
                   /\ dst + at[k] \in 0 .. MemSize - 1
        <4>1. k \in 1 .. N /\ k \in 1 .. (j + 1) - 1
          BY <1>1, <2>1
        <4>2. at[k] \in Int /\ dst + at[k] \in 0 .. MemSize - 1
          BY <1>2, <4>1
        <4>3. src + at[j + 1] # dst + at[k] /\ at[j + 1] # at[k]
          BY <1>2, <2>1, <4>1
        <4>4. QED
          BY <4>2, <4>3
      <3>2. QED
        BY <3>1
    <2>5. \A k \in 1 .. j : there # dst + at[k]
      <3>1. ASSUME NEW k \in 1 .. j
            PROVE  there # dst + at[k]
        <4> DEFINE a == at[j + 1]
                   b == at[k]
        <4>1. a # b /\ a \in Int /\ b \in Int
          BY <2>3, <2>4
        <4>2. dst + a # dst + b
          <5> HIDE DEF a, b
          <5> QED
            BY <4>1
        <4>3. QED
          BY <4>2
      <3>2. QED
        BY <3>1
    <2> HIDE DEF from
    <2>6. F[j][from] = m[from]
      BY <1>4, <2>3, <2>4
    <2>7. F[j + 1][there] = m[from]
      <3> HIDE DEF there
      <3> QED
        BY <2>2, <2>3, <2>6 DEF Memory
    <2>8. \A i \in 0 .. MemSize - 1 : i # there => F[j + 1][i] = F[j][i]
      <3> HIDE DEF there
      <3> QED
        BY <2>2, <2>3 DEF Memory
    <2>9. Done(j + 1)
      <3>1. ASSUME NEW k \in 1 .. j + 1
            PROVE  F[j + 1][dst + at[k]] = m[src + at[k]]
        <4>1. CASE k = j + 1
          BY <2>7, <4>1 DEF from
        <4>2. CASE k # j + 1
          <5>1. k \in 1 .. j
            BY <2>1, <4>2
          <5>2. F[j][dst + at[k]] = m[src + at[k]]
            BY <1>4, <5>1
          <5>3. dst + at[k] \in 0 .. MemSize - 1 /\ dst + at[k] # there
            BY <2>4, <2>5, <5>1
          <5>4. F[j + 1][dst + at[k]] = F[j][dst + at[k]]
            <6> HIDE DEF there
            <6> QED
              BY <2>8, <5>3
          <5>5. QED
            BY <5>2, <5>4
        <4>3. QED
          BY <4>1, <4>2
      <3>2. QED
        BY <3>1
    <2>10. Left(j + 1)
      <3>1. ASSUME NEW i \in 0 .. MemSize - 1, \A k \in 1 .. j + 1 : i # dst + at[k]
            PROVE  F[j + 1][i] = m[i]
        <4>1. i # there /\ \A k \in 1 .. j : i # dst + at[k]
          BY <2>1, <3>1
        <4>2. F[j][i] = m[i]
          BY <1>4, <4>1
        <4>3. QED
          BY <2>8, <4>1, <4>2
      <3>2. QED
        BY <3>1
    <2>11. QED
      BY <2>1, <2>9, <2>10
  <1>5. 0 .. N \subseteq S
    <2> HIDE DEF S
    <2>1. 0 \in Int /\ N \in Int
      BY <1>1
    <2>2. \A j \in 0 .. N : j \in S /\ j + 1 <= N => j + 1 \in S
      BY <1>4
    <2>3. QED
      BY <1>3, <2>1, <2>2, Upwards, Zenon
  <1>6. N \in S
    BY <1>1, <1>5
  <1>7. QED
    BY <1>6 DEF N, F

\* A copy from the left changes the bytes it is to, and to a lower place or one that
\* does not overlap it is as if at once.
LEMMA LeftExact ==
  ASSUME NEW m \in Memory, NEW src \in Nat, NEW dst \in Nat, NEW length \in Nat,
         src + length <= MemSize, dst + length <= MemSize
  PROVE  /\ \A i \in 0 .. MemSize - 1 :
              i \notin dst .. dst + length - 1 => CopyLeft(m, src, dst, length)[i] = m[i]
         /\ src + length <= dst \/ dst + length <= src \/ dst <= src =>
              \A i \in dst .. dst + length - 1 :
                 CopyLeft(m, src, dst, length)[i] = m[src + i - dst]
  <1> DEFINE at == [n \in 1 .. length |-> n - 1]
  <1>1. /\ at \in Seq(Int) /\ Len(at) = length
        /\ \A n \in 1 .. length : at[n] = n - 1
    OBVIOUS
  <1>2. CopyLeft(m, src, dst, length) = Copied(m, src, dst, at)[length]
    BY DEF CopyLeft
  <1> HIDE DEF at
  <1>3. \A n \in 1 .. Len(at) : /\ src + at[n] \in 0 .. MemSize - 1
                               /\ dst + at[n] \in 0 .. MemSize - 1
    BY <1>1, MemType
  <1>4. /\ src \in Int /\ dst \in Int
        /\ \A n \in 1 .. Len(at) : src + at[n] \in 0 .. MemSize - 1
    BY <1>3
  <1>5. ASSUME NEW i \in 0 .. MemSize - 1, i \notin dst .. dst + length - 1
        PROVE  Copied(m, src, dst, at)[length][i] = m[i]
    <2>1. \A n \in 1 .. Len(at) : i # dst + at[n]
      BY <1>1, <1>5
    <2>2. Copied(m, src, dst, at)[Len(at)][i] = m[i]
      BY <1>1, <1>3, <1>4, <2>1, CopyChanges, Zenon
    <2>3. QED
      BY <1>1, <2>2
  <1>6. ASSUME src + length <= dst \/ dst + length <= src \/ dst <= src,
               NEW i \in dst .. dst + length - 1
        PROVE  Copied(m, src, dst, at)[length][i] = m[src + i - dst]
    <2> DEFINE n == i - dst + 1
    <2>1. n \in 1 .. Len(at) /\ dst + at[n] = i /\ src + at[n] = src + i - dst
      BY <1>1
    <2>2. Orderly(at, src, dst)
      <3>1. ASSUME NEW j \in 1 .. length, NEW k \in 1 .. j - 1
            PROVE  src + at[j] # dst + at[k] /\ at[j] # at[k]
        <4>1. k \in 1 .. length /\ k < j /\ at[j] = j - 1 /\ at[k] = k - 1
          BY <1>1
        <4>2. QED
          BY <1>6, <4>1
      <3>2. QED
        BY <1>1, <1>3, <3>1 DEF Orderly
    <2> HIDE DEF n
    <2>3. Copied(m, src, dst, at)[Len(at)][dst + at[n]] = m[src + at[n]]
      BY <1>1, <1>4, <2>1, <2>2, CopyExact
    <2>4. QED
      BY <1>1, <2>1, <2>3
  <1>7. QED
    BY <1>2, <1>5, <1>6

\* A copy from the right likewise, to a higher place.
LEMMA RightExact ==
  ASSUME NEW m \in Memory, NEW src \in Nat, NEW dst \in Nat, NEW length \in Nat,
         src + length <= MemSize, dst + length <= MemSize
  PROVE  /\ \A i \in 0 .. MemSize - 1 :
              i \notin dst .. dst + length - 1 => CopyRight(m, src, dst, length)[i] = m[i]
         /\ src + length <= dst \/ dst + length <= src \/ dst >= src =>
              \A i \in dst .. dst + length - 1 :
                 CopyRight(m, src, dst, length)[i] = m[src + i - dst]
  <1> DEFINE at == [n \in 1 .. length |-> length - n]
  <1>1. /\ at \in Seq(Int) /\ Len(at) = length
        /\ \A n \in 1 .. length : at[n] = length - n
    OBVIOUS
  <1>2. CopyRight(m, src, dst, length) = Copied(m, src, dst, at)[length]
    BY DEF CopyRight
  <1> HIDE DEF at
  <1>3. \A n \in 1 .. Len(at) : /\ src + at[n] \in 0 .. MemSize - 1
                               /\ dst + at[n] \in 0 .. MemSize - 1
    BY <1>1, MemType
  <1>4. /\ src \in Int /\ dst \in Int
        /\ \A n \in 1 .. Len(at) : src + at[n] \in 0 .. MemSize - 1
    BY <1>3
  <1>5. ASSUME NEW i \in 0 .. MemSize - 1, i \notin dst .. dst + length - 1
        PROVE  Copied(m, src, dst, at)[length][i] = m[i]
    <2>1. \A n \in 1 .. Len(at) : i # dst + at[n]
      BY <1>1, <1>5
    <2>2. Copied(m, src, dst, at)[Len(at)][i] = m[i]
      BY <1>1, <1>3, <1>4, <2>1, CopyChanges, Zenon
    <2>3. QED
      BY <1>1, <2>2
  <1>6. ASSUME src + length <= dst \/ dst + length <= src \/ dst >= src,
               NEW i \in dst .. dst + length - 1
        PROVE  Copied(m, src, dst, at)[length][i] = m[src + i - dst]
    <2> DEFINE n == length - (i - dst)
    <2>1. n \in 1 .. Len(at) /\ dst + at[n] = i /\ src + at[n] = src + i - dst
      BY <1>1
    <2>2. Orderly(at, src, dst)
      <3>1. ASSUME NEW j \in 1 .. length, NEW k \in 1 .. j - 1
            PROVE  src + at[j] # dst + at[k] /\ at[j] # at[k]
        <4>1. k \in 1 .. length /\ k < j /\ at[j] = length - j /\ at[k] = length - k
          BY <1>1
        <4>2. QED
          BY <1>6, <4>1
      <3>2. QED
        BY <1>1, <1>3, <3>1 DEF Orderly
    <2> HIDE DEF n
    <2>3. Copied(m, src, dst, at)[Len(at)][dst + at[n]] = m[src + at[n]]
      BY <1>1, <1>4, <2>1, <2>2, CopyExact
    <2>4. QED
      BY <1>1, <2>1, <2>3
  <1>7. QED
    BY <1>2, <1>5, <1>6

\* What fits is what the length says, unless the memory ends before it: there is
\* one number for which that is so.
LEMMA FitsChosen ==
  ASSUME NEW length \in Shorts, NEW src \in 0 .. MemSize - 1, NEW dst \in 0 .. MemSize - 1
  PROVE  Fitting(Farther(src, dst), length) =
           CHOOSE k \in 0 .. length :
             /\ src + k <= MemSize /\ dst + k <= MemSize
             /\ k = length \/ src + k = MemSize \/ dst + k = MemSize
  <1> DEFINE fits == Fitting(Farther(src, dst), length)
             Chosen(k) == /\ src + k <= MemSize /\ dst + k <= MemSize
                          /\ k = length \/ src + k = MemSize \/ dst + k = MemSize
  <1>1. Farther(src, dst) \in 0 .. MemSize - 1
    BY DEF Farther
  <1>2. /\ fits \in 0 .. length /\ Farther(src, dst) + fits <= MemSize
        /\ fits = length \/ Farther(src, dst) + fits = MemSize
    BY <1>1, Fits
  <1>3. length \in Nat /\ MemSize \in Nat
    BY Nats, MemType
  <1> HIDE DEF fits
  <1>4. fits \in 0 .. length /\ Chosen(fits)
    BY <1>2, <1>3 DEF Farther
  <1>5. ASSUME NEW k \in 0 .. length, Chosen(k)
        PROVE  k = fits
    BY <1>2, <1>3, <1>5 DEF Farther
  <1> DEFINE n == CHOOSE k \in 0 .. length : Chosen(k)
  <1>6. n \in 0 .. length /\ Chosen(n)
    <2> HIDE DEF Chosen
    <2> QED
      BY <1>4
  <1>7. n = fits
    <2> HIDE DEF n
    <2> QED
      BY <1>5, <1>6
  <1>8. QED
    BY <1>7 DEF fits

\* An operation of the system device, in any memory and at any address, changes
\* what it is about and nothing else.
LEMMA ExpansionIsExact == TypeOK => ExpansionExact
  <1> SUFFICES ASSUME TypeOK PROVE ExpansionExact
    OBVIOUS
  <1> DEFINE addr == Load(dev, ExpansionPort - 1, 2, Byte)
             op == mem[addr]
             length == Short2(mem, addr + 1)
             raw(at) == Short2(mem, addr + at) * Short + Short2(mem, addr + at + 2)
             src == raw(3)
             dst == raw(7)
             n == CHOOSE k \in 0 .. length :
                    /\ src + k <= MemSize /\ dst + k <= MemSize
                    /\ k = length \/ src + k = MemSize \/ dst + k = MemSize
             after == Expanded(mem, addr)
             changed == {i \in DOMAIN mem : after[i] # mem[i]}
             apart == src + n <= dst \/ dst + n <= src
             first == Place(mem, addr + 3)
             second == Place(mem, addr + 7)
             fits == Fitting(Farther(first, second), length)
             v == mem[addr + 7]
  <1>1. mem \in Memory /\ DOMAIN mem = 0 .. MemSize - 1
    BY MachineTyped DEF MachineOK, Memory
  <1>2. addr \in Shorts
    <2>1. ExpansionPort - 1 \in Int /\ 2 \in Widths /\ dev \in [0 .. Byte - 1 -> Bytes]
      BY PortsAssumption, ByteType, Numbers DEF Widths, TypeOK
    <2>2. QED
      BY <2>1, ByteType, LoadType
  <1> HIDE DEF addr
  <1>3. /\ addr \in Nat /\ addr + 1 \in Int /\ addr + 3 \in Int /\ addr + 7 \in Int
        /\ addr + 3 + 2 \in Int /\ addr + 7 + 2 \in Int
    BY <1>2, Nats
  <1>4. length \in Shorts /\ first \in 0 .. MemSize - 1 /\ second \in 0 .. MemSize - 1
    BY <1>1, <1>3, PlaceType
  <1>5. src \in Nat /\ dst \in Nat
    <2>1. ASSUME NEW at \in {3, 7}
          PROVE  raw(at) \in Nat
      <3> DEFINE h == Short2(mem, addr + at)
                 l == Short2(mem, addr + at + 2)
      <3>1. addr + at \in Int /\ addr + at + 2 \in Int
        BY <1>3
      <3>2. h \in Shorts /\ l \in Shorts
        BY <1>1, <3>1, PlaceType
      <3> HIDE DEF h, l
      <3>3. h \in Nat /\ l \in Nat /\ Short \in Nat
        BY <3>2, Nats, ShortType
      <3>4. h * Short + l \in Nat
        BY <3>3
      <3>5. QED
        BY <3>4 DEF h, l
    <2>2. QED
      BY <2>1
  <1>6. /\ first = IF src < MemSize THEN src ELSE MemSize - 1
        /\ second = IF dst < MemSize THEN dst ELSE MemSize - 1
    BY DEF Place
  <1>7. after = CASE op = 0 -> Fill(mem, first, Fitting(first, length), v)
                  [] op = 1 -> CopyLeft(mem, first, second, fits)
                  [] op = 2 -> CopyRight(mem, first, second, fits)
                  [] OTHER -> mem
    BY DEF Expanded
  <1>8. /\ MemSize \in Nat /\ length \in Nat /\ first \in Nat /\ second \in Nat
        /\ \A i \in Bytes : i \in Nat
    BY <1>4, Nats, MemType
  <1>9. src < MemSize /\ dst < MemSize => n = fits
    <2> HIDE DEF length, src, dst, first, second
    <2>1. src < MemSize /\ dst < MemSize => src \in 0 .. MemSize - 1 /\ dst \in 0 .. MemSize - 1
      BY <1>5, <1>8
    <2>2. QED
      BY <1>4, <1>6, <2>1, FitsChosen
  <1>10. /\ fits \in Nat /\ Farther(first, second) + fits <= MemSize
         /\ first + fits <= MemSize /\ second + fits <= MemSize
    <2> HIDE DEF length, first, second
    <2>1. Farther(first, second) \in 0 .. MemSize - 1
      BY <1>4 DEF Farther
    <2>2. fits \in 0 .. length /\ Farther(first, second) + fits <= MemSize
      BY <1>4, <2>1, Fits
    <2> HIDE DEF fits
    <2>3. QED
      BY <1>8, <2>2 DEF Farther
  <1>11. op = 0 => \A i \in DOMAIN mem :
           after[i] = IF i \in first .. first + Fitting(first, length) - 1 THEN v ELSE mem[i]
    BY <1>7 DEF Fill
  <1>12. op \in {1, 2} => \A i \in DOMAIN mem : i \notin second .. second + fits - 1 => after[i] = mem[i]
    <2> HIDE DEF op, first, second, fits
    <2> QED
      BY <1>1, <1>7, <1>8, <1>10, LeftExact, RightExact
  <1>13. /\ op \in {1, 2}
         /\ first + fits <= second \/ second + fits <= first \/ (op = 1 /\ second <= first)
            \/ (op = 2 /\ second >= first)
         => \A i \in second .. second + fits - 1 : after[i] = mem[first + i - second]
    <2> HIDE DEF op, first, second, fits
    <2> QED
      BY <1>1, <1>7, <1>8, <1>10, LeftExact, RightExact, SMTT(20)
  <1>14. op \notin {0, 1, 2} => after = mem
    BY <1>7
  <1>15. /\ first = MemSize - 1 => Fitting(first, length) \in 0 .. 1
         /\ Farther(first, second) = MemSize - 1 => fits \in 0 .. 1
    <2> HIDE DEF length, first, second
    <2> QED
      BY <1>8 DEF Fitting
  <1> HIDE DEF op, length, src, dst, n, after, first, second, fits, v
  <1>16. CASE op = 0 /\ src < MemSize
    <2>1. first = src /\ Fitting(first, length) \in Nat
             /\ (Fitting(first, length) = length \/ src + Fitting(first, length) = MemSize)
             /\ Fitting(first, length) <= length
      BY <1>4, <1>6, <1>8, <1>16, Fits
    <2> DEFINE fit == Fitting(first, length)
    <2>2. \A i \in DOMAIN mem : i >= src /\ i < src + length => after[i] = v
      <3> HIDE DEF fit
      <3>1. ASSUME NEW i \in DOMAIN mem, i >= src, i < src + length
            PROVE  after[i] = v
        <4>1. i \in first .. first + fit - 1
          BY <1>1, <1>5, <1>8, <2>1, <3>1 DEF fit
        <4>2. QED
          BY <1>11, <1>16, <4>1 DEF fit
      <3>2. QED
        BY <3>1
    <2>3. \A i \in changed : i >= src /\ i < src + length
      <3>1. ASSUME NEW i \in changed
            PROVE  i >= src /\ i < src + length
        <4>1. i \in DOMAIN mem /\ after[i] # mem[i]
          OBVIOUS
        <4>2. i \in first .. first + fit - 1
          BY <1>11, <1>16, <4>1
        <4>3. QED
          BY <1>1, <1>5, <1>8, <2>1, <4>1, <4>2
      <3>2. QED
        BY <3>1
    <2>4. QED
      BY <1>16, <2>2, <2>3 DEF ExpansionExact, addr, op, length, src, dst, n, after, v
  <1>17. CASE op \in {1, 2} /\ src < MemSize /\ dst < MemSize
    <2>1. first = src /\ second = dst /\ n = fits
      BY <1>6, <1>9, <1>17
    <2>2. apart \/ (op = 1 /\ dst <= src) \/ (op = 2 /\ dst >= src) =>
            \A i \in dst .. dst + n - 1 : after[i] = mem[src + i - dst]
      BY <1>13, <1>17, <2>1
    <2>3. changed \subseteq dst .. dst + n - 1
      BY <1>12, <1>17, <2>1
    <2> HIDE DEF changed, apart
    <2>4. op # 0
      BY <1>17
    <2>5. QED
      BY <1>17, <2>2, <2>3, <2>4
      DEF ExpansionExact, addr, op, length, src, dst, n, after, changed, apart
  <1>18. CASE ~(op = 0 /\ src < MemSize) /\ ~(op \in {1, 2} /\ src < MemSize /\ dst < MemSize)
    <2>1. \A i, j \in changed : i = j
      <3>1. CASE op = 0
        <4>1. first = MemSize - 1 /\ Fitting(first, length) \in 0 .. 1
          BY <1>6, <1>15, <1>18, <3>1
        <4>2. \A i \in changed : i = MemSize - 1
          BY <1>1, <1>8, <1>11, <3>1, <4>1
        <4>3. QED
          BY <4>2
      <3>2. CASE op \in {1, 2}
        <4>1. Farther(first, second) = MemSize - 1
          BY <1>4, <1>6, <1>8, <1>18, <3>2 DEF Farther
        <4>2. fits \in 0 .. 1
          BY <1>15, <4>1
        <4>3. \A i \in changed : i = second
          BY <1>1, <1>8, <1>12, <3>2, <4>2
        <4>4. QED
          BY <4>3
      <3>3. CASE op \notin {0, 1, 2}
        BY <1>14, <3>3
      <3>4. QED
        BY <3>1, <3>2, <3>3
    <2> HIDE DEF changed
    <2>2. QED
      BY <1>18, <2>1 DEF ExpansionExact, addr, op, length, src, dst, n, after, changed
  <1>19. QED
    BY <1>16, <1>17, <1>18

\* An operation of System/expansion changes what it is about and nothing else,
\* whatever the memory is and whatever the program writes into it: nothing
\* outside of the range it names, and nothing after the end of the memory.
THEOREM ExpandsExactly == Spec => []ExpansionExact
  <1>1. TypeOK => ExpansionExact
    BY ExpansionIsExact
  <1>2. QED
    BY <1>1, StaysInBounds, PTL

-----------------------------------------------------------------------------
(***************************************************************************)
(* The refinement of UxnReference.  A stack of the machine is a ring with  *)
(* a pointer, a stack of the reference the bytes from the top down: what   *)
(* is pushed or popped turns the ring.                                     *)
(***************************************************************************)

(***************************************************************************)
(* Rings.                                                                  *)
(***************************************************************************)

\* A remainder may be taken before it is taken away.
LEMMA RemainderTakenAway ==
  ASSUME NEW b \in Nat, b > 0, NEW a \in Int, NEW c \in Int
  PROVE  (c - (a % b)) % b = (c - a) % b
  <1> DEFINE q == a \div b
             r == a % b
             s == c - a
  <1>1. q \in Int /\ r \in Int /\ a = b * q + r /\ s \in Int
    BY Quotient
  <1> HIDE DEF q, r
  <1>2. c - r = s + b * q
    BY <1>1
  <1>3. (s + b * q) % b = s % b
    <2> HIDE DEF s
    <2> QED
      BY <1>1, Turns
  <1>4. QED
    BY <1>2, <1>3 DEF r

\* Places on a ring that are less than a turn apart are different.
LEMMA Apart ==
  ASSUME NEW b \in Nat, b > 0, NEW x \in Int, NEW d \in 1 .. b - 1
  PROVE  (x - d) % b # x % b
  <1> DEFINE y == x - d
             q == x \div b
             r == y \div b
             t == y % b
  <1> SUFFICES ASSUME y % b = x % b
               PROVE  FALSE
    OBVIOUS
  <1>1. y \in Int /\ d \in Int
    OBVIOUS
  <1>2. x = b * q + (x % b) /\ q \in Int /\ x % b \in Int
    BY Quotient
  <1>3. y = b * r + t /\ r \in Int
    <2> HIDE DEF y
    <2> QED
      BY <1>1, Quotient
  <1>4. x - y = d /\ t = x % b
    OBVIOUS
  <1> HIDE DEF y, q, r, t
  <1> DEFINE k == q - r
  <1>5. k \in Int /\ d = b * k
    BY <1>1, <1>2, <1>3, <1>4
  <1> HIDE DEF k
  <1>6. QED
    BY <1>5

\* A stack from the byte under a pointer down, all the way around.
RingOf(bytes, p) == [i \in 1 .. Byte |-> bytes[(p - i) % Byte]]

\* Only the place of the pointer on the ring matters.
LEMMA RingSame ==
  ASSUME NEW bytes, NEW x \in Int, NEW y \in Int, x % Byte = y % Byte
  PROVE  RingOf(bytes, x) = RingOf(bytes, y)
  <1>1. ASSUME NEW i \in 1 .. Byte
        PROVE  (x - i) % Byte = (y - i) % Byte
    <2>1. -i \in Int /\ Byte \in Nat /\ Byte > 0
      BY ByteType
    <2>2. (x + (-i)) % Byte = (y + (-i)) % Byte
      BY <2>1, SameRemainder
    <2>3. x + (-i) = x - i /\ y + (-i) = y - i
      BY <2>1
    <2>4. QED
      BY <2>2, <2>3
  <1>2. QED
    BY <1>1 DEF RingOf

\* To turn the list of a stack is to move its pointer.
LEMMA RingTurned ==
  ASSUME NEW bytes, NEW p \in Int, NEW n \in Int
  PROVE  Reference!Turn(RingOf(bytes, p), n) = RingOf(bytes, p + n)
  <1>1. Reference!Byte = Byte
    BY DEF Byte, Reference!Byte
  <1>2. ASSUME NEW i \in 1 .. Byte
        PROVE  RingOf(bytes, p)[((i - 1 - n) % Byte) + 1] = bytes[(p + n - i) % Byte]
    <2> DEFINE a == i - 1 - n
               c == p - 1
               j == (a % Byte) + 1
    <2>1. a \in Int /\ c \in Int /\ Byte \in Nat /\ Byte > 0
      BY ByteType
    <2>2. c - a = p + n - i
      BY <2>1
    <2> HIDE DEF a, c
    <2>3. a % Byte \in 0 .. Byte - 1
      BY <2>1, Quotient
    <2>4. j \in 1 .. Byte /\ p - j = c - (a % Byte)
      BY <2>1, <2>3 DEF c
    <2>5. (c - (a % Byte)) % Byte = (c - a) % Byte
      BY <2>1, RemainderTakenAway
    <2>6. RingOf(bytes, p)[j] = bytes[(p - j) % Byte]
      <3> HIDE DEF j
      <3> QED
        BY <2>4 DEF RingOf
    <2>7. QED
      BY <2>2, <2>4, <2>5, <2>6 DEF a
  <1>3. QED
    BY <1>1, <1>2 DEF Reference!Turn, RingOf

\* A byte pushed comes before all others but the one it replaces.
LEMMA RingPushed ==
  ASSUME NEW bytes \in [Bytes -> Bytes], NEW p \in Int, NEW v \in Bytes
  PROVE  RingOf([bytes EXCEPT ![p % Byte] = v], p + 1) = Reference!Put(RingOf(bytes, p), <<v>>)
  <1> DEFINE new == [bytes EXCEPT ![p % Byte] = v]
  <1>1. Reference!Byte = Byte /\ Byte \in Nat /\ Byte > 0
    BY ByteType DEF Byte, Reference!Byte
  <1>2. p % Byte \in Bytes
    BY <1>1, Quotient DEF Bytes
  <1>3. new[p % Byte] = v /\ \A k \in Bytes : k # p % Byte => new[k] = bytes[k]
    BY <1>2
  <1> HIDE DEF new
  <1>4. ASSUME NEW i \in 1 .. Byte
        PROVE  new[(p + 1 - i) % Byte] = IF i <= 1 THEN v ELSE RingOf(bytes, p)[i - 1]
    <2>1. CASE i = 1
      <3>1. p + 1 - i = p
        BY <2>1
      <3>2. QED
        BY <1>3, <2>1, <3>1
    <2>2. CASE i # 1
      <3> DEFINE d == i - 1
      <3>1. d \in 1 .. Byte - 1 /\ p + 1 - i = p - d /\ ~(i <= 1) /\ d \in 1 .. Byte /\ p - d \in Int
        BY <1>1, <2>2
      <3> HIDE DEF d
      <3>2. (p - d) % Byte # p % Byte /\ (p - d) % Byte \in Bytes
        BY <1>1, <3>1, Apart, Quotient DEF Bytes
      <3>3. RingOf(bytes, p)[d] = bytes[(p - d) % Byte]
        BY <3>1 DEF RingOf
      <3>4. QED
        BY <1>3, <3>1, <3>2, <3>3 DEF d
    <2>3. QED
      BY <2>1, <2>2
  <1>5. Reference!Put(RingOf(bytes, p), <<v>>) =
          [i \in 1 .. Byte |-> IF i <= 1 THEN <<v>>[1 + 1 - i] ELSE RingOf(bytes, p)[i - 1]]
    BY <1>1 DEF Reference!Put
  <1>6. \A i \in 1 .. Byte : i <= 1 => <<v>>[1 + 1 - i] = v
    OBVIOUS
  <1>7. RingOf(new, p + 1) = [i \in 1 .. Byte |-> new[(p + 1 - i) % Byte]]
    BY DEF RingOf
  <1>8. RingOf(new, p + 1) = Reference!Put(RingOf(bytes, p), <<v>>)
    BY <1>4, <1>5, <1>6, <1>7
  <1>9. QED
    BY <1>8 DEF new

\* What is put first lies under what is put next.
LEMMA PutTwice ==
  ASSUME NEW l, NEW a \in Seq(Bytes), NEW b \in Seq(Bytes)
  PROVE  Reference!Put(Reference!Put(l, a), b) = Reference!Put(l, a \o b)
  <1>1. Reference!Byte = Byte /\ Byte \in Nat
    BY ByteType DEF Byte, Reference!Byte
  <1>2. Len(a) \in Nat /\ Len(b) \in Nat /\ Len(a \o b) = Len(a) + Len(b)
    OBVIOUS
  <1>3. ASSUME NEW i \in 1 .. Byte
        PROVE  (IF i <= Len(b) THEN b[Len(b) + 1 - i]
                ELSE IF i - Len(b) <= Len(a) THEN a[Len(a) + 1 - (i - Len(b))]
                     ELSE l[i - Len(b) - Len(a)])
               = (IF i <= Len(a \o b) THEN (a \o b)[Len(a \o b) + 1 - i] ELSE l[i - Len(a \o b)])
    <2>1. CASE i <= Len(b)
      <3>1. (a \o b)[Len(a) + Len(b) + 1 - i] = b[Len(b) + 1 - i]
        BY <1>2, <2>1
      <3>2. QED
        BY <1>2, <2>1, <3>1
    <2>2. CASE ~(i <= Len(b)) /\ i - Len(b) <= Len(a)
      <3>1. (a \o b)[Len(a) + Len(b) + 1 - i] = a[Len(a) + Len(b) + 1 - i]
        BY <1>2, <2>2
      <3>2. Len(a) + 1 - (i - Len(b)) = Len(a) + Len(b) + 1 - i
        BY <1>2
      <3>3. QED
        BY <1>2, <2>2, <3>1, <3>2
    <2>3. CASE ~(i <= Len(b)) /\ ~(i - Len(b) <= Len(a))
      <3>1. i - Len(b) - Len(a) = i - Len(a \o b) /\ ~(i <= Len(a \o b))
        BY <1>2, <2>3
      <3>2. QED
        BY <2>3, <3>1
    <2>4. QED
      BY <2>1, <2>2, <2>3
  <1>4. QED
    <2>1. ASSUME NEW i \in 1 .. Byte, ~(i <= Len(b))
          PROVE  i - Len(b) \in 1 .. Byte
      BY <1>1, <1>2, <2>1
    <2>2. QED
      BY <1>1, <1>3, <2>1 DEF Reference!Put

\* The bytes of a value, the high one of a short first.
Digit(width, v) == IF width = 1 THEN <<Lo(v)>> ELSE <<Hi(v), Lo(v)>>

\* The bytes of some values are those of each in turn.
LEMMA ByteSeqType ==
  ASSUME NEW width \in Widths, NEW values \in Seq(Int)
  PROVE  /\ Reference!ByteSeq(width, values) \in Seq(Bytes)
         /\ Len(Reference!ByteSeq(width, values)) = width * Len(values)
         /\ \A n \in 1 .. Len(values) :
              /\ width = 1 => Reference!ByteSeq(width, values)[n] = Lo(values[n])
              /\ width = 2 => /\ Reference!ByteSeq(width, values)[2 * n - 1] = Hi(values[n])
                              /\ Reference!ByteSeq(width, values)[2 * n] = Lo(values[n])
  <1>1. /\ Reference!Byte = Byte
        /\ \A v : Reference!Lo(v) = Lo(v) /\ Reference!Hi(v) = Hi(v)
    BY DEF Byte, Reference!Byte, Lo, Hi, Reference!Lo, Reference!Hi
  <1> DEFINE N == width * Len(values)
             at(i) == IF width = 1 THEN Lo(values[i])
                      ELSE IF i % 2 = 1 THEN Hi(values[(i + 1) \div 2]) ELSE Lo(values[i \div 2])
             bytes == [i \in 1 .. N |-> at(i)]
  <1>2. Reference!ByteSeq(width, values) = bytes
    BY <1>1 DEF Reference!ByteSeq
  <1>3. N \in Nat /\ Len(values) \in Nat
    BY DEF Widths
  <1>4. ASSUME NEW i \in 1 .. N
        PROVE  at(i) \in Bytes
    <2>1. CASE width = 1
      <3>1. i \in 1 .. Len(values)
        BY <2>1
      <3>2. values[i] \in Int
        BY <3>1
      <3>3. QED
        BY <2>1, <3>2, DigitsType
    <2>2. CASE width = 2
      <3>1. i \in 1 .. 2 * Len(values)
        BY <2>2
      <3>2. CASE i % 2 = 1
        <4>1. (i + 1) \div 2 \in 1 .. Len(values)
          BY <1>3, <3>1, <3>2
        <4>2. values[(i + 1) \div 2] \in Int
          BY <4>1
        <4>3. QED
          BY <2>2, <3>2, <4>2, DigitsType
      <3>3. CASE i % 2 # 1
        <4>1. i \div 2 \in 1 .. Len(values)
          BY <1>3, <3>1, <3>3
        <4>2. values[i \div 2] \in Int
          BY <4>1
        <4>3. QED
          BY <2>2, <3>3, <4>2, DigitsType
      <3>4. QED
        BY <3>2, <3>3
    <2>3. QED
      BY <2>1, <2>2 DEF Widths
  <1>5. bytes \in Seq(Bytes) /\ Len(bytes) = N
    <2> HIDE DEF at, N
    <2> QED
      BY <1>3, <1>4
  <1>6. ASSUME NEW n \in 1 .. Len(values)
        PROVE  /\ width = 1 => bytes[n] = Lo(values[n])
               /\ width = 2 => bytes[2 * n - 1] = Hi(values[n]) /\ bytes[2 * n] = Lo(values[n])
    <2>1. CASE width = 1
      <3>1. n \in 1 .. N
        BY <2>1
      <3>2. bytes[n] = at(n)
        <4> HIDE DEF at, N
        <4> QED
          BY <3>1
      <3>3. QED
        BY <2>1, <3>2
    <2>2. CASE width = 2
      <3>1. 2 * n - 1 \in 1 .. N /\ 2 * n \in 1 .. N
        BY <1>3, <2>2
      <3>2. bytes[2 * n - 1] = at(2 * n - 1) /\ bytes[2 * n] = at(2 * n)
        <4> HIDE DEF at, N
        <4> QED
          BY <3>1
      <3>3. (2 * n - 1) % 2 = 1 /\ ((2 * n - 1) + 1) \div 2 = n
        BY <1>3
      <3>4. (2 * n) % 2 = 0 /\ (2 * n) \div 2 = n
        BY <1>3
      <3>5. at(2 * n - 1) = Hi(values[((2 * n - 1) + 1) \div 2])
        BY <2>2, <3>3
      <3>6. at(2 * n) = Lo(values[(2 * n) \div 2])
        BY <2>2, <3>4
      <3>7. QED
        BY <2>2, <3>2, <3>3, <3>4, <3>5, <3>6
    <2>3. QED
      BY <2>1, <2>2
  <1> HIDE DEF bytes, N
  <1>7. QED
    BY <1>2, <1>5, <1>6 DEF N

\* Two bytes after some others.
LEMMA TwoMore ==
  ASSUME NEW S, NEW s \in Seq(S), NEW a \in S, NEW b \in S
  PROVE  /\ s \o <<a, b>> = [i \in 1 .. Len(s) + 2 |->
                              IF i <= Len(s) THEN s[i] ELSE IF i = Len(s) + 1 THEN a ELSE b]
         /\ <<a>> \o <<b>> = <<a, b>>
  <1> DEFINE t == s \o <<a, b>>
             u == [i \in 1 .. Len(s) + 2 |->
                     IF i <= Len(s) THEN s[i] ELSE IF i = Len(s) + 1 THEN a ELSE b]
             w == <<a>> \o <<b>>
  <1>1. t \in Seq(S) /\ Len(t) = Len(s) + 2
    BY <<a, b>> \in Seq(S), Len(<<a, b>>) = 2, ConcatProperties
  <1>2. u \in Seq(S) /\ Len(u) = Len(s) + 2
    OBVIOUS
  <1>3. \A i \in 1 .. Len(t) : t[i] = u[i]
    BY <1>1
  <1>4. t = u
    <2> HIDE DEF t, u
    <2> QED
      BY <1>1, <1>2, <1>3, SeqEqual
  <1>5. w \in Seq(S) /\ Len(w) = 2 /\ w[1] = a /\ w[2] = b
    BY <<a>> \in Seq(S), <<b>> \in Seq(S), Len(<<a>>) = 1, Len(<<b>>) = 1, ConcatProperties
  <1>6. w = <<a, b>>
    <2>1. <<a, b>> \in Seq(S) /\ Len(<<a, b>>) = 2
      OBVIOUS
    <2>2. \A i \in 1 .. Len(w) : w[i] = <<a, b>>[i]
      <3> HIDE DEF w
      <3> QED
        BY <1>5
    <2> HIDE DEF w
    <2>3. QED
      BY <1>5, <2>1, <2>2, SeqEqual
  <1>7. QED
    BY <1>4, <1>6

\* Pushing a value puts its bytes before the others.
LEMMA RingStored ==
  ASSUME NEW bytes \in [Bytes -> Bytes], NEW p \in Int, NEW width \in Widths, NEW v \in Int
  PROVE  RingOf(Store(bytes, p, width, Byte, v), p + width)
           = Reference!Put(RingOf(bytes, p), Digit(width, v))
  <1> DEFINE h == Hi(v)
             l == Lo(v)
  <1>1. h \in Bytes /\ l \in Bytes
    BY DigitsType
  <1>2. CASE width = 1
    <2>1. Store(bytes, p, width, Byte, v) = [bytes EXCEPT ![p % Byte] = l] /\ Digit(width, v) = <<l>>
      BY <1>2 DEF Store, Digit
    <2> HIDE DEF l
    <2>2. QED
      BY <1>1, <1>2, <2>1, RingPushed
  <1>3. CASE width = 2
    <2> DEFINE one == [bytes EXCEPT ![p % Byte] = h]
               q == p + 1
    <2>1. q \in Int /\ q + 1 = p + 2 /\ p % Byte \in Bytes
      BY ByteType, Quotient DEF Bytes
    <2>2. one \in [Bytes -> Bytes]
      BY <1>1
    <2>3. Store(bytes, p, width, Byte, v) = [one EXCEPT ![q % Byte] = l]
          /\ Digit(width, v) = <<h, l>>
      BY <1>3 DEF Store, Digit
    <2> HIDE DEF h, l
    <2>4. RingOf(one, q) = Reference!Put(RingOf(bytes, p), <<h>>)
      BY <1>1, RingPushed
    <2> HIDE DEF one
    <2>5. RingOf([one EXCEPT ![q % Byte] = l], q + 1) = Reference!Put(RingOf(one, q), <<l>>)
      <3> HIDE DEF q
      <3> QED
        BY <1>1, <2>1, <2>2, RingPushed
    <2>6. <<h>> \in Seq(Bytes) /\ <<l>> \in Seq(Bytes) /\ <<h>> \o <<l>> = <<h, l>>
      <3>1. <<h>> \in Seq(Bytes) /\ <<l>> \in Seq(Bytes) /\ <<>> \in Seq(Bytes)
        BY <1>1
      <3>2. QED
        BY <1>1, <3>1, TwoMore
    <2>7. Reference!Put(Reference!Put(RingOf(bytes, p), <<h>>), <<l>>)
            = Reference!Put(RingOf(bytes, p), <<h, l>>)
      <3> DEFINE a == <<h>>
                 b == <<l>>
      <3>1. a \in Seq(Bytes) /\ b \in Seq(Bytes) /\ a \o b = <<h, l>>
        BY <2>6
      <3> HIDE DEF a, b
      <3>2. Reference!Put(Reference!Put(RingOf(bytes, p), a), b)
              = Reference!Put(RingOf(bytes, p), a \o b)
        BY <3>1, PutTwice
      <3>3. QED
        BY <3>1, <3>2 DEF a, b
    <2>8. QED
      BY <1>3, <2>1, <2>3, <2>4, <2>5, <2>7
  <1>4. QED
    BY <1>2, <1>3 DEF Widths

\* Nothing put changes nothing.
LEMMA PutNothing ==
  ASSUME NEW bytes, NEW p \in Int
  PROVE  Reference!Put(RingOf(bytes, p), <<>>) = RingOf(bytes, p)
  <1>1. Reference!Byte = Byte /\ Byte \in Nat
    BY ByteType DEF Byte, Reference!Byte
  <1>2. \A i \in 1 .. Byte : ~(i <= 0) /\ i - 0 = i
    BY <1>1
  <1>3. Len(<<>>) = 0
    OBVIOUS
  <1>4. Reference!Put(RingOf(bytes, p), <<>>) = [i \in 1 .. Byte |-> RingOf(bytes, p)[i]]
    BY <1>1, <1>2, <1>3 DEF Reference!Put
  <1>5. QED
    BY <1>4 DEF RingOf

\* Pushing values one on top of the other puts their bytes before the others.
LEMMA RingOfPushed ==
  ASSUME NEW bytes \in [Bytes -> Bytes], NEW p \in Int, NEW width \in Widths, NEW values \in Seq(Int)
  PROVE  RingOf(Pushed(bytes, p, width, values), p + Len(values) * width)
           = Reference!Put(RingOf(bytes, p), Reference!ByteSeq(width, values))
  <1> DEFINE N == Len(values)
             F == PushedFirst(bytes, p, width, values)
             all == Reference!ByteSeq(width, values)
             First(n) == [i \in 1 .. width * n |-> all[i]]
             S == {n \in 0 .. N : RingOf(F[n], p + n * width)
                                    = Reference!Put(RingOf(bytes, p), First(n))}
  <1>1. /\ N \in Nat
        /\ F \in [0 .. N -> [Bytes -> Bytes]]
        /\ F[0] = bytes
        /\ \A n \in 1 .. N : F[n] = Store(F[n - 1], p + (n - 1) * width, width, Byte, values[n])
    <2>1. N \in Nat
      OBVIOUS
    <2>2. QED
      BY <2>1, PushedExact, ZenonT(30)
  <1>2. /\ all \in Seq(Bytes) /\ Len(all) = width * N
        /\ \A n \in 1 .. N : /\ width = 1 => all[n] = Lo(values[n])
                             /\ width = 2 => all[2 * n - 1] = Hi(values[n]) /\ all[2 * n] = Lo(values[n])
    BY ByteSeqType
  <1>3. \A n \in 1 .. N : values[n] \in Int
    OBVIOUS
  <1>4. width \in {1, 2}
    BY DEF Widths
  <1> HIDE DEF N, F, all
  <1>5. 0 \in S
    <2>1. First(0) = <<>>
      BY <1>4
    <2>2. p + 0 * width = p
      BY <1>4
    <2> HIDE DEF First
    <2>3. RingOf(F[0], p + 0 * width) = Reference!Put(RingOf(bytes, p), First(0))
      BY <1>1, <2>1, <2>2, PutNothing
    <2>4. QED
      BY <1>1, <2>3
  <1>6. ASSUME NEW n \in 0 .. N, n \in S, n + 1 <= N
        PROVE  n + 1 \in S
    <2> DEFINE v == values[n + 1]
               at == p + n * width
    <2>1. n \in Nat /\ n + 1 \in 1 .. N /\ (n + 1) - 1 = n /\ n + 1 \in 0 .. N
      BY <1>1, <1>6
    <2>2. v \in Int /\ at \in Int /\ p + (n + 1) * width = at + width
      BY <1>3, <1>4, <2>1
    <2>3. F[n] \in [Bytes -> Bytes] /\ F[n + 1] = Store(F[n], at, width, Byte, v)
      BY <1>1, <2>1
    <2>4. First(n) \in Seq(Bytes) /\ Digit(width, v) \in Seq(Bytes)
      <3>1. \A i \in 1 .. width * n : i \in 1 .. width * N
        BY <1>1, <1>4, <2>1
      <3>2. \A i \in 1 .. width * n : all[i] \in Bytes
        BY <1>2, <3>1
      <3>3. width * n \in Nat
        BY <1>4, <2>1
      <3>4. First(n) \in Seq(Bytes)
        <4> DEFINE len == width * n
        <4> HIDE DEF len
        <4>1. [i \in 1 .. len |-> all[i]] \in Seq(Bytes)
          BY <3>2, <3>3 DEF len
        <4>2. QED
          BY <4>1 DEF len
      <3>5. Digit(width, v) \in Seq(Bytes)
        <4>1. Hi(v) \in Bytes /\ Lo(v) \in Bytes
          BY <2>2, DigitsType
        <4>2. QED
          BY <4>1 DEF Digit
      <3>6. QED
        BY <3>4, <3>5
    <2>5. First(n + 1) = First(n) \o Digit(width, v)
      <3>1. CASE width = 1
        <4>1. /\ First(n + 1) = [i \in 1 .. n + 1 |-> all[i]]
              /\ First(n) = [i \in 1 .. n |-> all[i]]
          BY <2>1, <3>1
        <4>2. Digit(width, v) = <<all[n + 1]>>
          BY <1>2, <2>1, <3>1 DEF Digit
        <4>3. [i \in 1 .. n + 1 |-> all[i]] = [i \in 1 .. n |-> all[i]] \o <<all[n + 1]>>
          BY <2>1
        <4>4. QED
          BY <4>1, <4>2, <4>3
      <3>2. CASE width = 2
        <4> DEFINE k == 2 * n
        <4>0. k \in Nat /\ 2 * (n + 1) = k + 2 /\ 2 * (n + 1) - 1 = k + 1
          BY <2>1
        <4>1. /\ First(n + 1) = [i \in 1 .. k + 2 |-> all[i]]
              /\ First(n) = [i \in 1 .. k |-> all[i]]
          BY <3>2, <4>0
        <4>2. Digit(width, v) = <<all[k + 1], all[k + 2]>>
          BY <1>2, <2>1, <3>2, <4>0 DEF Digit
        <4>3. [i \in 1 .. k + 2 |-> all[i]] = [i \in 1 .. k |-> all[i]] \o <<all[k + 1], all[k + 2]>>
          <5> HIDE DEF k
          <5> DEFINE s == [i \in 1 .. k |-> all[i]]
                     a == all[k + 1]
                     b == all[k + 2]
                     joined == [i \in 1 .. k + 2 |->
                                  IF i <= k THEN s[i] ELSE IF i = k + 1 THEN a ELSE b]
          <5>1. s \in Seq(Bytes) /\ Len(s) = k
            <6>1. s \in Seq(Bytes)
              BY <2>4, <4>1, Zenon
            <6>2. Len(s) = k
              BY <4>0
            <6>3. QED
              BY <6>1, <6>2
          <5>2. a \in Bytes /\ b \in Bytes
            <6>1. k + 1 \in 1 .. width * N /\ k + 2 \in 1 .. width * N
              BY <1>1, <2>1, <3>2, <4>0 DEF k
            <6>2. QED
              BY <1>2, <6>1
          <5>3. joined = [i \in 1 .. k + 2 |-> all[i]]
            BY <4>0
          <5> HIDE DEF s, a, b
          <5>4. s \o <<a, b>> = joined
            BY <5>1, <5>2, TwoMore
          <5>5. QED
            BY <5>3, <5>4 DEF s, a, b
        <4>4. QED
          BY <4>1, <4>2, <4>3
      <3>3. QED
        BY <1>4, <3>1, <3>2
    <2>6. RingOf(F[n + 1], at + width) = Reference!Put(RingOf(F[n], at), Digit(width, v))
      <3> HIDE DEF at, v
      <3> QED
        BY <2>2, <2>3, RingStored
    <2>7. RingOf(F[n], at) = Reference!Put(RingOf(bytes, p), First(n))
      <3> HIDE DEF First
      <3> QED
        BY <1>6
    <2>8. Reference!Put(Reference!Put(RingOf(bytes, p), First(n)), Digit(width, v))
            = Reference!Put(RingOf(bytes, p), First(n) \o Digit(width, v))
      <3> HIDE DEF First, v
      <3> QED
        BY <2>4, PutTwice
    <2>9. RingOf(F[n + 1], p + (n + 1) * width) = Reference!Put(RingOf(bytes, p), First(n + 1))
      <3> HIDE DEF First, v, at
      <3> QED
        BY <2>2, <2>5, <2>6, <2>7, <2>8
    <2>10. QED
      <3> HIDE DEF First
      <3> QED
        BY <2>1, <2>9
  <1>7. 0 .. N \subseteq S
    <2> HIDE DEF S
    <2>1. 0 \in Int /\ N \in Int
      BY <1>1
    <2>2. \A n \in 0 .. N : n \in S /\ n + 1 <= N => n + 1 \in S
      BY <1>6
    <2>3. QED
      BY <1>5, <2>1, <2>2, Upwards, Zenon
  <1>8. RingOf(F[N], p + N * width) = Reference!Put(RingOf(bytes, p), First(N))
    <2> HIDE DEF First
    <2>1. N \in 0 .. N
      BY <1>1
    <2>2. QED
      BY <1>7, <2>1
  <1>9. First(N) = all
    BY <1>2
  <1>10. QED
    BY <1>8, <1>9 DEF Pushed, N, F, all

(***************************************************************************)
(* The reference has the words of the machine.                             *)
(***************************************************************************)
LEMMA SameWords ==
  /\ Reference!Byte = Byte /\ Reference!Short = Short /\ Reference!MemSize = MemSize
  /\ Reference!Stacks = Stacks
  /\ Reference!Opcodes = Opcodes
  /\ Reference!Comparisons = Comparisons /\ Reference!Arithmetic = Arithmetic
  /\ Reference!WstPort = WstPort /\ Reference!RstPort = RstPort
  /\ \A op : /\ Reference!On(op) = On(op) /\ Reference!Off(op) = Off(op)
             /\ Reference!Width(op) = Width(op)
  /\ \A widths : Reference!Total(widths) = Total(widths)
  BY DEF Byte, Short, MemSize, Stacks, Opcodes, Poly, Shuffles, Comparisons, Arithmetic, WstPort,
     RstPort, On, Off, Width, Total, Reference!Byte, Reference!Short, Reference!MemSize,
     Reference!Stacks, Reference!Opcodes, Reference!Poly, Reference!Shuffles,
     Reference!Comparisons, Reference!Arithmetic, Reference!WstPort, Reference!RstPort,
     Reference!On, Reference!Off, Reference!Width, Reference!Total

\* The reference computes as the machine does.
LEMMA SameValues ==
  /\ \A bytes, addr, width, size : Reference!Load(bytes, addr, width, size)
                                     = Load(bytes, addr, width, size)
  /\ \A bytes, addr, width, size, v : Reference!Store(bytes, addr, width, size, v)
                                        = Store(bytes, addr, width, size, v)
  /\ \A from, v : Reference!Rel(from, v) = Rel(from, v)
  /\ \A base, a, b : Reference!Compute(base, a, b) = Compute(base, a, b)
  /\ \A base, a, b : Reference!Holds(base, a, b) = Holds(base, a, b)
  /\ \A a, b : Reference!Shift(a, b) = Shift(a, b)
  BY SameWords
  DEF Load, Store, Hi, Lo, Signed, Rel, Compute, Holds, PowerOf2, Shift, Reference!Load,
      Reference!Store, Reference!Hi, Reference!Lo, Reference!Signed, Reference!Rel,
      Reference!Compute, Reference!Holds, Reference!PowerOf2, Reference!Shift

\* So it does in operations of System/expansion.
LEMMA SameExpansion ==
  ASSUME NEW m, NEW addr
  PROVE  Reference!Expanded(m, addr) = Expanded(m, addr)
  <1>1. \A a : Reference!Short2(m, a) = Short2(m, a)
    BY SameWords, SameValues DEF Short2, Reference!Short2
  <1>2. \A a : Reference!Place(m, a) = Place(m, a)
    BY <1>1, SameWords DEF Place, Reference!Place
  <1>3. \A place, length : Reference!Fitting(place, length) = Fitting(place, length)
    BY SameWords DEF Fitting, Reference!Fitting
  <1>4. \A p, q : Reference!Farther(p, q) = Farther(p, q)
    BY DEF Farther, Reference!Farther
  <1>5. \A start, length, v : Reference!Fill(m, start, length, v) = Fill(m, start, length, v)
    BY DEF Fill, Reference!Fill
  <1>6. \A src, dst, at : Reference!Copied(m, src, dst, at) = Copied(m, src, dst, at)
    BY DEF Copied, Reference!Copied
  <1>7. \A src, dst, length : /\ Reference!CopyLeft(m, src, dst, length) = CopyLeft(m, src, dst, length)
                              /\ Reference!CopyRight(m, src, dst, length) = CopyRight(m, src, dst, length)
    BY <1>6 DEF CopyLeft, CopyRight, Reference!CopyLeft, Reference!CopyRight
  <1>8. QED
    BY <1>1, <1>2, <1>3, <1>4, <1>5, <1>7 DEF Expanded, Reference!Expanded

\* A value of the reference is the bytes that its width and those above it say.
LEMMA ValueLoaded ==
  ASSUME NEW bytes, NEW p \in Int, NEW widths, NEW i, NEW depth \in Int,
         widths[i] \in Widths, Total(widths)[Len(widths)] \in Int, Total(widths)[i] \in Int,
         depth = Total(widths)[Len(widths)] - Total(widths)[i] + widths[i]
  PROVE  Reference!Value(RingOf(bytes, p), widths, i) = Load(bytes, p - depth, widths[i], Byte)
  <1> DEFINE below == Total(widths)[Len(widths)] - Total(widths)[i]
             up == -below
             from == p + up
             top == RingOf(bytes, from)
             w == widths[i]
  <1>1. /\ below \in Int /\ up \in Int /\ from \in Int
        /\ from = p - below /\ depth = below + w /\ w \in {1, 2}
    BY DEF Widths
  <1>2. Reference!Turn(RingOf(bytes, p), up) = top
    <2> HIDE DEF up
    <2> QED
      BY <1>1, RingTurned
  <1>3. Reference!Value(RingOf(bytes, p), widths, i)
          = IF w = 1 THEN top[1] ELSE top[2] * Byte + top[1]
    BY <1>2, SameWords DEF Reference!Value
  <1> HIDE DEF below, up, from, w
  <1>4. 1 \in 1 .. Byte /\ 2 \in 1 .. Byte
    BY ByteType
  <1>5. top[1] = bytes[(from - 1) % Byte] /\ top[2] = bytes[(from - 2) % Byte]
    BY <1>4 DEF RingOf
  <1> HIDE DEF top
  <1>6. CASE w = 1
    <2>1. from - 1 = p - depth
      BY <1>1, <1>6, SMTT(20)
    <2>2. QED
      BY <1>3, <1>5, <1>6, <2>1 DEF Load, w
  <1>7. CASE w = 2
    <2>1. from - 2 = p - depth /\ from - 1 = p - depth + 1
      BY <1>1, <1>7
    <2>2. QED
      BY <1>3, <1>5, <1>7, <2>1 DEF Load, w
  <1>8. QED
    BY <1>1, <1>6, <1>7

(***************************************************************************)
(* Operands.                                                               *)
(***************************************************************************)

\* The widths of a signature, whose last is on top, and those that the
\* interpreter pops, whose first is.
Mirrored(widths, taken) ==
  /\ widths \in Seq(Widths) /\ taken \in Seq(Widths)
  /\ Len(widths) = Len(taken) /\ Len(taken) \in 0 .. 3
  /\ \A i \in 1 .. Len(taken) : widths[Len(taken) + 1 - i] = taken[i]

\* What lies above an operand is the same from either end of the signature.
LEMMA MirroredTotals ==
  ASSUME NEW widths, NEW taken, Mirrored(widths, taken)
  PROVE  /\ Total(widths)[Len(widths)] = Total(taken)[Len(taken)]
         /\ \A i \in 1 .. Len(taken) :
              Total(taken)[i] = Total(widths)[Len(widths)] - Total(widths)[Len(taken) + 1 - i]
                                  + widths[Len(taken) + 1 - i]
  <1> DEFINE N == Len(taken)
             T == Total(taken)
             U == Total(widths)
  <1>1. /\ T[0] = 0 /\ \A n \in 1 .. N : T[n] = T[n - 1] + taken[n]
        /\ \A n \in 0 .. N : T[n] \in Nat
    BY TotalExact DEF Mirrored
  <1>2. /\ U[0] = 0 /\ \A n \in 1 .. N : U[n] = U[n - 1] + widths[n]
        /\ \A n \in 0 .. N : U[n] \in Nat
    BY TotalExact DEF Mirrored
  <1>3. /\ N \in 0 .. 3 /\ Len(widths) = N
        /\ \A i \in 1 .. N : widths[N + 1 - i] = taken[i] /\ taken[i] \in Int /\ widths[i] \in Int
    BY DEF Mirrored, Widths
  <1> HIDE DEF N, T, U
  <1>4. CASE N = 0
    BY <1>1, <1>2, <1>3, <1>4 DEF N, T, U
  <1>5. CASE N = 1
    <2>1. 1 \in 1 .. N /\ widths[1] = taken[1] /\ T[1] = taken[1] /\ U[1] = widths[1]
      BY <1>1, <1>2, <1>3, <1>5
    <2>2. \A i \in 1 .. N : i = 1
      BY <1>5
    <2>3. QED
      BY <1>3, <1>5, <2>1, <2>2 DEF N, T, U
  <1>6. CASE N = 2
    <2>1. 1 \in 1 .. N /\ 2 \in 1 .. N
      BY <1>6
    <2>2. widths[2] = taken[1] /\ widths[1] = taken[2]
      BY <1>3, <1>6, <2>1
    <2>3. /\ T[1] = taken[1] /\ T[2] = taken[1] + taken[2]
          /\ U[1] = widths[1] /\ U[2] = widths[1] + widths[2]
      BY <1>1, <1>2, <1>3, <2>1, SMTT(20)
    <2>4. \A i \in 1 .. N : i = 1 \/ i = 2
      BY <1>6
    <2>5. taken[1] \in Int /\ taken[2] \in Int
      BY <1>3, <2>1
    <2>6. QED
      BY <1>3, <1>6, <2>2, <2>3, <2>4, <2>5 DEF N, T, U
  <1>7. CASE N = 3
    <2>1. 1 \in 1 .. N /\ 2 \in 1 .. N /\ 3 \in 1 .. N
      BY <1>7
    <2>2. widths[3] = taken[1] /\ widths[2] = taken[2] /\ widths[1] = taken[3]
      BY <1>3, <1>7, <2>1
    <2>3. /\ T[1] = taken[1] /\ T[2] = taken[1] + taken[2] /\ T[3] = taken[1] + taken[2] + taken[3]
          /\ U[1] = widths[1] /\ U[2] = widths[1] + widths[2]
          /\ U[3] = widths[1] + widths[2] + widths[3]
      <3>1. /\ T[1] = T[0] + taken[1] /\ T[2] = T[1] + taken[2] /\ T[3] = T[2] + taken[3]
            /\ U[1] = U[0] + widths[1] /\ U[2] = U[1] + widths[2] /\ U[3] = U[2] + widths[3]
        BY <1>1, <1>2, <2>1
      <3>2. /\ taken[1] \in Int /\ taken[2] \in Int /\ taken[3] \in Int
            /\ widths[1] \in Int /\ widths[2] \in Int /\ widths[3] \in Int
        BY <1>3, <2>1
      <3>3. QED
        BY <1>1, <1>2, <3>1, <3>2
    <2>4. \A i \in 1 .. N : i = 1 \/ i = 2 \/ i = 3
      BY <1>7
    <2>5. taken[1] \in Int /\ taken[2] \in Int /\ taken[3] \in Int
      BY <1>3, <2>1
    <2>6. QED
      BY <1>3, <1>7, <2>2, <2>3, <2>4, <2>5 DEF N, T, U
  <1>8. QED
    BY <1>3, <1>4, <1>5, <1>6, <1>7

\* An operand of the reference, by its place in the signature.
Operand(op, i) ==
  IF i <= Len(Reference!Operands(op))
  THEN Reference!Value(RingOf(data[On(op)], ptr[On(op)]), Reference!Operands(op), i) ELSE 0

\* What the interpreter pops are the operands, the last one first.
LEMMA OperandsPopped ==
  ASSUME TypeOK, NEW op \in Opcodes, NEW taken, Mirrored(Reference!Operands(op), taken),
         NEW i \in 1 .. Len(taken)
  PROVE  Operand(op, Len(taken) + 1 - i) = Popped(On(op), taken)[i]
  <1> DEFINE widths == Reference!Operands(op)
             j == Len(taken) + 1 - i
             p == ptr[On(op)]
             bytes == data[On(op)]
             depth == Total(taken)[i]
  <1>1. p \in Int
    BY OpTypes, Nats DEF TypeOK
  <1>2. /\ widths \in Seq(Widths) /\ taken \in Seq(Widths) /\ Len(widths) = Len(taken)
        /\ widths[j] = taken[i]
    BY DEF Mirrored
  <1>3. i \in 0 .. Len(taken) /\ j \in 0 .. Len(widths) /\ j \in 1 .. Len(widths)
        /\ Len(widths) \in 0 .. Len(widths)
    BY <1>2
  <1>4. depth = Total(widths)[Len(widths)] - Total(widths)[j] + widths[j]
    BY MirroredTotals
  <1> HIDE DEF widths, j, p, bytes
  <1>5. depth \in Int /\ Total(widths)[Len(widths)] \in Int /\ Total(widths)[j] \in Int
    BY <1>2, <1>3, TotalExact
  <1> HIDE DEF depth
  <1>6. widths[j] \in Widths
    BY <1>2, <1>3
  <1>7. Reference!Value(RingOf(bytes, p), widths, j) = Load(bytes, p - depth, widths[j], Byte)
    BY <1>1, <1>4, <1>5, <1>6, ValueLoaded
  <1>8. Popped(On(op), taken)[i] = Load(bytes, p - depth, taken[i], Byte)
    BY DEF Popped, bytes, p, depth
  <1>9. j <= Len(widths)
    BY <1>3
  <1>10. QED
    BY <1>2, <1>7, <1>8, <1>9 DEF Operand, widths, j, p, bytes

(***************************************************************************)
(* Instructions.                                                           *)
(***************************************************************************)
List == [s \in Stacks |-> [i \in 1 .. Byte |-> data[s][(Pointer(s) - i) % Byte]]]
Height == [s \in Stacks |-> Pointer(s)]

\* While a vector runs, the stacks of the reference are those of the interpreter.
LEMMA RunningLists ==
  ASSUME TypeOK, running
  PROVE  /\ Height = ptr
         /\ DOMAIN List = Stacks
         /\ \A s \in Stacks : List[s] = RingOf(data[s], ptr[s])
  BY DEF List, Height, Pointer, RingOf, TypeOK

\* How an instruction leaves the stacks: what it leaves of its own and puts on
\* it, and what it puts on the other one.
Leaves(op, taken, width, values, width2, values2) ==
  /\ data' = [s \in Stacks |->
                IF s = On(op) THEN Pushed(data[s], After(op, taken), width, values)
                ELSE Pushed(data[s], ptr[s], width2, values2)]
  /\ ptr' = [s \in Stacks |->
               IF s = On(op) THEN (After(op, taken) + Len(values) * width) % Byte
               ELSE (ptr[s] + Len(values2) * width2) % Byte]

\* What the reference says of an instruction that is no write to a device, in
\* terms of its operands.
Says(op, taken, width, values, width2, values2) ==
  /\ Reference!Results(op, next, [ptr EXCEPT ![On(op)] = After(op, taken)],
                       Operand(op, 1), Operand(op, 2), Operand(op, 3))
       = Reference!ByteSeq(width, values)
  /\ Reference!Stashed(op, next, Operand(op, 1)) = Reference!ByteSeq(width2, values2)
  /\ pc' = Reference!Goes(op, next, Operand(op, 1), Operand(op, 2))
  /\ mem' = Reference!Writes(op, next, Operand(op, 1), Operand(op, 2))
  /\ dev' = dev

\* A byte is what it is modulo the size of a page.
LEMMA ByteStays ==
  ASSUME NEW v \in Bytes
  PROVE  v % Byte = v
  <1>1. v \in 0 .. Byte - 1
    BY DEF Bytes
  <1> HIDE DEF Byte
  <1>2. QED
    BY <1>1, ByteType, InRange

\* What the reference leaves of a stack and of its height without the operands.
Gone(op) == IF op.k THEN 0 ELSE Reference!Total(Reference!Operands(op))[Len(Reference!Operands(op))]
Left(op) == [List EXCEPT ![Reference!On(op)] = Reference!Turn(@, -Gone(op))]
Remaining(op) == [Height EXCEPT ![Reference!On(op)] = (@ - Gone(op)) % Reference!Byte]

\* It is what the interpreter's pointer leaves.
LEMMA WhatRemains ==
  ASSUME TypeOK, NEW op \in Opcodes, running,
         NEW taken, Mirrored(Reference!Operands(op), taken)
  PROVE  /\ Remaining(op) = [ptr EXCEPT ![On(op)] = After(op, taken)]
         /\ Remaining(op) \in [Stacks -> Bytes]
         /\ DOMAIN Left(op) = Stacks
         /\ \A s \in Stacks : Left(op)[s] = RingOf(data[s], Remaining(op)[s])
  <1> DEFINE widths == Reference!Operands(op)
             n == Reference!Total(widths)[Len(widths)]
             gone == Gone(op)
             left == Left(op)
             h == Remaining(op)
             p == After(op, taken)
  <1>1. /\ On(op) \in Stacks /\ Off(op) \in Stacks /\ On(op) # Off(op)
        /\ Stacks = {On(op), Off(op)}
    BY OpTypes
  <1>2. /\ ptr \in [Stacks -> Bytes] /\ ptr[On(op)] \in Int /\ ptr[On(op)] \in 0 .. Byte - 1
        /\ data \in [Stacks -> [Bytes -> Bytes]]
        /\ \A s \in Stacks : ptr[s] \in Int
    BY <1>1, Nats DEF TypeOK, Bytes
  <1>3. n = Total(widths)[Len(widths)] /\ Reference!On(op) = On(op)
    BY SameWords
  <1>5. n = Total(taken)[Len(taken)] /\ n \in Int
    <2>1. Len(taken) \in 0 .. Len(taken) /\ taken \in Seq(Widths)
      BY DEF Mirrored
    <2>2. Total(taken)[Len(taken)] \in Int
      BY <2>1, TotalExact
    <2>3. QED
      BY <1>3, <2>2, MirroredTotals
  <1> HIDE DEF n
  <1>6. /\ p \in Bytes /\ p \in Int
        /\ p = (ptr[On(op)] - gone) % Byte
    <2>1. p \in Bytes
      BY AfterType DEF Mirrored
    <2>2. CASE op.k
      <3>1. ptr[On(op)] % Byte = ptr[On(op)]
        <4>1. ptr[On(op)] \in Bytes
          BY <1>1, <1>2
        <4>2. QED
          BY <4>1, ByteStays
      <3>2. ptr[On(op)] - gone = ptr[On(op)]
        BY <1>2, <2>2 DEF Gone
      <3>3. QED
        BY <2>1, <2>2, <3>1, <3>2, Nats DEF After
    <2>3. CASE ~op.k
      BY <1>5, <2>1, <2>3, Nats DEF After, Gone, n
    <2>4. QED
      BY <2>2, <2>3
  <1>7. gone \in Int /\ ptr[On(op)] - gone \in Int
    BY <1>2, <1>5 DEF Gone, n
  <1> HIDE DEF gone, p
  <1>8. h = [ptr EXCEPT ![On(op)] = p]
    BY <1>1, <1>2, <1>3, <1>6, SameWords, RunningLists DEF Remaining, gone
  <1>9. /\ DOMAIN left = Stacks
        /\ left[On(op)] = RingOf(data[On(op)], p)
        /\ left[Off(op)] = RingOf(data[Off(op)], ptr[Off(op)])
    <2> DEFINE back == -gone
    <2>1. back \in Int /\ ptr[On(op)] + back = ptr[On(op)] - gone
      BY <1>2, <1>7
    <2>2. Reference!Turn(RingOf(data[On(op)], ptr[On(op)]), back)
            = RingOf(data[On(op)], ptr[On(op)] + back)
      <3> HIDE DEF back
      <3> QED
        BY <1>2, <2>1, RingTurned
    <2>3. p % Byte = (ptr[On(op)] - gone) % Byte
      BY <1>6, ByteStays
    <2>4. RingOf(data[On(op)], ptr[On(op)] - gone) = RingOf(data[On(op)], p)
      BY <1>6, <1>7, <2>3, RingSame
    <2>5. left = [List EXCEPT ![On(op)] = Reference!Turn(List[On(op)], back)]
      BY <1>3 DEF Left, gone
    <2> HIDE DEF back, left
    <2>6. QED
      BY <1>1, <2>1, <2>2, <2>4, <2>5, RunningLists
  <1>10. QED
    BY <1>1, <1>2, <1>6, <1>8, <1>9 DEF left, h, p, gone

\* An instruction that does what the reference says is a step of it.
LEMMA Instruction ==
  ASSUME TypeOK, NEW op \in Opcodes, running, instr' = op, op.base # "DEO",
         NEW taken, Mirrored(Reference!Operands(op), taken),
         NEW width \in Widths, NEW values \in Seq(Int),
         NEW width2 \in Widths, NEW values2 \in Seq(Int),
         running' = (op.base # "BRK"), \A s \in Stacks : Pointer(s)' = ptr'[s],
         Leaves(op, taken, width, values, width2, values2),
         Says(op, taken, width, values, width2, values2)
  PROVE  Reference!Step(op)
  <1> DEFINE after == (pc + 1) % Reference!Short
             widths == Reference!Operands(op)
             v(i) == IF i <= Len(widths) THEN Reference!Value(List[Reference!On(op)], widths, i) ELSE 0
             left == Left(op)
             h == Remaining(op)
             results == Reference!Results(op, after, h, v(1), v(2), v(3))
             stashed == Reference!Stashed(op, after, v(1))
             ports == IF op.base = "DEO"
                      THEN {(v(2) + i) % Reference!Byte : i \in 0 .. Reference!Width(op) - 1} ELSE {}
             d == IF op.base = "DEO"
                  THEN Reference!Store(dev, v(2), Reference!Width(op), Reference!Byte, v(1)) ELSE dev
             at(s) == Reference!Moved(s, d, ports, h[s])
             p == After(op, taken)
  <1>1. /\ On(op) \in Stacks /\ Off(op) \in Stacks /\ On(op) # Off(op)
        /\ Stacks = {On(op), Off(op)}
    BY OpTypes
  <1>2. /\ ptr \in [Stacks -> Bytes] /\ ptr[On(op)] \in Int /\ ptr[On(op)] \in 0 .. Byte - 1
        /\ data \in [Stacks -> [Bytes -> Bytes]]
        /\ \A s \in Stacks : ptr[s] \in Int
    BY <1>1, Nats DEF TypeOK, Bytes
  <1>3. after = next /\ Reference!On(op) = On(op)
    BY SameWords DEF next
  <1>4. v(1) = Operand(op, 1) /\ v(2) = Operand(op, 2) /\ v(3) = Operand(op, 3)
    BY <1>1, SameWords, RunningLists DEF Operand
  <1> HIDE DEF after, v
  <1>5. h = [ptr EXCEPT ![On(op)] = p] /\ h \in [Stacks -> Bytes]
    BY WhatRemains
  <1>6. p \in Bytes /\ p \in Int
    BY AfterType, Nats DEF Mirrored
  <1> HIDE DEF p
  <1>7. /\ DOMAIN left = Stacks
        /\ left[On(op)] = RingOf(data[On(op)], p)
        /\ left[Off(op)] = RingOf(data[Off(op)], ptr[Off(op)])
    BY <1>1, <1>2, <1>5, WhatRemains
  <1> HIDE DEF left, h
  <1>8. /\ results = Reference!ByteSeq(width, values)
         /\ stashed = Reference!ByteSeq(width2, values2)
         /\ pc' = Reference!Goes(op, after, v(1), v(2))
         /\ mem' = Reference!Writes(op, after, v(1), v(2))
    BY <1>3, <1>4, <1>5 DEF Says, p
  <1>9. ports = {} /\ d = dev /\ dev' = d
    BY DEF Says
  <1> HIDE DEF results, stashed, ports, d
  <1>10. \A s \in Stacks : at(s) = h[s]
    BY <1>9 DEF Reference!Moved
  <1>11. mem' = Reference!Expand(Reference!Writes(op, after, v(1), v(2)), d, ports)
    BY <1>8, <1>9 DEF Reference!Expand
  <1>12. /\ h[On(op)] = p /\ h[Off(op)] = ptr[Off(op)]
         /\ \A s \in Stacks : h[s] \in Int /\ h[s] - h[s] = 0
    BY <1>1, <1>2, <1>5, <1>6
  <1>13. \A s \in Stacks : Reference!Turn(left[s], at(s) - h[s]) = left[s]
    <2>1. Reference!Turn(RingOf(data[On(op)], p), 0) = RingOf(data[On(op)], p)
      <3>1. p + 0 = p
        BY <1>6
      <3>2. QED
        BY <1>6, <3>1, RingTurned
    <2>2. Reference!Turn(RingOf(data[Off(op)], ptr[Off(op)]), 0) = RingOf(data[Off(op)], ptr[Off(op)])
      <3>1. ptr[Off(op)] + 0 = ptr[Off(op)] /\ ptr[Off(op)] \in Int
        BY <1>1, <1>2
      <3>2. QED
        BY <3>1, RingTurned
    <2>3. QED
      BY <1>1, <1>7, <1>10, <1>12, <2>1, <2>2
  <1> HIDE DEF at
  <1>14. Len(values) \in Nat /\ Len(values2) \in Nat /\ width \in Int /\ width2 \in Int
    BY DEF Widths
  <1>15. /\ Len(results) = Len(values) * width /\ Len(stashed) = Len(values2) * width2
    BY <1>8, <1>14, ByteSeqType
  <1>16. /\ data'[On(op)] = Pushed(data[On(op)], p, width, values)
         /\ data'[Off(op)] = Pushed(data[Off(op)], ptr[Off(op)], width2, values2)
         /\ ptr'[On(op)] = (p + Len(values) * width) % Byte
         /\ ptr'[Off(op)] = (ptr[Off(op)] + Len(values2) * width2) % Byte
    BY <1>1 DEF Leaves, p
  <1>17. ASSUME NEW bytes \in [Bytes -> Bytes], NEW from \in Int, NEW w \in Widths, NEW vs \in Seq(Int)
         PROVE  RingOf(Pushed(bytes, from, w, vs), (from + Len(vs) * w) % Byte)
                  = Reference!Put(RingOf(bytes, from), Reference!ByteSeq(w, vs))
    <2> DEFINE to == from + Len(vs) * w
    <2>1. to \in Int
      BY DEF Widths
    <2> HIDE DEF to
    <2>2. to % Byte \in Bytes /\ to % Byte \in Int
      BY <2>1, ByteType, Quotient DEF Bytes
    <2>3. (to % Byte) % Byte = to % Byte
      BY <2>2, ByteStays
    <2>4. RingOf(Pushed(bytes, from, w, vs), to % Byte) = RingOf(Pushed(bytes, from, w, vs), to)
      BY <2>1, <2>2, <2>3, RingSame
    <2>5. QED
      BY <2>4, RingOfPushed DEF to
  <1>18. \A s \in Stacks :
           RingOf(data'[s], ptr'[s])
             = Reference!Put(Reference!Turn(left[s], at(s) - h[s]),
                             IF s = Reference!On(op) THEN results ELSE stashed)
    <2>1. RingOf(data'[On(op)], ptr'[On(op)])
            = Reference!Put(left[On(op)], results)
      <3> DEFINE bytes == data[On(op)]
      <3>1. bytes \in [Bytes -> Bytes]
        BY <1>1, <1>2
      <3>2. left[On(op)] = RingOf(bytes, p)
        BY <1>7
      <3>3. /\ data'[On(op)] = Pushed(bytes, p, width, values)
            /\ ptr'[On(op)] = (p + Len(values) * width) % Byte
        BY <1>16
      <3> HIDE DEF bytes
      <3>4. RingOf(Pushed(bytes, p, width, values), (p + Len(values) * width) % Byte)
              = Reference!Put(RingOf(bytes, p), Reference!ByteSeq(width, values))
        BY <1>6, <1>17, <3>1
      <3>5. QED
        BY <1>8, <3>2, <3>3, <3>4
    <2>2. RingOf(data'[Off(op)], ptr'[Off(op)])
            = Reference!Put(left[Off(op)], stashed)
      <3> DEFINE bytes == data[Off(op)]
                 from == ptr[Off(op)]
      <3>1. bytes \in [Bytes -> Bytes] /\ from \in Int
        BY <1>1, <1>2
      <3>2. left[Off(op)] = RingOf(bytes, from)
        BY <1>7
      <3>3. /\ data'[Off(op)] = Pushed(bytes, from, width2, values2)
            /\ ptr'[Off(op)] = (from + Len(values2) * width2) % Byte
        BY <1>16
      <3> HIDE DEF bytes, from
      <3>4. RingOf(Pushed(bytes, from, width2, values2), (from + Len(values2) * width2) % Byte)
              = Reference!Put(RingOf(bytes, from), Reference!ByteSeq(width2, values2))
        BY <3>1, <1>17
      <3>5. QED
        BY <1>8, <3>2, <3>3, <3>4
    <2>3. QED
      BY <1>1, <1>3, <1>13, <2>1, <2>2
  <1>19. \A s \in Stacks :
           ptr'[s] = (at(s) + Len(IF s = Reference!On(op) THEN results ELSE stashed)) % Reference!Byte
    BY <1>1, <1>3, <1>10, <1>12, <1>15, <1>16, SameWords
  <1>20. List' = [s \in Reference!Stacks |->
                    Reference!Put(Reference!Turn(left[s], at(s) - h[s]),
                                  IF s = Reference!On(op) THEN results ELSE stashed)]
    BY <1>18, SameWords DEF List, RingOf
  <1>21. Height' = [s \in Reference!Stacks |->
                      (at(s) + Len(IF s = Reference!On(op) THEN results ELSE stashed)) % Reference!Byte]
    BY <1>19, SameWords DEF Height
  <1>22. QED
    BY <1>8, <1>9, <1>11, <1>20, <1>21
    DEF Reference!Step, List, Height, after, widths, v, left, h, Left, Remaining, Gone,
        results, stashed, ports, d, at

\* A stack on which nothing is put stays as it is.
LEMMA Untouched ==
  ASSUME NEW bytes \in [Bytes -> Bytes], NEW p \in Bytes, NEW w \in Widths
  PROVE  /\ Pushed(bytes, p, w, <<>>) = bytes /\ (p + Len(<<>>) * w) % Byte = p
         /\ Reference!ByteSeq(w, <<>>) = <<>> /\ <<>> \in Seq(Int)
  <1>1. <<>> \in Seq(Int) /\ Len(<<>>) = 0 /\ w \in Int /\ p \in Int
    BY Nats DEF Widths
  <1>2. PushedFirst(bytes, p, w, <<>>)[0] = bytes
    <2>1. p \in Int
      BY <1>1
    <2>2. QED
      <3> DEFINE none == <<>>
      <3>1. none \in Seq(Int)
        BY <1>1
      <3> HIDE DEF none
      <3>2. PushedFirst(bytes, p, w, none)[0] = bytes
        BY <2>1, <3>1, PushedExact
      <3>3. QED
        BY <3>2 DEF none
  <1>3. p + Len(<<>>) * w = p
    BY <1>1
  <1>4. p % Byte = p
    BY ByteStays
  <1>5. Reference!ByteSeq(w, <<>>) = <<>>
    <2> DEFINE r == Reference!ByteSeq(w, <<>>)
    <2>1. r \in Seq(Bytes) /\ Len(r) = w * Len(<<>>)
      BY <1>1, ByteSeqType
    <2>2. w * Len(<<>>) = 0
      BY <1>1
    <2> HIDE DEF r
    <2>3. r = <<>>
      BY <2>1, <2>2
    <2>4. QED
      BY <2>3 DEF r
  <1>6. QED
    BY <1>1, <1>2, <1>3, <1>4, <1>5 DEF Pushed

\* What the reference says of an instruction that changes its own stack only.
Answers(op, taken, width, values) ==
  /\ Reference!Results(op, next, [ptr EXCEPT ![On(op)] = After(op, taken)],
                       Operand(op, 1), Operand(op, 2), Operand(op, 3))
       = Reference!ByteSeq(width, values)
  /\ Reference!Stashed(op, next, Operand(op, 1)) = <<>>
  /\ pc' = Reference!Goes(op, next, Operand(op, 1), Operand(op, 2))
  /\ mem' = Reference!Writes(op, next, Operand(op, 1), Operand(op, 2))
  /\ dev' = dev

\* Such an instruction, if it does what the reference says, is a step of it.
LEMMA Replacing ==
  ASSUME TypeOK, NEW op \in Opcodes, Fetch(op), op.base \notin {"DEO", "BRK"}, running' = running,
         NEW taken, Mirrored(Reference!Operands(op), taken),
         NEW width \in Widths, NEW values \in Seq(Int),
         Replace(op, taken, width, values), Answers(op, taken, width, values)
  PROVE  Reference!Step(op)
  <1> DEFINE p == After(op, taken)
  <1>1. /\ On(op) \in Stacks /\ Off(op) \in Stacks /\ On(op) # Off(op)
        /\ Stacks = {On(op), Off(op)}
    BY OpTypes
  <1>2. /\ ptr \in [Stacks -> Bytes] /\ data \in [Stacks -> [Bytes -> Bytes]]
    BY DEF TypeOK
  <1>3. 1 \in Widths
    BY DEF Widths
  <1>4. \A s \in Stacks : /\ Pushed(data[s], ptr[s], 1, <<>>) = data[s]
                          /\ (ptr[s] + Len(<<>>) * 1) % Byte = ptr[s]
    BY <1>2, <1>3, Untouched
  <1>5. <<>> \in Seq(Int) /\ Reference!ByteSeq(1, <<>>) = <<>>
    BY <1>1, <1>2, <1>3, Untouched
  <1> HIDE DEF p
  <1>6. /\ data' = [data EXCEPT ![On(op)] = Pushed(@, p, width, values)]
        /\ ptr' = [ptr EXCEPT ![On(op)] = (p + Len(values) * width) % Byte]
    BY DEF Replace, p
  <1>7. Leaves(op, taken, width, values, 1, <<>>)
    BY <1>1, <1>2, <1>4, <1>6 DEF Leaves, p
  <1>8. Says(op, taken, width, values, 1, <<>>)
    BY <1>5 DEF Says, Answers
  <1>9. running /\ running' = (op.base # "BRK") /\ instr' = op /\ op.base # "DEO"
    BY DEF Fetch
  <1>10. \A s \in Stacks : Pointer(s)' = ptr'[s]
    BY <1>9 DEF Pointer
  <1>11. QED
    BY <1>3, <1>5, <1>7, <1>8, <1>9, <1>10, Instruction

\* The operands of the signatures, and what the interpreter pops for them.
LEMMA NoOperand ==
  ASSUME NEW op, Reference!Operands(op) = <<>>
  PROVE  Mirrored(Reference!Operands(op), <<>>)
  BY DEF Mirrored

\* One operand.
LEMMA OneOperand ==
  ASSUME TypeOK, NEW op \in Opcodes, NEW w \in Widths, Reference!Operands(op) = <<w>>
  PROVE  /\ Mirrored(Reference!Operands(op), <<w>>)
         /\ Operand(op, 1) = Popped(On(op), <<w>>)[1]
  <1>1. Mirrored(Reference!Operands(op), <<w>>)
    BY DEF Mirrored
  <1>2. 1 \in 1 .. Len(<<w>>) /\ Len(<<w>>) + 1 - 1 = 1
    OBVIOUS
  <1>3. QED
    BY <1>1, <1>2, OperandsPopped

\* Two operands: the interpreter pops the second first.
LEMMA TwoOperands ==
  ASSUME TypeOK, NEW op \in Opcodes, NEW v \in Widths, NEW w \in Widths,
         Reference!Operands(op) = <<v, w>>
  PROVE  /\ Mirrored(Reference!Operands(op), <<w, v>>)
         /\ Operand(op, 1) = Popped(On(op), <<w, v>>)[2]
         /\ Operand(op, 2) = Popped(On(op), <<w, v>>)[1]
  <1>1. Mirrored(Reference!Operands(op), <<w, v>>)
    <2>1. \A i \in 1 .. 2 : <<v, w>>[2 + 1 - i] = <<w, v>>[i]
      OBVIOUS
    <2>2. QED
      BY <2>1 DEF Mirrored
  <1>2. /\ 1 \in 1 .. Len(<<w, v>>) /\ 2 \in 1 .. Len(<<w, v>>)
        /\ Len(<<w, v>>) + 1 - 1 = 2 /\ Len(<<w, v>>) + 1 - 2 = 1
    OBVIOUS
  <1>3. QED
    BY <1>1, <1>2, OperandsPopped

\* Three operands of a width.
LEMMA ThreeOperands ==
  ASSUME TypeOK, NEW op \in Opcodes, NEW w \in Widths, Reference!Operands(op) = <<w, w, w>>
  PROVE  /\ Mirrored(Reference!Operands(op), <<w, w, w>>)
         /\ Operand(op, 1) = Popped(On(op), <<w, w, w>>)[3]
         /\ Operand(op, 2) = Popped(On(op), <<w, w, w>>)[2]
         /\ Operand(op, 3) = Popped(On(op), <<w, w, w>>)[1]
  <1>1. Mirrored(Reference!Operands(op), <<w, w, w>>)
    <2>1. \A i \in 1 .. 3 : <<w, w, w>>[3 + 1 - i] = <<w, w, w>>[i]
      OBVIOUS
    <2>2. QED
      BY <2>1 DEF Mirrored
  <1>2. /\ 1 \in 1 .. Len(<<w, w, w>>) /\ 2 \in 1 .. Len(<<w, w, w>>) /\ 3 \in 1 .. Len(<<w, w, w>>)
        /\ Len(<<w, w, w>>) + 1 - 1 = 3 /\ Len(<<w, w, w>>) + 1 - 2 = 2
        /\ Len(<<w, w, w>>) + 1 - 3 = 1
    OBVIOUS
  <1> DEFINE taken == <<w, w, w>>
  <1> HIDE DEF taken
  <1>3. \A i \in 1 .. Len(taken) : Operand(op, Len(taken) + 1 - i) = Popped(On(op), taken)[i]
    BY <1>1, OperandsPopped, Zenon DEF taken
  <1>4. QED
    BY <1>1, <1>2, <1>3 DEF taken

\* The operands of one width, one by one.
LEMMA SameTaken ==
  ASSUME NEW op
  PROVE  /\ Same(op, 1) = <<Width(op)>> /\ Same(op, 2) = <<Width(op), Width(op)>>
         /\ Same(op, 3) = <<Width(op), Width(op), Width(op)>>
  <1> DEFINE w == Width(op)
  <1> HIDE DEF w
  <1>1. /\ [i \in 1 .. 1 |-> w] = <<w>>
        /\ [i \in 1 .. 2 |-> w] = <<w, w>>
        /\ [i \in 1 .. 3 |-> w] = <<w, w, w>>
    OBVIOUS
  <1>2. QED
    BY <1>1 DEF Same, w

\* An instruction that neither jumps, stashes nor stores.
Plain == Shuffles \union Comparisons \union Arithmetic \union {"SFT", "LDZ", "LDR", "LDA", "DEI"}

\* Such an instruction goes on to the next one and leaves the rest as it is.
LEMMA PlainSays ==
  ASSUME NEW op, op.base \in Plain, NEW after, NEW a, NEW b
  PROVE  /\ Reference!Stashed(op, after, a) = <<>>
         /\ Reference!Goes(op, after, a, b) = after
         /\ Reference!Writes(op, after, a, b) = mem
  BY DEF Plain, Shuffles, Comparisons, Arithmetic, Reference!Stashed, Reference!Goes,
     Reference!Writes

\* The results of the reference, in words of the machine.
Said(op, said, after, a, b, c) ==
  /\ op.base = "INC" => said = Reference!ByteSeq(Width(op), <<a + 1>>)
  /\ op.base = "NIP" => said = Reference!ByteSeq(Width(op), <<b>>)
  /\ op.base = "SWP" => said = Reference!ByteSeq(Width(op), <<b, a>>)
  /\ op.base = "ROT" => said = Reference!ByteSeq(Width(op), <<b, c, a>>)
  /\ op.base = "DUP" => said = Reference!ByteSeq(Width(op), <<a, a>>)
  /\ op.base = "OVR" => said = Reference!ByteSeq(Width(op), <<a, b, a>>)
  /\ op.base \in Comparisons => said = <<IF Holds(op.base, a, b) THEN 1 ELSE 0>>
  /\ op.base \in Arithmetic => said = Reference!ByteSeq(Width(op), <<Compute(op.base, a, b)>>)
  /\ op.base = "SFT" => said = Reference!ByteSeq(Width(op), <<Shift(a, b)>>)
  /\ op.base = "LDZ" => said = Reference!ByteSeq(Width(op), <<Load(mem, a, Width(op), Byte)>>)
  /\ op.base = "LDR" =>
       said = Reference!ByteSeq(Width(op), <<Load(mem, Rel(after, a), Width(op), Short)>>)
  /\ op.base = "LDA" => said = Reference!ByteSeq(Width(op), <<Load(mem, a, Width(op), Short)>>)
  /\ op.base = "LIT" => said = Reference!ByteSeq(Width(op), <<Load(mem, after, Width(op), Short)>>)
  /\ op.base \in {"POP", "JMP", "JCN", "JSR", "STH", "STZ", "STR", "STA", "DEO",
                   "BRK", "JMI", "JCI", "JSI"} => said = <<>>

\* They are what the reference says.
LEMMA ResultsSaid ==
  ASSUME NEW op, NEW after, NEW h, NEW a, NEW b, NEW c
  PROVE  Said(op, Reference!Results(op, after, h, a, b, c), after, a, b, c)
  BY SameWords, SameValues DEF Said, Reference!Results, Comparisons, Arithmetic

\* Shuffling the operands around is a step of the reference.
LEMMA ShuffleStep ==
  ASSUME TypeOK, NEW op \in Opcodes, Fetch(op), Shuffle(op)
  PROVE  Reference!Step(op)
  <1> DEFINE taken == Same(op, Arity(op))
             x == Popped(On(op), taken)
             results == Shuffled(op, x)
             w == Width(op)
             h == [ptr EXCEPT ![On(op)] = After(op, taken)]
             said == Reference!Results(op, next, h, Operand(op, 1), Operand(op, 2), Operand(op, 3))
  <1>1. /\ op.base \in Shuffles
        /\ Replace(op, taken, w, results) /\ results \in Seq(Int)
        /\ pc' = next /\ running' = running /\ mem' = mem /\ dev' = dev
    BY ShuffleTyped
  <1>2. w \in Widths /\ op.base \in Plain /\ op.base \notin {"DEO", "BRK"}
    BY <1>1, OpTypes DEF Plain, Shuffles
  <1>3. Same(op, 1) = <<w>> /\ Same(op, 2) = <<w, w>> /\ Same(op, 3) = <<w, w, w>>
    BY SameTaken
  <1>4. Said(op, said, next, Operand(op, 1), Operand(op, 2), Operand(op, 3))
    BY ResultsSaid
  <1>5. Mirrored(Reference!Operands(op), taken) /\ said = Reference!ByteSeq(w, results)
    <2>1. ASSUME op.base \in {"INC", "POP", "DUP"}
          PROVE  Mirrored(Reference!Operands(op), taken) /\ said = Reference!ByteSeq(w, results)
      <3>1. Reference!Operands(op) = <<w>> /\ taken = <<w>>
        BY <1>3, <2>1, SameWords DEF Reference!Operands, Arity
      <3>2. Mirrored(Reference!Operands(op), taken) /\ Operand(op, 1) = x[1]
        BY <1>2, <3>1, OneOperand
      <3>3. Reference!ByteSeq(w, <<>>) = <<>>
        BY <1>2, OpTypes, Untouched DEF TypeOK
      <3> HIDE DEF taken, x, said
      <3>4. QED
        BY <1>4, <2>1, <3>2, <3>3 DEF Said, Shuffled
    <2>2. ASSUME op.base = "ROT"
          PROVE  Mirrored(Reference!Operands(op), taken) /\ said = Reference!ByteSeq(w, results)
      <3>1. Reference!Operands(op) = <<w, w, w>> /\ taken = <<w, w, w>>
        BY <1>3, <2>2, SameWords DEF Reference!Operands, Arity
      <3>2. /\ Mirrored(Reference!Operands(op), taken)
            /\ Operand(op, 1) = x[3] /\ Operand(op, 2) = x[2] /\ Operand(op, 3) = x[1]
        BY <1>2, <3>1, ThreeOperands
      <3> HIDE DEF taken, x, said
      <3>3. QED
        BY <1>4, <2>2, <3>2 DEF Said, Shuffled
    <2>3. ASSUME op.base \in {"NIP", "SWP", "OVR"}
          PROVE  Mirrored(Reference!Operands(op), taken) /\ said = Reference!ByteSeq(w, results)
      <3>1. Reference!Operands(op) = <<w, w>> /\ taken = <<w, w>>
        BY <1>3, <2>3, SameWords DEF Reference!Operands, Arity
      <3>2. /\ Mirrored(Reference!Operands(op), taken)
            /\ Operand(op, 1) = x[2] /\ Operand(op, 2) = x[1]
        BY <1>2, <3>1, TwoOperands
      <3> HIDE DEF taken, x, said
      <3>3. QED
        BY <1>4, <2>3, <3>2 DEF Said, Shuffled
    <2>4. QED
      BY <1>1, <2>1, <2>2, <2>3 DEF Shuffles
  <1>6. Answers(op, taken, w, results)
    BY <1>1, <1>2, <1>5, PlainSays DEF Answers
  <1> HIDE DEF taken, results
  <1>7. QED
    BY <1>1, <1>2, <1>5, <1>6, Replacing

\* The bytes of a value that is one, or two.
LEMMA BytesOf ==
  /\ \A v \in Bytes : Reference!ByteSeq(1, <<v>>) = <<v>>
  /\ \A v \in Int : Reference!ByteSeq(2, <<v>>) = <<Hi(v), Lo(v)>>
  /\ \A h, l \in Bytes : Reference!ByteSeq(2, <<h * Byte + l>>) = <<h, l>>
  <1>1. ASSUME NEW v \in Bytes
        PROVE  Reference!ByteSeq(1, <<v>>) = <<v>>
    <2> DEFINE vs == <<v>>
               s == Reference!ByteSeq(1, vs)
    <2>1. 1 \in Widths /\ vs \in Seq(Int) /\ Len(vs) = 1 /\ vs[1] = v /\ 1 \in 1 .. Len(vs)
      BY <1>1, Nats DEF Widths
    <2> HIDE DEF vs
    <2>2. s \in Seq(Bytes) /\ Len(s) = 1 * 1 /\ s[1] = Lo(vs[1])
      BY <2>1, ByteSeqType
    <2>3. Lo(v) = v
      BY <1>1, Numbers, Digits
    <2> HIDE DEF s
    <2>4. s = <<v>>
      BY <2>1, <2>2, <2>3
    <2>5. QED
      BY <2>4 DEF s, vs
  <1>2. ASSUME NEW v \in Int
        PROVE  Reference!ByteSeq(2, <<v>>) = <<Hi(v), Lo(v)>>
    <2> DEFINE vs == <<v>>
               s == Reference!ByteSeq(2, vs)
    <2>1. 2 \in Widths /\ vs \in Seq(Int) /\ Len(vs) = 1 /\ vs[1] = v /\ 1 \in 1 .. Len(vs)
      BY DEF Widths
    <2>2. Hi(v) \in Bytes /\ Lo(v) \in Bytes
      BY DigitsType
    <2> HIDE DEF vs
    <2>3. s \in Seq(Bytes) /\ Len(s) = 2 /\ s[1] = Hi(v) /\ s[2] = Lo(v)
      <3>1. s \in Seq(Bytes) /\ Len(s) = 2 * 1
        BY <2>1, ByteSeqType
      <3>2. s[2 * 1 - 1] = Hi(vs[1]) /\ s[2 * 1] = Lo(vs[1])
        BY <2>1, ByteSeqType
      <3> HIDE DEF s
      <3>3. QED
        BY <2>1, <3>1, <3>2
    <2> HIDE DEF s
    <2>4. s = <<Hi(v), Lo(v)>>
      BY <2>2, <2>3
    <2>5. QED
      BY <2>4 DEF s, vs
  <1>3. ASSUME NEW h \in Bytes, NEW l \in Bytes
        PROVE  Reference!ByteSeq(2, <<h * Byte + l>>) = <<h, l>>
    <2> DEFINE v == h * Byte + l
    <2>1. v \in Int /\ Hi(v) = h /\ Lo(v) = l
      BY <1>3, Nats, ByteType, Digits
    <2> HIDE DEF v
    <2>2. Reference!ByteSeq(2, <<v>>) = <<h, l>>
      BY <1>2, <2>1
    <2>3. QED
      BY <2>2 DEF v
  <1>4. QED
    BY <1>1, <1>2, <1>3

\* Two bytes hold a number up to turns of a short.
LEMMA DigitsWrap ==
  ASSUME NEW v \in Int
  PROVE  Hi(v % Short) = Hi(v) /\ Lo(v % Short) = Lo(v)
  <1> DEFINE k == v \div Short
             r == v % Short
             q == r \div Byte
             t == r % Byte
             turns == Byte * k
             high == q + turns
  <1> HIDE DEF Byte
  <1>1. k \in Int /\ r \in Int /\ v = Short * k + r
    BY ShortType, Quotient
  <1> HIDE DEF k, r
  <1>2. q \in Int /\ t \in 0 .. Byte - 1 /\ r = Byte * q + t
    BY <1>1, ByteType, Quotient
  <1> HIDE DEF q, t
  <1>3. turns \in Int /\ Short * k = Byte * turns
    BY <1>1, ByteType DEF Short
  <1> HIDE DEF turns
  <1>4. high \in Int /\ v = Byte * high + t
    BY <1>1, <1>2, <1>3, ByteType
  <1>5. high % Byte = q % Byte
    <2>1. Byte \in Nat /\ Byte > 0
      BY ByteType
    <2>2. (q + Byte * k) % Byte = q % Byte
      BY <1>1, <1>2, <2>1, Turns, Zenon
    <2>3. QED
      BY <2>2 DEF turns
  <1> HIDE DEF high
  <1>6. v \div Byte = high /\ v % Byte = t
    BY <1>2, <1>4, ByteType, Divided
  <1>7. r \div Byte = q /\ r % Byte = t
    BY <1>2, ByteType, Divided
  <1>8. QED
    BY <1>5, <1>6, <1>7 DEF Hi, Lo, r

\* Calculating and comparing are steps of the reference.
LEMMA CalculateStep ==
  ASSUME TypeOK, NEW op \in Opcodes, Fetch(op), Calculate(op)
  PROVE  Reference!Step(op)
  <1> DEFINE taken == Same(op, 2)
             x == Popped(On(op), taken)
             truth == IF Holds(op.base, x[2], x[1]) THEN 1 ELSE 0
             value == Compute(op.base, x[2], x[1])
             w == Width(op)
             h == [ptr EXCEPT ![On(op)] = After(op, taken)]
             said == Reference!Results(op, next, h, Operand(op, 1), Operand(op, 2), Operand(op, 3))
  <1>1. w \in Widths /\ 1 \in Widths /\ On(op) \in Stacks
    BY OpTypes DEF Widths
  <1>2. /\ op.base \in Comparisons \union Arithmetic
        /\ IF op.base \in Comparisons THEN Replace(op, taken, 1, <<truth>>)
           ELSE Replace(op, taken, w, <<value>>)
        /\ pc' = next /\ running' = running /\ mem' = mem /\ dev' = dev
    BY DEF Calculate
  <1>3. op.base \in Plain /\ op.base \notin {"DEO", "BRK"}
    BY <1>2 DEF Plain, Comparisons, Arithmetic
  <1>4. Said(op, said, next, Operand(op, 1), Operand(op, 2), Operand(op, 3))
    BY ResultsSaid
  <1>5. Reference!Operands(op) = <<w, w>> /\ taken = <<w, w>>
    BY <1>2, SameWords, SameTaken DEF Reference!Operands, Comparisons, Arithmetic
  <1>6. /\ Mirrored(Reference!Operands(op), taken)
        /\ Operand(op, 1) = x[2] /\ Operand(op, 2) = x[1]
    BY <1>1, <1>5, TwoOperands
  <1>7. x[1] \in Shorts /\ x[2] \in Shorts
    BY <1>1, <1>5, TwoPopped
  <1> HIDE DEF taken, x, said
  <1>8. CASE op.base \in Comparisons
    <2>1. truth \in Bytes
      BY Numbers
    <2>2. said = <<truth>>
      BY <1>4, <1>6, <1>8 DEF Said
    <2> HIDE DEF truth
    <2>3. said = Reference!ByteSeq(1, <<truth>>) /\ <<truth>> \in Seq(Int)
      BY <2>1, <2>2, BytesOf, Nats
    <2>4. Answers(op, taken, 1, <<truth>>)
      BY <1>2, <1>3, <2>3, PlainSays DEF Answers, said
    <2>5. QED
      BY <1>1, <1>2, <1>3, <1>6, <1>8, <2>3, <2>4, Replacing
  <1>9. CASE op.base \in Arithmetic /\ op.base \notin Comparisons
    <2>1. value \in Int
      BY <1>7, <1>9, ComputeType
    <2>2. said = Reference!ByteSeq(w, <<value>>)
      BY <1>4, <1>6, <1>9 DEF Said
    <2> HIDE DEF value
    <2>3. <<value>> \in Seq(Int)
      BY <2>1
    <2>4. Answers(op, taken, w, <<value>>)
      BY <1>2, <1>3, <2>2, PlainSays DEF Answers, said
    <2>5. QED
      BY <1>1, <1>2, <1>3, <1>6, <1>9, <2>3, <2>4, Replacing
  <1>10. QED
    BY <1>2, <1>8, <1>9

\* Shifting is a step of the reference.
LEMMA ShiftBitsStep ==
  ASSUME TypeOK, NEW op \in Opcodes, Fetch(op), ShiftBits(op)
  PROVE  Reference!Step(op)
  <1> DEFINE taken == <<1, Width(op)>>
             x == Popped(On(op), taken)
             value == Shift(x[2], x[1])
             w == Width(op)
             h == [ptr EXCEPT ![On(op)] = After(op, taken)]
             said == Reference!Results(op, next, h, Operand(op, 1), Operand(op, 2), Operand(op, 3))
  <1>1. w \in Widths /\ 1 \in Widths /\ On(op) \in Stacks
    BY OpTypes DEF Widths
  <1>2. /\ op.base = "SFT" /\ Replace(op, taken, w, <<value>>)
        /\ pc' = next /\ running' = running /\ mem' = mem /\ dev' = dev
    BY DEF ShiftBits
  <1>3. op.base \in Plain /\ op.base \notin {"DEO", "BRK"}
    BY <1>2 DEF Plain
  <1>4. Said(op, said, next, Operand(op, 1), Operand(op, 2), Operand(op, 3))
    BY ResultsSaid
  <1>5. Reference!Operands(op) = <<w, 1>>
    BY <1>2, SameWords DEF Reference!Operands
  <1>6. /\ Mirrored(Reference!Operands(op), taken)
        /\ Operand(op, 1) = x[2] /\ Operand(op, 2) = x[1]
    BY <1>1, <1>5, TwoOperands
  <1>7. value \in Int
    <2>1. x[1] \in Bytes /\ x[2] \in Shorts
      BY <1>1, TwoPopped
    <2> HIDE DEF x
    <2>2. QED
      BY <2>1, ShiftType, Nats
  <1> HIDE DEF taken, x, said
  <1>8. said = Reference!ByteSeq(w, <<value>>)
    BY <1>2, <1>4, <1>6 DEF Said
  <1> HIDE DEF value
  <1>9. <<value>> \in Seq(Int)
    BY <1>7
  <1>10. Answers(op, taken, w, <<value>>)
    BY <1>2, <1>3, <1>8, PlainSays DEF Answers, said
  <1>11. QED
    BY <1>1, <1>2, <1>3, <1>6, <1>9, <1>10, Replacing

\* Jumping, on a condition or without, is a step of the reference.
LEMMA JumpStep ==
  ASSUME TypeOK, NEW op \in Opcodes, Fetch(op), Jump(op)
  PROVE  Reference!Step(op)
  <1> DEFINE taken == IF op.base = "JCN" THEN <<Width(op), 1>> ELSE <<Width(op)>>
             x == Popped(On(op), taken)
             w == Width(op)
             h == [ptr EXCEPT ![On(op)] = After(op, taken)]
             said == Reference!Results(op, next, h, Operand(op, 1), Operand(op, 2), Operand(op, 3))
  <1>1. w \in Widths /\ 1 \in Widths /\ On(op) \in Stacks
    BY OpTypes DEF Widths
  <1>2. /\ op.base \in {"JMP", "JCN"} /\ Replace(op, taken, 1, <<>>)
        /\ pc' = IF op.base = "JCN" /\ x[2] = 0 THEN next ELSE Target(op, x[1])
        /\ running' = running /\ mem' = mem /\ dev' = dev
    BY DEF Jump
  <1>3. Said(op, said, next, Operand(op, 1), Operand(op, 2), Operand(op, 3))
    BY ResultsSaid
  <1>4. \A v : Target(op, v) = IF op.s THEN v ELSE Reference!Rel(next, v)
    BY SameValues DEF Target
  <1>5. /\ Mirrored(Reference!Operands(op), taken)
        /\ pc' = Reference!Goes(op, next, Operand(op, 1), Operand(op, 2))
    <2>1. ASSUME op.base = "JMP"
          PROVE  /\ Mirrored(Reference!Operands(op), taken)
                 /\ pc' = Reference!Goes(op, next, Operand(op, 1), Operand(op, 2))
      <3>1. Reference!Operands(op) = <<w>> /\ taken = <<w>>
        BY <2>1, SameWords DEF Reference!Operands
      <3>2. Mirrored(Reference!Operands(op), taken) /\ Operand(op, 1) = x[1]
        BY <1>1, <3>1, OneOperand
      <3> HIDE DEF taken, x
      <3>3. QED
        BY <1>2, <1>4, <2>1, <3>2 DEF Reference!Goes
    <2>2. ASSUME op.base = "JCN"
          PROVE  /\ Mirrored(Reference!Operands(op), taken)
                 /\ pc' = Reference!Goes(op, next, Operand(op, 1), Operand(op, 2))
      <3>1. Reference!Operands(op) = <<1, w>> /\ taken = <<w, 1>>
        BY <2>2, SameWords DEF Reference!Operands
      <3>2. /\ Mirrored(Reference!Operands(op), taken)
            /\ Operand(op, 1) = x[2] /\ Operand(op, 2) = x[1]
        BY <1>1, <3>1, TwoOperands
      <3> HIDE DEF taken, x
      <3>3. QED
        BY <1>2, <1>4, <2>2, <3>2 DEF Reference!Goes
    <2>3. QED
      BY <1>2, <2>1, <2>2
  <1>6. Reference!ByteSeq(1, <<>>) = <<>> /\ <<>> \in Seq(Int)
    BY <1>1, Untouched DEF TypeOK
  <1> HIDE DEF taken, x, said
  <1>7. said = Reference!ByteSeq(1, <<>>)
    BY <1>2, <1>3, <1>6 DEF Said
  <1>8. /\ Reference!Stashed(op, next, Operand(op, 1)) = <<>>
        /\ Reference!Writes(op, next, Operand(op, 1), Operand(op, 2)) = mem
    BY <1>2 DEF Reference!Stashed, Reference!Writes
  <1>9. Answers(op, taken, 1, <<>>)
    BY <1>2, <1>5, <1>7, <1>8 DEF Answers, said
  <1>10. QED
    BY <1>1, <1>2, <1>5, <1>6, <1>9, Replacing

\* Loading from the memory is a step of the reference.
LEMMA LoadMemoryStep ==
  ASSUME TypeOK, NEW op \in Opcodes, Fetch(op), LoadMemory(op)
  PROVE  Reference!Step(op)
  <1> DEFINE taken == <<AddrWidth(op)>>
             x == Popped(On(op), taken)
             value == Load(mem, Reached(op, x[1]), Width(op), Wraps(op))
             w == Width(op)
             h == [ptr EXCEPT ![On(op)] = After(op, taken)]
             said == Reference!Results(op, next, h, Operand(op, 1), Operand(op, 2), Operand(op, 3))
  <1>1. w \in Widths /\ AddrWidth(op) \in Widths /\ On(op) \in Stacks
    BY OpTypes DEF AddrWidth, Widths
  <1>2. /\ op.base \in {"LDZ", "LDR", "LDA"} /\ Replace(op, taken, w, <<value>>)
        /\ pc' = next /\ running' = running /\ mem' = mem /\ dev' = dev
    BY DEF LoadMemory
  <1>3. op.base \in Plain /\ op.base \notin {"DEO", "BRK"}
    BY <1>2 DEF Plain
  <1>4. Said(op, said, next, Operand(op, 1), Operand(op, 2), Operand(op, 3))
    BY ResultsSaid
  <1>5. Reference!Operands(op) = <<AddrWidth(op)>>
    BY <1>2 DEF Reference!Operands, AddrWidth
  <1>6. Mirrored(Reference!Operands(op), taken) /\ Operand(op, 1) = x[1]
    BY <1>1, <1>5, OneOperand
  <1>7. value \in Int
    <2>1. x[1] \in Shorts
      BY <1>1, TwoPopped
    <2> HIDE DEF x
    <2>2. QED
      BY <1>1, <2>1, ReachedType, MemoryRead, MachineTyped DEF MachineOK
  <1> HIDE DEF taken, x, said
  <1>8. said = Reference!ByteSeq(w, <<value>>)
    BY <1>2, <1>4, <1>6 DEF Said, Reached, Wraps
  <1> HIDE DEF value
  <1>9. <<value>> \in Seq(Int)
    BY <1>7
  <1>10. Answers(op, taken, w, <<value>>)
    BY <1>2, <1>3, <1>8, PlainSays DEF Answers, said
  <1>11. QED
    BY <1>1, <1>2, <1>3, <1>6, <1>9, <1>10, Replacing

\* Storing to the memory is a step of the reference.
LEMMA StoreMemoryStep ==
  ASSUME TypeOK, NEW op \in Opcodes, Fetch(op), StoreMemory(op)
  PROVE  Reference!Step(op)
  <1> DEFINE taken == <<AddrWidth(op), Width(op)>>
             x == Popped(On(op), taken)
             w == Width(op)
             h == [ptr EXCEPT ![On(op)] = After(op, taken)]
             said == Reference!Results(op, next, h, Operand(op, 1), Operand(op, 2), Operand(op, 3))
  <1>1. w \in Widths /\ 1 \in Widths /\ AddrWidth(op) \in Widths /\ On(op) \in Stacks
    BY OpTypes DEF AddrWidth, Widths
  <1>2. /\ op.base \in {"STZ", "STR", "STA"} /\ Replace(op, taken, 1, <<>>)
        /\ mem' = Store(mem, Reached(op, x[1]), w, Wraps(op), x[2])
        /\ pc' = next /\ running' = running /\ dev' = dev
    BY DEF StoreMemory
  <1>3. Said(op, said, next, Operand(op, 1), Operand(op, 2), Operand(op, 3))
    BY ResultsSaid
  <1>4. Reference!Operands(op) = <<w, AddrWidth(op)>>
    BY <1>2, SameWords DEF Reference!Operands, AddrWidth
  <1>5. /\ Mirrored(Reference!Operands(op), taken)
        /\ Operand(op, 1) = x[2] /\ Operand(op, 2) = x[1]
    BY <1>1, <1>4, TwoOperands
  <1>6. Reference!ByteSeq(1, <<>>) = <<>> /\ <<>> \in Seq(Int)
    BY <1>1, Untouched DEF TypeOK
  <1> HIDE DEF taken, x, said
  <1>7. said = Reference!ByteSeq(1, <<>>)
    BY <1>2, <1>3, <1>6 DEF Said
  <1>8. /\ Reference!Stashed(op, next, Operand(op, 1)) = <<>>
        /\ Reference!Goes(op, next, Operand(op, 1), Operand(op, 2)) = next
    BY <1>2 DEF Reference!Stashed, Reference!Goes
  <1>9. mem' = Reference!Writes(op, next, Operand(op, 1), Operand(op, 2))
    BY <1>2, <1>5, SameWords, SameValues DEF Reference!Writes, Reached, Wraps
  <1>10. Answers(op, taken, 1, <<>>)
    BY <1>2, <1>7, <1>8, <1>9 DEF Answers, said
  <1>11. QED
    BY <1>1, <1>2, <1>5, <1>6, <1>10, Replacing

\* An instruction that puts nothing on its own stack, but may on the other one,
\* is a step of the reference if it does what that says.
LEMMA Stashing ==
  ASSUME TypeOK, NEW op \in Opcodes, Fetch(op), op.base # "DEO",
         running' = (op.base # "BRK"), running' = running \/ saved' = ptr',
         NEW taken, Mirrored(Reference!Operands(op), taken),
         NEW width \in Widths, NEW values \in Seq(Int),
         data' = [data EXCEPT ![Off(op)] = Pushed(data[Off(op)], ptr[Off(op)], width, values)],
         ptr' = [ptr EXCEPT ![On(op)] = After(op, taken),
                            ![Off(op)] = (ptr[Off(op)] + Len(values) * width) % Byte],
         Says(op, taken, 1, <<>>, width, values)
  PROVE  Reference!Step(op)
  <1> DEFINE p == After(op, taken)
  <1>1. /\ On(op) \in Stacks /\ Off(op) \in Stacks /\ On(op) # Off(op)
        /\ Stacks = {On(op), Off(op)}
    BY OpTypes
  <1>2. /\ ptr \in [Stacks -> Bytes] /\ data \in [Stacks -> [Bytes -> Bytes]]
    BY DEF TypeOK
  <1>3. 1 \in Widths /\ p \in Bytes
    BY AfterType DEF Widths, Mirrored
  <1>4. /\ Pushed(data[On(op)], p, 1, <<>>) = data[On(op)]
        /\ (p + Len(<<>>) * 1) % Byte = p
        /\ <<>> \in Seq(Int)
    BY <1>1, <1>2, <1>3, Untouched
  <1> HIDE DEF p
  <1>5. Leaves(op, taken, 1, <<>>, width, values)
    <2>1. \A s \in Stacks :
            data'[s] = IF s = On(op) THEN Pushed(data[s], p, 1, <<>>)
                       ELSE Pushed(data[s], ptr[s], width, values)
      BY <1>1, <1>2, <1>4
    <2>2. \A s \in Stacks :
            ptr'[s] = IF s = On(op) THEN (p + Len(<<>>) * 1) % Byte
                      ELSE (ptr[s] + Len(values) * width) % Byte
      BY <1>1, <1>2, <1>4 DEF p
    <2>3. QED
      BY <1>2, <2>1, <2>2 DEF Leaves, p
  <1>6. running /\ instr' = op
    BY DEF Fetch
  <1>7. \A s \in Stacks : Pointer(s)' = ptr'[s]
    BY <1>6 DEF Pointer
  <1>8. QED
    BY <1>3, <1>4, <1>5, <1>6, <1>7, Instruction

\* Stashing a value, or the place to return to, is a step of the reference.
LEMMA StashStep ==
  ASSUME TypeOK, NEW op \in Opcodes, Fetch(op), Stash(op)
  PROVE  Reference!Step(op)
  <1> DEFINE w == Width(op)
             taken == <<w>>
             x == Popped(On(op), taken)
             width == IF op.base = "JSR" THEN 2 ELSE w
             v == IF op.base = "JSR" THEN next ELSE x[1]
             h == [ptr EXCEPT ![On(op)] = After(op, taken)]
             said == Reference!Results(op, next, h, Operand(op, 1), Operand(op, 2), Operand(op, 3))
  <1>1. w \in Widths /\ 1 \in Widths /\ width \in Widths /\ On(op) \in Stacks
    BY OpTypes DEF Widths
  <1>2. /\ op.base \in {"JSR", "STH"}
        /\ data' = [data EXCEPT ![Off(op)] = Pushed(data[Off(op)], ptr[Off(op)], width, <<v>>)]
        /\ ptr' = [ptr EXCEPT ![On(op)] = After(op, taken),
                              ![Off(op)] = (ptr[Off(op)] + width) % Byte]
        /\ pc' = IF op.base = "JSR" THEN Target(op, x[1]) ELSE next
        /\ running' = running /\ mem' = mem /\ dev' = dev
    BY DEF Stash
  <1>3. Said(op, said, next, Operand(op, 1), Operand(op, 2), Operand(op, 3))
    BY ResultsSaid
  <1>4. Reference!Operands(op) = <<w>>
    BY <1>2, SameWords DEF Reference!Operands
  <1>5. Mirrored(Reference!Operands(op), taken) /\ Operand(op, 1) = x[1]
    BY <1>1, <1>4, OneOperand
  <1>6. v \in Int
    <2>1. x[1] \in Int
      BY <1>1, TwoPopped, Nats
    <2> HIDE DEF x
    <2>2. QED
      BY <2>1, NextType
  <1>7. Reference!ByteSeq(1, <<>>) = <<>>
    BY <1>1, Untouched DEF TypeOK
  <1>8. \A a : Target(op, a) = IF op.s THEN a ELSE Reference!Rel(next, a)
    BY SameValues DEF Target
  <1> HIDE DEF taken, x, said
  <1>9. said = Reference!ByteSeq(1, <<>>)
    BY <1>2, <1>3, <1>7 DEF Said
  <1>10. Reference!Stashed(op, next, Operand(op, 1)) = Reference!ByteSeq(width, <<v>>)
    BY <1>2, <1>5, SameWords DEF Reference!Stashed
  <1>11. pc' = Reference!Goes(op, next, Operand(op, 1), Operand(op, 2))
    BY <1>2, <1>5, <1>8 DEF Reference!Goes
  <1>12. Reference!Writes(op, next, Operand(op, 1), Operand(op, 2)) = mem
    BY <1>2 DEF Reference!Writes
  <1> HIDE DEF v, width, w
  <1>13. Says(op, taken, 1, <<>>, width, <<v>>)
    BY <1>2, <1>9, <1>10, <1>11, <1>12 DEF Says, said
  <1>14. <<v>> \in Seq(Int) /\ Len(<<v>>) * width = width
    BY <1>1, <1>6 DEF Widths
  <1>15. running' = (op.base # "BRK") /\ op.base # "DEO" /\ running' = running
    BY <1>2 DEF Fetch
  <1>16. ptr' = [ptr EXCEPT ![On(op)] = After(op, taken),
                            ![Off(op)] = (ptr[Off(op)] + Len(<<v>>) * width) % Byte]
    BY <1>2, <1>14
  <1>17. QED
    BY <1>1, <1>2, <1>5, <1>13, <1>14, <1>15, <1>16, Stashing

\* With no operands the pointer stays where it is.
LEMMA AfterNothing ==
  ASSUME TypeOK, NEW op \in Opcodes
  PROVE  After(op, <<>>) = ptr[On(op)]
  <1>1. ptr[On(op)] \in Bytes /\ ptr[On(op)] \in Int
    BY OpTypes, Nats DEF TypeOK
  <1>2. <<>> \in Seq(Widths) /\ Len(<<>>) = 0
    OBVIOUS
  <1>3. Total(<<>>)[0] = 0
    BY <1>2, TotalExact
  <1>4. ptr[On(op)] - 0 = ptr[On(op)] /\ ptr[On(op)] % Byte = ptr[On(op)]
    BY <1>1, ByteStays
  <1>5. QED
    BY <1>2, <1>3, <1>4 DEF After

\* The end of a vector is a step of the reference.
LEMMA BreakStep ==
  ASSUME TypeOK, NEW op \in Opcodes, Fetch(op), Break(op)
  PROVE  Reference!Step(op)
  <1> DEFINE h == [ptr EXCEPT ![On(op)] = After(op, <<>>)]
             said == Reference!Results(op, next, h, Operand(op, 1), Operand(op, 2), Operand(op, 3))
  <1>1. /\ op.base = "BRK" /\ running' = FALSE /\ saved' = ptr
        /\ pc' = next /\ data' = data /\ ptr' = ptr /\ mem' = mem /\ dev' = dev
    BY DEF Break
  <1>2. /\ On(op) \in Stacks /\ Off(op) \in Stacks /\ 1 \in Widths
        /\ ptr \in [Stacks -> Bytes] /\ data \in [Stacks -> [Bytes -> Bytes]]
    BY OpTypes DEF Widths, TypeOK
  <1>3. Reference!Operands(op) = <<>>
    BY <1>1 DEF Reference!Operands
  <1>4. Mirrored(Reference!Operands(op), <<>>)
    BY <1>3, NoOperand
  <1>5. /\ Pushed(data[Off(op)], ptr[Off(op)], 1, <<>>) = data[Off(op)]
        /\ (ptr[Off(op)] + Len(<<>>) * 1) % Byte = ptr[Off(op)]
        /\ Reference!ByteSeq(1, <<>>) = <<>> /\ <<>> \in Seq(Int)
    BY <1>2, Untouched
  <1>6. Said(op, said, next, Operand(op, 1), Operand(op, 2), Operand(op, 3))
    BY ResultsSaid
  <1> HIDE DEF said
  <1>7. said = <<>>
    BY <1>1, <1>6 DEF Said
  <1>8. /\ Reference!Stashed(op, next, Operand(op, 1)) = <<>>
        /\ Reference!Goes(op, next, Operand(op, 1), Operand(op, 2)) = next
        /\ Reference!Writes(op, next, Operand(op, 1), Operand(op, 2)) = mem
    BY <1>1 DEF Reference!Stashed, Reference!Goes, Reference!Writes
  <1>9. Says(op, <<>>, 1, <<>>, 1, <<>>)
    BY <1>1, <1>5, <1>7, <1>8 DEF Says, said
  <1>10. data' = [data EXCEPT ![Off(op)] = Pushed(data[Off(op)], ptr[Off(op)], 1, <<>>)]
    BY <1>1, <1>2, <1>5
  <1>11. ptr' = [ptr EXCEPT ![On(op)] = After(op, <<>>),
                            ![Off(op)] = (ptr[Off(op)] + Len(<<>>) * 1) % Byte]
    BY <1>1, <1>2, <1>5, AfterNothing
  <1>12. QED
    BY <1>1, <1>2, <1>4, <1>5, <1>9, <1>10, <1>11, Stashing

\* What comes with an opcode in the memory, a literal or a place to go to, makes
\* a step of the reference too.
LEMMA ImmediateStep ==
  ASSUME TypeOK, NEW op \in Opcodes, Fetch(op), Immediate(op)
  PROVE  Reference!Step(op)
  <1> DEFINE w == Width(op)
             where == Load(mem, next, 2, Short)
             onward == (next + 2) % Short
             there == (onward + where) % Short
             cond == Popped("ws", <<1>>)[1]
             literal == Load(mem, next, w, Short)
             h(taken) == [ptr EXCEPT ![On(op)] = After(op, taken)]
             said(taken) == Reference!Results(op, next, h(taken), Operand(op, 1), Operand(op, 2),
                                              Operand(op, 3))
  <1>1. 1 \in Widths /\ 2 \in Widths /\ w \in Widths
    BY OpTypes DEF Widths
  <1>2. /\ On(op) \in Stacks /\ Off(op) \in Stacks
        /\ ptr \in [Stacks -> Bytes] /\ data \in [Stacks -> [Bytes -> Bytes]]
    BY OpTypes DEF TypeOK
  <1>3. /\ running' = running /\ mem' = mem /\ dev' = dev
        /\ op.base \in {"LIT", "JMI", "JCI", "JSI"}
    BY DEF Immediate
  <1>4. running' = (op.base # "BRK") /\ op.base \notin {"DEO", "BRK"}
    BY <1>3 DEF Fetch
  <1>5. /\ \A taken : Said(op, said(taken), next, Operand(op, 1), Operand(op, 2), Operand(op, 3))
        /\ Reference!ByteSeq(1, <<>>) = <<>> /\ <<>> \in Seq(Int)
    BY <1>1, <1>2, Untouched, ResultsSaid
  <1>6. mem \in Memory /\ next \in Int
    BY MachineTyped, NextType DEF MachineOK
  <1>7. where \in Int /\ literal \in Int /\ onward \in Int
    <2>1. where \in Int /\ literal \in Int
      BY <1>1, <1>6, MemoryRead
    <2>2. QED
      BY <2>1, NextType, Nats
  <1>8. there = (onward + Reference!Load(mem, next, 2, Reference!Short)) % Reference!Short
    BY SameValues, SameWords
  <1>9. \/ /\ op.base = "LIT" /\ Replace(op, <<>>, w, <<literal>>) /\ pc' = (next + w) % Short
        \/ op.base = "JMI" /\ pc' = there /\ data' = data /\ ptr' = ptr
        \/ /\ op.base = "JCI" /\ Replace(op, <<1>>, 1, <<>>)
           /\ pc' = IF cond # 0 THEN there ELSE onward
        \/ /\ op.base = "JSI" /\ pc' = there
           /\ data' = [data EXCEPT !["rs"] = Pushed(data["rs"], ptr["rs"], 2, <<onward>>)]
           /\ ptr' = [ptr EXCEPT !["rs"] = (ptr["rs"] + 2) % Byte]
    BY DEF Immediate
  <1>10. /\ op.base \in {"LIT", "JMI", "JSI"} => Reference!Operands(op) = <<>>
         /\ op.base = "JCI" => Reference!Operands(op) = <<1>>
    BY DEF Reference!Operands
  <1>11. op.base \in {"LIT", "JMI", "JCI"} => Reference!Stashed(op, next, Operand(op, 1)) = <<>>
    BY DEF Reference!Stashed
  <1>12. Reference!Writes(op, next, Operand(op, 1), Operand(op, 2)) = mem
    BY <1>3 DEF Reference!Writes
  <1>13. /\ op.base \in {"JMI", "JSI"} =>
              Reference!Goes(op, next, Operand(op, 1), Operand(op, 2)) = there
         /\ op.base = "LIT" =>
              Reference!Goes(op, next, Operand(op, 1), Operand(op, 2)) = (next + w) % Short
         /\ op.base = "JCI" =>
              Reference!Goes(op, next, Operand(op, 1), Operand(op, 2))
                = IF Operand(op, 1) # 0 THEN there ELSE onward
    BY <1>8, SameWords DEF Reference!Goes
  <1> HIDE DEF there, where, said, literal, w
  <1>14. CASE op.base = "LIT"
    <2>1. Mirrored(Reference!Operands(op), <<>>)
      BY <1>10, <1>14, NoOperand
    <2>2. said(<<>>) = Reference!ByteSeq(w, <<literal>>)
      BY <1>5, <1>14, SameValues DEF Said, literal, w
    <2>3. Answers(op, <<>>, w, <<literal>>)
      BY <1>3, <1>9, <1>11, <1>12, <1>13, <1>14, <2>2 DEF Answers, said
    <2>4. <<literal>> \in Seq(Int)
      BY <1>7
    <2>5. QED
      BY <1>1, <1>3, <1>4, <1>9, <1>14, <2>1, <2>3, <2>4, Replacing
  <1>15. CASE op.base = "JCI"
    <2>1. op.r = FALSE
      BY <1>15 DEF Opcodes, Poly, Shuffles, Comparisons, Arithmetic
    <2>2. Mirrored(Reference!Operands(op), <<1>>) /\ Operand(op, 1) = Popped(On(op), <<1>>)[1]
      BY <1>1, <1>10, <1>15, OneOperand
    <2>3. Operand(op, 1) = cond
      BY <2>1, <2>2 DEF On
    <2>4. said(<<1>>) = Reference!ByteSeq(1, <<>>)
      BY <1>5, <1>15 DEF Said
    <2> HIDE DEF cond
    <2>5. Answers(op, <<1>>, 1, <<>>)
      BY <1>3, <1>9, <1>11, <1>12, <1>13, <1>15, <2>3, <2>4 DEF Answers, said
    <2>6. QED
      BY <1>1, <1>3, <1>4, <1>5, <1>9, <1>15, <2>2, <2>5, Replacing
  <1>16. CASE op.base = "JMI"
    <2>1. Mirrored(Reference!Operands(op), <<>>)
      BY <1>10, <1>16, NoOperand
    <2>2. /\ Pushed(data[Off(op)], ptr[Off(op)], 1, <<>>) = data[Off(op)]
          /\ (ptr[Off(op)] + Len(<<>>) * 1) % Byte = ptr[Off(op)]
      BY <1>1, <1>2, Untouched
    <2>3. said(<<>>) = Reference!ByteSeq(1, <<>>)
      BY <1>5, <1>16 DEF Said
    <2>4. Says(op, <<>>, 1, <<>>, 1, <<>>)
      BY <1>3, <1>5, <1>9, <1>11, <1>12, <1>13, <1>16, <2>3 DEF Says, said
    <2>5. data' = [data EXCEPT ![Off(op)] = Pushed(data[Off(op)], ptr[Off(op)], 1, <<>>)]
      BY <1>2, <1>9, <1>16, <2>2
    <2>6. ptr' = [ptr EXCEPT ![On(op)] = After(op, <<>>),
                             ![Off(op)] = (ptr[Off(op)] + Len(<<>>) * 1) % Byte]
      BY <1>2, <1>9, <1>16, <2>2, AfterNothing
    <2>7. QED
      BY <1>1, <1>3, <1>4, <1>5, <2>1, <2>4, <2>5, <2>6, Stashing
  <1>17. CASE op.base = "JSI"
    <2>1. op.r = FALSE
      BY <1>17 DEF Opcodes, Poly, Shuffles, Comparisons, Arithmetic
    <2>2. On(op) = "ws" /\ Off(op) = "rs"
      BY <2>1 DEF On, Off
    <2>3. Mirrored(Reference!Operands(op), <<>>)
      BY <1>10, <1>17, NoOperand
    <2>4. said(<<>>) = Reference!ByteSeq(1, <<>>)
      BY <1>5, <1>17 DEF Said
    <2>5. Reference!Stashed(op, next, Operand(op, 1)) = Reference!ByteSeq(2, <<onward>>)
      <3> DEFINE v == next + 2
      <3>1. v \in Int /\ onward = v % Short
        BY <1>6
      <3>2. Reference!Stashed(op, next, Operand(op, 1)) = Reference!ByteSeq(2, <<v>>)
        BY <1>17 DEF Reference!Stashed
      <3> HIDE DEF v, onward
      <3>3. Hi(onward) = Hi(v) /\ Lo(onward) = Lo(v)
        BY <3>1, DigitsWrap
      <3>4. QED
        BY <1>7, <3>1, <3>2, <3>3, BytesOf
    <2> HIDE DEF onward
    <2>6. Says(op, <<>>, 1, <<>>, 2, <<onward>>)
      BY <1>3, <1>9, <1>12, <1>13, <1>17, <2>4, <2>5 DEF Says, said
    <2>7. <<onward>> \in Seq(Int) /\ Len(<<onward>>) * 2 = 2
      BY <1>7
    <2>8. data' = [data EXCEPT ![Off(op)] = Pushed(data[Off(op)], ptr[Off(op)], 2, <<onward>>)]
      BY <1>9, <1>17, <2>2
    <2>9. ptr' = [ptr EXCEPT ![On(op)] = After(op, <<>>),
                             ![Off(op)] = (ptr[Off(op)] + Len(<<onward>>) * 2) % Byte]
      <3>1. ptr' = [ptr EXCEPT ![Off(op)] = (ptr[Off(op)] + 2) % Byte]
        BY <1>9, <1>17, <2>2
      <3>2. After(op, <<>>) = ptr[On(op)]
        BY AfterNothing
      <3>3. QED
        BY <1>2, <2>7, <3>1, <3>2
    <2>10. QED
      BY <1>1, <1>3, <1>4, <2>3, <2>6, <2>7, <2>8, <2>9, Stashing
  <1>18. QED
    BY <1>3, <1>14, <1>15, <1>16, <1>17

\* Reading devices is a step of the reference: the ports of the stacks show the
\* pointers as the instruction leaves them.
LEMMA InputStep ==
  ASSUME TypeOK, NEW op \in Opcodes, Fetch(op), Input(op)
  PROVE  Reference!Step(op)
  <1> DEFINE taken == <<1>>
             w == Width(op)
             a == Popped(On(op), taken)[1]
             inLine == [ptr EXCEPT ![On(op)] = After(op, taken)]
             hi == Dei(inLine, a)
             lo == Dei(inLine, (a + 1) % Byte)
             v == IF op.s THEN hi * Byte + lo ELSE hi
             said == Reference!Results(op, next, inLine, Operand(op, 1), Operand(op, 2), Operand(op, 3))
  <1>1. w \in Widths /\ 1 \in Widths /\ On(op) \in Stacks
    BY OpTypes DEF Widths
  <1>2. /\ op.base = "DEI" /\ Replace(op, taken, w, <<v>>)
        /\ pc' = next /\ running' = running /\ mem' = mem /\ dev' = dev
    BY DEF Input
  <1>3. op.base \in Plain /\ op.base \notin {"DEO", "BRK"}
    BY <1>2 DEF Plain
  <1>4. Reference!Operands(op) = <<1>>
    BY <1>2 DEF Reference!Operands
  <1>5. Mirrored(Reference!Operands(op), taken) /\ Operand(op, 1) = a
    BY <1>1, <1>4, OneOperand
  <1>6. a \in Bytes /\ inLine \in [Stacks -> Bytes]
    <2>1. a \in Bytes
      BY <1>1, TwoPopped
    <2>2. <<1>> \in Seq(Widths)
      BY <1>1, Tuples
    <2>3. After(op, taken) \in Bytes
      BY <2>2, AfterType
    <2> HIDE DEF taken
    <2>4. QED
      BY <1>1, <2>1, <2>3 DEF TypeOK
  <1> HIDE DEF taken, a, inLine
  <1>7. hi \in Bytes /\ lo \in Bytes
    <2>1. a + 1 \in Int
      BY <1>6, Nats
    <2>2. (a + 1) % Byte \in Bytes
      BY <2>1, ByteType, Quotient DEF Bytes
    <2>3. QED
      BY <1>6, <2>2, DeiType
  <1>8. said = IF w = 1 THEN <<hi>> ELSE <<hi, lo>>
    <2>1. a + 0 = a /\ a % Byte = a
      BY <1>6, Nats, ByteStays
    <2>2. /\ hi = CASE (a + 0) % Reference!Byte = Reference!WstPort -> inLine["ws"]
                    [] (a + 0) % Reference!Byte = Reference!RstPort -> inLine["rs"]
                    [] OTHER -> dev[(a + 0) % Reference!Byte]
          /\ lo = CASE (a + 1) % Reference!Byte = Reference!WstPort -> inLine["ws"]
                    [] (a + 1) % Reference!Byte = Reference!RstPort -> inLine["rs"]
                    [] OTHER -> dev[(a + 1) % Reference!Byte]
      BY <2>1, SameWords DEF Dei
    <2> HIDE DEF hi, lo
    <2>3. QED
      BY <1>2, <1>5, <2>2, SameWords DEF Reference!Results, Comparisons, Arithmetic
  <1> HIDE DEF hi, lo
  <1>9. v \in Int /\ said = Reference!ByteSeq(w, <<v>>)
    <2>1. CASE op.s
      BY <1>7, <1>8, <2>1, Nats, ByteType, BytesOf DEF Width
    <2>2. CASE ~op.s
      BY <1>7, <1>8, <2>2, Nats, BytesOf DEF Width
    <2>3. QED
      BY <2>1, <2>2
  <1> HIDE DEF v
  <1>10. <<v>> \in Seq(Int)
    BY <1>9
  <1>11. Answers(op, taken, w, <<v>>)
    BY <1>2, <1>3, <1>9, PlainSays DEF Answers, inLine
  <1>12. QED
    BY <1>1, <1>2, <1>3, <1>5, <1>10, <1>11, Replacing

\* Writing to devices is a step of the reference: the ports of the stacks move
\* the pointers, and at most one of the ports is that of the expansion.
LEMMA OutputStep ==
  ASSUME TypeOK, NEW op \in Opcodes, Fetch(op), Output(op)
  PROVE  Reference!Step(op)
  <1> DEFINE after == (pc + 1) % Reference!Short
             widths == Reference!Operands(op)
             v(i) == IF i <= Len(widths) THEN Reference!Value(List[Reference!On(op)], widths, i) ELSE 0
             left == Left(op)
             h == Remaining(op)
             results == Reference!Results(op, after, h, v(1), v(2), v(3))
             stashed == Reference!Stashed(op, after, v(1))
             ports == IF op.base = "DEO"
                      THEN {(v(2) + i) % Reference!Byte : i \in 0 .. Reference!Width(op) - 1} ELSE {}
             d == IF op.base = "DEO"
                  THEN Reference!Store(dev, v(2), Reference!Width(op), Reference!Byte, v(1)) ELSE dev
             at(s) == Reference!Moved(s, d, ports, h[s])
             w == Width(op)
             taken == <<1, w>>
             x == Popped(On(op), taken)
             port == x[1]
             second == (port + 1) % Byte
             inLine == [ptr EXCEPT ![On(op)] = After(op, taken)]
             written == Store(dev, port, w, Byte, x[2])
             p == DeoPtr(inLine, port, written)
             m == DeoMem(mem, port, written)
  <1>1. w \in Widths /\ 1 \in Widths /\ On(op) \in Stacks /\ Off(op) \in Stacks
    BY OpTypes DEF Widths
  <1>2. op.base = "DEO" /\ running /\ instr' = op
    BY DEF Output, Fetch
  <1>3. /\ dev' = written
        /\ saved' = IF op.s THEN DeoPtr(p, second, written) ELSE p
        /\ mem' = IF op.s THEN DeoMem(m, second, written) ELSE m
        /\ ptr' = saved' /\ pc' = next /\ running' = running /\ data' = data
    BY DEF Output
  <1>4. widths = <<w, 1>>
    BY <1>2, SameWords DEF Reference!Operands
  <1>5. /\ Mirrored(Reference!Operands(op), taken)
        /\ Operand(op, 1) = x[2] /\ Operand(op, 2) = port
    BY <1>1, <1>4, TwoOperands
  <1>6. after = next /\ v(1) = x[2] /\ v(2) = port
    <2>1. v(1) = Operand(op, 1) /\ v(2) = Operand(op, 2)
      BY <1>1, <1>2, SameWords, RunningLists DEF Operand
    <2>2. QED
      BY <1>5, <2>1, SameWords DEF next
  <1> HIDE DEF after, v, widths
  <1>7. h = inLine /\ h \in [Stacks -> Bytes]
    BY <1>2, <1>5, WhatRemains
  <1>8. DOMAIN left = Stacks /\ \A s \in Stacks : left[s] = RingOf(data[s], h[s])
    BY <1>2, <1>5, WhatRemains
  <1>9. port \in Bytes /\ second \in Bytes /\ second # port
    <2>1. port \in Bytes
      BY <1>1, TwoPopped
    <2> HIDE DEF port
    <2>2. port + 1 \in Int /\ port \in Int
      BY <2>1, Nats
    <2>3. second \in Bytes
      BY <2>2, ByteType, Quotient DEF Bytes
    <2>4. port % Byte = port
      BY <2>1, ByteStays
    <2>5. second # port
      <3> DEFINE y == port + 1
                 one == 1
      <3>1. y \in Int /\ y - one = port /\ one \in 1 .. Byte - 1 /\ Byte \in Nat /\ Byte > 0
        BY <2>2, ByteType
      <3> HIDE DEF y, one
      <3>2. (y - one) % Byte # y % Byte
        BY <3>1, Apart, Zenon
      <3>3. QED
        BY <2>4, <3>1, <3>2 DEF y
    <2>6. QED
      BY <2>1, <2>3, <2>5
  <1>10. written \in [Bytes -> Bytes]
    <2>1. x[2] \in Int
      BY <1>1, TwoPopped, Nats
    <2>2. port \in Int /\ Byte \in Nat /\ Byte > 0 /\ 0 .. Byte - 1 = Bytes
      BY <1>9, Nats, ByteType DEF Bytes
    <2> HIDE DEF x, port
    <2>3. QED
      BY <1>1, <2>1, <2>2, StoreType DEF TypeOK
  <1> HIDE DEF x, port, inLine, left, h
  <1>11. d = written
    BY <1>2, <1>6, SameWords, SameValues
  <1>12. \A q : q \in ports <=> q = port \/ (op.s /\ q = second)
    <2>1. ports = {(port + i) % Byte : i \in 0 .. w - 1}
      BY <1>2, <1>6, SameWords
    <2>2. (port + 0) % Byte = port
      <3>1. port + 0 = port /\ port % Byte = port
        BY <1>9, Nats, ByteStays
      <3>2. QED
        BY <3>1
    <2>3. CASE op.s
      <3>1. \A i : i \in 0 .. w - 1 <=> i = 0 \/ i = 1
        BY <2>3 DEF Width
      <3> HIDE DEF w, ports
      <3>2. QED
        BY <2>1, <2>2, <2>3, <3>1
    <2>4. CASE ~op.s
      <3>1. \A i : i \in 0 .. w - 1 <=> i = 0
        BY <2>4 DEF Width
      <3> HIDE DEF w, ports
      <3>2. QED
        BY <2>1, <2>2, <2>4, <3>1
    <2>5. QED
      BY <2>3, <2>4
  <1> HIDE DEF second, written, ports, d
  <1>13. \A s \in Stacks : at(s) = ptr'[s] /\ ptr'[s] \in Bytes
    <2>1. ptr' = IF op.s THEN DeoPtr(p, second, written) ELSE p
      BY <1>3
    <2>2. /\ p = DeoPtr(h, port, written) /\ "ws" \in Stacks /\ "rs" \in Stacks
          /\ WstPort # RstPort /\ WstPort \in Bytes /\ RstPort \in Bytes
      <3>1. p = DeoPtr(h, port, written) /\ "ws" \in Stacks /\ "rs" \in Stacks
        BY <1>7 DEF Stacks
      <3>2. WstPort # RstPort /\ WstPort \in Bytes /\ RstPort \in Bytes
        BY PortsAssumption, ByteType DEF WstPort, RstPort, Bytes
      <3>3. QED
        BY <3>1, <3>2
    <2> HIDE DEF p
    <2>3. /\ ptr'["ws"] = IF WstPort \in ports THEN written[WstPort] ELSE h["ws"]
          /\ ptr'["rs"] = IF RstPort \in ports THEN written[RstPort] ELSE h["rs"]
      BY <1>7, <1>12, <2>1, <2>2 DEF DeoPtr
    <2>4. at("ws") = ptr'["ws"] /\ at("rs") = ptr'["rs"]
      BY <1>11, <2>3, SameWords DEF Reference!Moved
    <2>5. ptr'["ws"] \in Bytes /\ ptr'["rs"] \in Bytes
      BY <1>7, <1>10, <2>2, <2>3
    <2>6. QED
      BY <2>4, <2>5 DEF Stacks
  <1> HIDE DEF at
  <1>14. results = <<>> /\ stashed = <<>>
    <2>1. Said(op, results, after, v(1), v(2), v(3))
      BY ResultsSaid
    <2>2. QED
      BY <1>2, <2>1 DEF Said, Reference!Stashed
  <1>15. pc' = Reference!Goes(op, after, v(1), v(2))
    BY <1>2, <1>3, <1>6 DEF Reference!Goes
  <1>16. mem' = Reference!Expand(Reference!Writes(op, after, v(1), v(2)), d, ports)
    <2>1. Reference!Writes(op, after, v(1), v(2)) = mem
      BY <1>2 DEF Reference!Writes
    <2>2. Reference!Expand(mem, d, ports)
            = IF ExpansionPort \in ports
              THEN Expanded(mem, Load(written, ExpansionPort - 1, 2, Byte)) ELSE mem
      BY <1>11, SameWords, SameValues, SameExpansion DEF Reference!Expand
    <2>3. mem' = IF ExpansionPort \in ports
                 THEN Expanded(mem, Load(written, ExpansionPort - 1, 2, Byte)) ELSE mem
      BY <1>3, <1>9, <1>12 DEF DeoMem
    <2>4. QED
      BY <2>1, <2>2, <2>3
  <1> HIDE DEF results, stashed
  <1>17. \A s \in Stacks :
           RingOf(data'[s], ptr'[s])
             = Reference!Put(Reference!Turn(left[s], at(s) - h[s]),
                             IF s = Reference!On(op) THEN results ELSE stashed)
    <2> SUFFICES ASSUME NEW s \in Stacks
                 PROVE  RingOf(data[s], ptr'[s])
                          = Reference!Put(Reference!Turn(left[s], at(s) - h[s]), <<>>)
      BY <1>3, <1>14
    <2> DEFINE from == h[s]
               to == ptr'[s]
               by == to - from
               bytes == data[s]
    <2>1. from \in Int /\ to \in Int
      BY <1>7, <1>13, Nats
    <2>2. left[s] = RingOf(bytes, from) /\ at(s) = to
      BY <1>8, <1>13
    <2> HIDE DEF from, to, bytes
    <2>3. by \in Int /\ from + by = to
      BY <2>1
    <2> HIDE DEF by
    <2>4. Reference!Turn(RingOf(bytes, from), by) = RingOf(bytes, to)
      BY <2>1, <2>3, RingTurned
    <2>5. Reference!Put(RingOf(bytes, to), <<>>) = RingOf(bytes, to)
      BY <2>1, PutNothing
    <2>6. QED
      BY <2>2, <2>4, <2>5 DEF from, to, by, bytes
  <1>18. \A s \in Stacks :
           ptr'[s] = (at(s) + Len(IF s = Reference!On(op) THEN results ELSE stashed)) % Reference!Byte
    <2> SUFFICES ASSUME NEW s \in Stacks
                 PROVE  ptr'[s] = (at(s) + 0) % Reference!Byte
      BY <1>14
    <2>1. at(s) = ptr'[s] /\ at(s) \in Bytes /\ at(s) + 0 = at(s)
      BY <1>13, Nats
    <2>2. at(s) % Byte = at(s)
      BY <2>1, ByteStays
    <2>3. QED
      BY <2>1, <2>2, SameWords
  <1>19. \A s \in Stacks : Pointer(s)' = ptr'[s]
    BY <1>2, <1>3 DEF Pointer
  <1>20. List' = [s \in Reference!Stacks |->
                    Reference!Put(Reference!Turn(left[s], at(s) - h[s]),
                                  IF s = Reference!On(op) THEN results ELSE stashed)]
    BY <1>17, <1>19, SameWords DEF List, RingOf
  <1>21. Height' = [s \in Reference!Stacks |->
                      (at(s) + Len(IF s = Reference!On(op) THEN results ELSE stashed)) % Reference!Byte]
    BY <1>18, <1>19, SameWords DEF Height
  <1>22. running' = (op.base # "BRK") /\ dev' = d
    BY <1>2, <1>3, <1>11
  <1>23. QED
    BY <1>2, <1>15, <1>16, <1>20, <1>21, <1>22
    DEF Reference!Step, List, Height, after, widths, v, left, h, Left, Remaining, Gone,
        results, stashed, ports, d, at

(***************************************************************************)
(* Steps to steps, and the theorem.                                        *)
(***************************************************************************)

\* A step of a program is a step of the reference.
LEMMA StepRefines ==
  ASSUME TypeOK, Step
  PROVE  \E op \in Reference!Opcodes : Reference!Step(op)
  <1>1. PICK op \in Opcodes :
          /\ Fetch(op)
          /\ \/ Shuffle(op) \/ Calculate(op) \/ ShiftBits(op) \/ Jump(op) \/ Stash(op)
             \/ LoadMemory(op) \/ StoreMemory(op) \/ Immediate(op)
             \/ Input(op) \/ Output(op) \/ Break(op)
    BY DEF Step
  <1>2. Reference!Step(op)
    BY <1>1, ShuffleStep, CalculateStep, ShiftBitsStep, JumpStep, StashStep, LoadMemoryStep,
       StoreMemoryStep, ImmediateStep, InputStep, OutputStep, BreakStep
  <1>3. QED
    BY <1>2, SameWords

\* The start of a vector is one too: the interpreter takes the machine's pointers.
LEMMA StartRefines ==
  ASSUME TypeOK, NEW vector \in Vectors, Start(vector)
  PROVE  Reference!Start(vector)
  <1>1. /\ ~running /\ running' = TRUE /\ pc' = vector /\ ptr' = saved
        /\ UNCHANGED <<data, mem, dev, instr>>
    BY DEF Start
  <1>2. \A s \in Stacks : Pointer(s)' = Pointer(s)
    BY <1>1 DEF Pointer
  <1>3. List' = List /\ Height' = Height
    BY <1>1, <1>2 DEF List, Height
  <1>4. QED
    BY <1>1, <1>3 DEF Reference!Start, List, Height

\* So is a reset.
LEMMA ResetRefines ==
  ASSUME TypeOK, NEW all \in BOOLEAN, Reset(all)
  PROVE  Reference!Reset(all)
  <1>1. /\ ~running /\ saved' = [s \in Stacks |-> 0]
        /\ data' = [s \in Stacks |-> [i \in 0 .. Byte - 1 |-> 0]]
        /\ dev' = IF all THEN [i \in 0 .. Byte - 1 |-> 0] ELSE dev
        /\ mem' = [i \in 0 .. MemSize - 1 |-> IF all \/ i >= ResetVector THEN 0 ELSE mem[i]]
        /\ UNCHANGED <<running, pc, instr>>
    BY DEF Reset
  <1>2. \A s \in Stacks : Pointer(s)' = 0
    BY <1>1 DEF Pointer
  <1>3. \A i \in 1 .. Byte : (0 - i) % Byte \in 0 .. Byte - 1
    <2> SUFFICES ASSUME NEW i \in 1 .. Byte
                 PROVE  (0 - i) % Byte \in 0 .. Byte - 1
      OBVIOUS
    <2>1. 0 - i \in Int
      BY ByteType
    <2>2. QED
      BY <2>1, ByteType, Quotient
  <1>4. \A s \in Stacks, i \in 1 .. Byte : data'[s][(Pointer(s)' - i) % Byte] = 0
    BY <1>1, <1>2, <1>3
  <1>5. List' = [s \in Stacks |-> [i \in 1 .. Byte |-> 0]] /\ Height' = [s \in Stacks |-> 0]
    BY <1>2, <1>4 DEF List, Height
  <1>6. QED
    BY <1>1, <1>5, SameWords DEF Reference!Reset, List, Height

\* So is a write of the debugger: what it does to the machine's pointers while a
\* vector runs, the interpreter does not see.
LEMMA DevWriteRefines ==
  ASSUME TypeOK, NEW port \in 0 .. Byte - 1, NEW v \in Inputs, DevWrite(port, v)
  PROVE  Reference!DevWrite(port, v)
  <1>1. /\ running /\ dev' = [dev EXCEPT ![port] = v] /\ mem' = DeoMem(mem, port, dev')
        /\ UNCHANGED <<running, pc, data, ptr, instr>>
    BY DEF DevWrite
  <1>2. \A s \in Stacks : Pointer(s)' = Pointer(s)
    BY <1>1 DEF Pointer
  <1>3. List' = List /\ Height' = Height
    BY <1>1, <1>2 DEF List, Height
  <1>4. mem' = Reference!Expand(mem, dev', {port})
    <2>1. \A d : Reference!Expand(mem, d, {port})
                   = IF ExpansionPort = port
                     THEN Expanded(mem, Load(d, ExpansionPort - 1, 2, Byte)) ELSE mem
      BY SameWords, SameValues, SameExpansion DEF Reference!Expand
    <2>2. QED
      BY <1>1, <2>1 DEF DeoMem
  <1>5. QED
    BY <1>1, <1>3, <1>4 DEF Reference!DevWrite, List, Height

\* What changes nothing of the machine changes nothing of the reference.
LEMMA StutterRefines ==
  ASSUME UNCHANGED vars
  PROVE  UNCHANGED Reference!vars
  <1>1. UNCHANGED <<running, pc, data, ptr, saved, mem, dev, instr>>
    BY DEF vars
  <1>2. \A s \in Stacks : Pointer(s)' = Pointer(s)
    BY <1>1 DEF Pointer
  <1>3. List' = List /\ Height' = Height
    BY <1>1, <1>2 DEF List, Height
  <1>4. QED
    BY <1>1, <1>3 DEF Reference!vars, List, Height

\* The machine starts as the reference does.
LEMMA InitRefines ==
  ASSUME Init
  PROVE  Reference!Init
  <1>1. PICK m \in Machines :
          data = m.data /\ saved = m.ptr /\ mem = m.mem /\ dev = m.dev /\ fuel = m.fuel
    BY DEF Init
  <1>2. running = FALSE /\ pc = 0 /\ instr = Brk
    BY DEF Init
  <1>3. m.ptr \in [Stacks -> 0 .. Byte - 1]
    BY MachinesAssumption
  <1>4. \A s \in Stacks : Pointer(s) = m.ptr[s]
    BY <1>1, <1>2 DEF Pointer
  <1>5. Height = m.ptr
    BY <1>3, <1>4 DEF Height
  <1>6. List = [s \in Reference!Stacks |-> Reference!ListOf(m.data[s], m.ptr[s])]
    BY <1>1, <1>4, SameWords DEF List, Reference!ListOf
  <1>7. QED
    BY <1>1, <1>2, <1>5, <1>6 DEF Reference!Init, Brk, List, Height

\* The interpreter does what the signatures of the opcodes say, in all their
\* modes, from every machine and with every size of a byte and of the memory:
\* IsUxn, the specification of the reference for the machine's stacks.
THEOREM ImplementsTheReference == Spec => IsUxn
  <1>1. Init => Reference!Init
    BY InitRefines
  <1>2. TypeOK /\ [Next]_vars => [Reference!Next]_Reference!vars
    <2> SUFFICES ASSUME TypeOK, [Next]_vars
                 PROVE  Reference!Next \/ UNCHANGED Reference!vars
      OBVIOUS
    <2>1. CASE Step
      BY <2>1, StepRefines DEF Reference!Next
    <2>2. CASE \E vector \in Vectors : Start(vector)
      BY <2>2, StartRefines DEF Reference!Next
    <2>3. CASE \E all \in BOOLEAN : Reset(all)
      BY <2>3, ResetRefines DEF Reference!Next
    <2>4. CASE \E port \in 0 .. Byte - 1, v \in Inputs : DevWrite(port, v)
      BY <2>4, DevWriteRefines, SameWords DEF Reference!Next
    <2>5. CASE UNCHANGED vars
      BY <2>5, StutterRefines
    <2>6. QED
      BY <2>1, <2>2, <2>3, <2>4, <2>5 DEF Next
  <1>3. QED
    BY <1>1, <1>2, StaysInBounds, PTL DEF Spec, IsUxn, Reference!Spec
=============================================================================
