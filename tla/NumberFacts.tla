----------------------------- MODULE NumberFacts -----------------------------
(***************************************************************************)
(* Facts about natural numbers that the proofs of several components need: *)
(* the lowest member of a set, induction up to a bound, and that a         *)
(* function may be defined by recursion up to a bound.  Induction is       *)
(* stated of sets, and recursion of a step that is a function, so that     *)
(* each is used like any other fact.                                       *)
(***************************************************************************)
EXTENDS Integers, WellFoundedInduction, TLAPS

\* A number below the modulus is its own remainder.
LEMMA SmallRemainder ==
  ASSUME NEW n \in Nat, NEW m \in Nat, n < m
  PROVE  n % m = n
  OBVIOUS

\* What is written as quotient and remainder has them.
LEMMA Divided ==
  ASSUME NEW b \in Nat, b > 0, NEW q \in Int, NEW r \in 0 .. b - 1
  PROVE  (b * q + r) \div b = q /\ (b * q + r) % b = r
  OBVIOUS

\* Every number is written so.
LEMMA Quotient ==
  ASSUME NEW b \in Nat, b > 0, NEW a \in Int
  PROVE  /\ a \div b \in Int
         /\ a % b \in 0 .. b - 1
         /\ a = b * (a \div b) + (a % b)
  OBVIOUS

\* What is in the range stays as it is.
LEMMA InRange ==
  ASSUME NEW b \in Nat, b > 0, NEW a \in 0 .. b - 1
  PROVE  a % b = a
  OBVIOUS

\* Whole turns do not count.
LEMMA Turns ==
  ASSUME NEW b \in Nat, b > 0, NEW a \in Int, NEW k \in Int
  PROVE  (a + b * k) % b = a % b
  <1> DEFINE q == a \div b
             r == a % b
  <1>1. q \in Int /\ r \in 0 .. b - 1 /\ a = b * q + r
    BY Quotient
  <1>2. q + k \in Int
    BY <1>1
  <1> HIDE DEF q
  <1>3. a + b * k = b * (q + k) + r
    BY <1>1
  <1>4. (b * (q + k) + r) % b = r
    <2> HIDE DEF r
    <2> QED
      BY <1>1, <1>2, Divided
  <1>5. QED
    BY <1>3, <1>4

\* A remainder may be taken before something is added.
LEMMA RemainderFirst ==
  ASSUME NEW b \in Nat, b > 0, NEW a \in Int, NEW c \in Int
  PROVE  ((a % b) + c) % b = (a + c) % b
  <1> DEFINE q == a \div b
             r == a % b
  <1>1. q \in Int /\ r \in 0 .. b - 1 /\ a = b * q + r
    BY Quotient
  <1> HIDE DEF q, r
  <1>2. a + c = (r + c) + b * q
    BY <1>1
  <1> DEFINE s == r + c
  <1>3. s \in Int
    BY <1>1
  <1>4. (s + b * q) % b = s % b
    <2> HIDE DEF s
    <2> QED
      BY <1>1, <1>3, Turns
  <1>5. QED
    BY <1>2, <1>4 DEF r

\* Two numbers of the same remainder have it still when something is added.
LEMMA SameRemainder ==
  ASSUME NEW b \in Nat, b > 0, NEW x \in Int, NEW y \in Int, NEW c \in Int, x % b = y % b
  PROVE  (x + c) % b = (y + c) % b
  <1>1. ((x % b) + c) % b = (x + c) % b /\ ((y % b) + c) % b = (y + c) % b
    BY RemainderFirst
  <1>2. QED
    BY <1>1

\* Two digits make a number with two digits.
LEMMA TwoDigits ==
  ASSUME NEW b \in Nat, NEW h \in 0 .. b - 1, NEW l \in 0 .. b - 1
  PROVE  h * b + l \in 0 .. b * b - 1
  OBVIOUS

\* A set of natural numbers has a lowest member.
LEMMA Lowest ==
  ASSUME NEW T, T \subseteq Nat, T # {}
  PROVE  \E x \in T : \A y \in T : x <= y
  <1> DEFINE Below == {pair \in Nat \X Nat : pair[1] < pair[2]}
  <1>1. OpToRel(<, Nat) = Below
    BY Zenon DEF OpToRel
  <1>2. IsWellFoundedOn(Below, Nat)
    BY <1>1, NatLessThanWellFounded, Zenon
  <1>3. PICK x \in T : \A y \in T : <<y, x>> \notin Below
    <2> HIDE DEF Below
    <2> QED
      BY <1>2, WFMin, Zenon
  <1>4. ASSUME NEW y \in T, y < x
        PROVE  FALSE
    <2>1. <<y, x>> \in Nat \X Nat /\ <<y, x>>[1] = y /\ <<y, x>>[2] = x
      OBVIOUS
    <2>2. <<y, x>> \in Below
      BY <1>4, <2>1
    <2>3. QED
      BY <1>3, <2>2
  <1>5. QED
    BY <1>4

\* Induction from one number up to another.
LEMMA Upwards ==
  ASSUME NEW low \in Int, NEW high \in Int, NEW S,
         low <= high => low \in S,
         \A n \in low .. high : n \in S /\ n + 1 <= high => n + 1 \in S
  PROVE  low .. high \subseteq S
  <1> DEFINE Missing == {n - low : n \in (low .. high) \ S}
  <1>1. SUFFICES ASSUME Missing # {}
                 PROVE  FALSE
    OBVIOUS
  <1>2. Missing \subseteq Nat
    OBVIOUS
  <1>3. PICK x \in Missing : \A y \in Missing : x <= y
    <2> HIDE DEF Missing
    <2> QED
      BY <1>1, <1>2, Lowest
  <1>4. PICK n \in (low .. high) \ S : x = n - low
    OBVIOUS
  <1>5. n # low
    BY <1>4
  <1>6. n - 1 \in low .. high /\ (n - 1) + 1 = n
    BY <1>4, <1>5
  <1>7. n - 1 \notin S
    BY <1>4, <1>6
  <1>8. (n - 1) - low \in Missing
    BY <1>6, <1>7
  <1>9. x <= (n - 1) - low
    BY <1>3, <1>8
  <1>10. QED
    BY <1>4, <1>9

\* What holds of the first value of f, and of each after the one before it,
\* holds of all of them.
LEMMA AllAlong ==
  ASSUME NEW N \in Nat, NEW X, NEW f, f[0] \in X, \A n \in 1 .. N : f[n - 1] \in X => f[n] \in X
  PROVE  \A n \in 0 .. N : f[n] \in X
  <1> DEFINE S == {n \in 0 .. N : f[n] \in X}
  <1>1. 0 \in S
    OBVIOUS
  <1>2. ASSUME NEW n \in 0 .. N, n \in S, n + 1 <= N
        PROVE  n + 1 \in S
    <2>1. n + 1 \in 1 .. N /\ (n + 1) - 1 = n /\ n + 1 \in 0 .. N
      BY <1>2
    <2>2. f[n + 1] \in X
      BY <1>2, <2>1
    <2>3. QED
      BY <2>1, <2>2
  <1>3. 0 .. N \subseteq S
    <2> HIDE DEF S
    <2> QED
      BY <1>1, <1>2, Upwards
  <1>4. QED
    BY <1>3

\* The values of f up to N: the first, and what a step makes of each.
Follows(f, N, first, step) ==
  f[0] = first /\ \A n \in 1 .. N : f[n] = step[<<n, f[n - 1]>>]

\* A function on 0 .. N may be defined by its first value and the step from each
\* value to the next.
LEMMA Recursion ==
  ASSUME NEW N \in Nat, NEW X, NEW first \in X, NEW step \in [(1 .. N) \X X -> X]
  PROVE  \E f \in [0 .. N -> X] : Follows(f, N, first, step)
  <1> DEFINE Defined(m) == \E f \in [0 .. m -> X] :
               f[0] = first /\ \A n \in 1 .. m : f[n] = step[<<n, f[n - 1]>>]
             S == {m \in 0 .. N : Defined(m)}
  <1>1. 0 \in S
    <2> DEFINE f == [n \in 0 .. 0 |-> first]
    <2>1. f \in [0 .. 0 -> X] /\ f[0] = first /\ \A n \in 1 .. 0 : f[n] = step[<<n, f[n - 1]>>]
      OBVIOUS
    <2> HIDE DEF f
    <2>2. QED
      BY <2>1
  <1>2. ASSUME NEW m \in 0 .. N, m \in S, m + 1 <= N
        PROVE  m + 1 \in S
    <2>1. PICK f \in [0 .. m -> X] :
            f[0] = first /\ \A n \in 1 .. m : f[n] = step[<<n, f[n - 1]>>]
      BY <1>2
    <2> DEFINE g == [n \in 0 .. m + 1 |-> IF n = m + 1 THEN step[<<n, f[m]>>] ELSE f[n]]
    <2>2. step[<<m + 1, f[m]>>] \in X
      BY <1>2
    <2>3. g \in [0 .. m + 1 -> X]
      BY <2>2
    <2>4. g[0] = first
      BY <2>1
    <2>5. ASSUME NEW n \in 1 .. m + 1
          PROVE  g[n] = step[<<n, g[n - 1]>>]
      <3>1. CASE n = m + 1
        BY <3>1
      <3>2. CASE n # m + 1
        BY <2>1, <3>2
      <3>3. QED
        BY <3>1, <3>2
    <2> HIDE DEF g
    <2>6. QED
      BY <1>2, <2>3, <2>4, <2>5
  <1>3. 0 .. N \subseteq S
    <2> HIDE DEF S
    <2> QED
      BY <1>1, <1>2, Upwards
  <1>4. N \in S
    BY <1>3
  <1>5. QED
    BY <1>4 DEF Follows
=============================================================================
