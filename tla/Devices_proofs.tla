---------------------------- MODULE Devices_proofs ----------------------------
(***************************************************************************)
(* The devices. What a program is told by its hosts: the events of the     *)
(* console (Console), for any arguments, any size of its buffers and no    *)
(* bound on what is typed and written; and those of hands (GuiInput), for  *)
(* any number of fingers and any keys, with no bound on what is counted.   *)
(* What it draws (Screen), for any sizes, positions and tiles. And what    *)
(* it reads and writes (FileDevice), for any number of file devices, any   *)
(* files and directories, and any lengths of the requests.                 *)
(*                                                                         *)
(* Of the console, what was sent while the arguments are on their way is   *)
(* those before the present one and its first characters (Sending); a      *)
(* program is told nothing after the end of the input because its host has *)
(* then stopped.                                                           *)
(*                                                                         *)
(* Of hands, the property is inductive once it is known that the devices   *)
(* rest: a turn of the wheel and a character are told once because both    *)
(* are taken back as soon as the program was told.                         *)
(*                                                                         *)
(* Of the screen, a texture shows its layer outside of the rectangle that  *)
(* is noted (Fresh): every step that changes a pixel of a layer widens the *)
(* rectangle over it, unless the layer has strayed. What a row of tiles    *)
(* does follows by induction on how many of them are drawn (RunKeeps).     *)
(*                                                                         *)
(* Of files, each device closes what it opened, as it opened it; what it   *)
(* reads of a directory is the directory's listing, in order; and a read   *)
(* that comes up short has met the end. Ownership needs the host's part of *)
(* the state: what is open is a file there or gone, or a directory         *)
(* (HostOK), so that a free handle differs in its kind from one in use.    *)
(* That a handle, and a buffer for a directory, is always free to be taken *)
(* is counting: but for the device that opens, each device holds at most   *)
(* one. The order of a listing needs where in it a device is: what it has  *)
(* read is the lines before that of the host, but for what is in its       *)
(* buffer (Reading).                                                       *)
(***************************************************************************)
EXTENDS FileDevice, Console, GuiInput, Screen, NumberFacts, FiniteSetTheorems, SequenceTheorems,
        TLAPS

Events == [type : {"NONE", "STDIN", "ARG", "ARG_SEP", "END"}, value : Int \X Int]

\* What the variables range over; while there are arguments left, ch is a character
\* of one or its end.
ConsoleTypeOK ==
  /\ app \in {"cli", "gui"} /\ phase \in {"reset", "args", "input", "frame", "ended"}
  /\ argv \in Seq(Nat) /\ arg \in 1 .. Len(argv) + 1 /\ ch \in Nat \ {0}
  /\ IF arg <= Len(argv) THEN ch <= argv[arg] + 1 ELSE ch = 1
  /\ state \in States /\ typed \in Nat /\ stdinClosed \in BOOLEAN
  /\ buffers \in [Streams -> Nat] /\ log \in [Streams -> Seq(Nat)]
  /\ lines \in [Streams -> Seq(Nat)] /\ \A b \in Streams : lines[b] # <<>>

\* How far the host has come with what there is to tell.
Sending ==
  /\ phase = "reset" => arg = 1 /\ ch = 1
  /\ phase \in {"reset", "args"} =>
       /\ typed = 0 /\ ~stdinClosed
       /\ sent = ArgsTold[arg - 1] \o [j \in 1 .. ch - 1 |-> Event("ARG", Character(arg, j))]
  /\ phase = "frame" => app = "gui"
  /\ app = "cli" /\ phase = "input" => ~stdinClosed

ConsoleInv == ConsoleTypeOK /\ Sending /\ ConsoleExact

-----------------------------------------------------------------------------
(***************************************************************************)
(* Sequences one after the other.                                          *)
(***************************************************************************)

\* Each of the joined sequences is the one before it and a part.
LEMMA JoinedExact ==
  ASSUME NEW S, NEW parts \in Seq(Seq(S))
  PROVE  /\ Joined(parts) \in [0 .. Len(parts) -> Seq(S)]
         /\ Joined(parts)[0] = <<>>
         /\ \A n \in 1 .. Len(parts) : Joined(parts)[n] = Joined(parts)[n - 1] \o parts[n]
  <1> DEFINE N == Len(parts)
             X == Seq(S)
             step == [p \in (1 .. N) \X X |-> p[2] \o parts[p[1]]]
             IsJoined(f) == f = [n \in 0 .. N |-> IF n = 0 THEN <<>> ELSE f[n - 1] \o parts[n]]
  <1>1. N \in Nat /\ \A n \in 1 .. N : parts[n] \in X
    OBVIOUS
  <1>2. step \in [(1 .. N) \X X -> X]
    <2>1. ASSUME NEW p \in (1 .. N) \X X
          PROVE  p[2] \o parts[p[1]] \in X
      <3>1. p[2] \in Seq(S) /\ parts[p[1]] \in Seq(S)
        BY <1>1
      <3>2. QED
        BY <3>1, ConcatProperties
    <2> HIDE DEF X, N
    <2>2. QED
      BY <2>1
  <1>3. <<>> \in X
    BY EmptySeq
  <1>4. PICK f \in [0 .. N -> X] : Follows(f, N, <<>>, step)
    <2> HIDE DEF N, X, step
    <2> QED
      BY <1>1, <1>2, <1>3, Recursion
  <1>5. ASSUME NEW n \in 1 .. N
        PROVE  f[n] = f[n - 1] \o parts[n]
    <2> HIDE DEF X, N
    <2>1. n - 1 \in 0 .. N /\ <<n, f[n - 1]>> \in (1 .. N) \X X
      BY <1>1, <1>4
    <2>2. step[<<n, f[n - 1]>>] = f[n - 1] \o parts[n]
      BY <2>1
    <2>3. QED
      BY <1>4, <2>2 DEF Follows
  <1>6. IsJoined(f)
    <2> HIDE DEF X, N
    <2>1. f = [n \in 0 .. N |-> f[n]]
      BY <1>4
    <2>2. ASSUME NEW n \in 0 .. N
          PROVE  f[n] = IF n = 0 THEN <<>> ELSE f[n - 1] \o parts[n]
      <3>1. CASE n = 0
        BY <1>4, <3>1 DEF Follows
      <3>2. CASE n # 0
        <4>1. n \in 1 .. N
          BY <1>1, <3>2
        <4>2. QED
          BY <1>5, <3>2, <4>1
      <3>3. QED
        BY <3>1, <3>2
    <2>3. QED
      BY <2>1, <2>2
  <1> DEFINE joined == Joined(parts)
  <1>7. IsJoined(joined)
    <2>1. joined = CHOOSE g : IsJoined(g)
      BY DEF Joined
    <2> HIDE DEF IsJoined, joined
    <2>2. QED
      BY <1>6, <2>1
  <1> HIDE DEF joined
  <1>8. /\ DOMAIN joined = 0 .. N /\ joined[0] = <<>> /\ joined = [n \in 0 .. N |-> joined[n]]
        /\ \A n \in 1 .. N : joined[n] = joined[n - 1] \o parts[n]
    <2> HIDE DEF N
    <2>1. joined = [n \in 0 .. N |-> IF n = 0 THEN <<>> ELSE joined[n - 1] \o parts[n]]
      BY <1>7 DEF IsJoined
    <2>2. 0 \in 0 .. N /\ \A n \in 1 .. N : n \in 0 .. N /\ n # 0
      BY <1>1
    <2>3. DOMAIN joined = 0 .. N /\ joined = [n \in 0 .. N |-> joined[n]]
      BY <2>1, Zenon
    <2>4. \A n \in 0 .. N : joined[n] = IF n = 0 THEN <<>> ELSE joined[n - 1] \o parts[n]
      BY <2>1, Zenon
    <2>5. joined[0] = <<>>
      BY <2>2, <2>4
    <2>6. \A n \in 1 .. N : joined[n] = joined[n - 1] \o parts[n]
      BY <2>2, <2>4, Zenon
    <2>7. QED
      BY <2>3, <2>5, <2>6
  <1>9. \A n \in 0 .. N : joined[n] \in X
    <2>1. ASSUME NEW n \in 1 .. N, joined[n - 1] \in X
          PROVE  joined[n] \in X
      <3>1. joined[n - 1] \in Seq(S) /\ parts[n] \in Seq(S)
        BY <1>1, <2>1
      <3>2. QED
        BY <1>8, <3>1, ConcatProperties
    <2>2. N \in Nat /\ joined[0] \in X
      BY <1>1, <1>3, <1>8
    <2> HIDE DEF N, X
    <2>3. \A n \in 1 .. N : joined[n - 1] \in X => joined[n] \in X
      BY <2>1
    <2>4. QED
      BY <2>2, <2>3, AllAlong
  <1>10. QED
    BY <1>8, <1>9 DEF joined

\* What is joined of the first parts depends on these only.
LEMMA JoinedSame ==
  ASSUME NEW S, NEW parts \in Seq(Seq(S)), NEW more \in Seq(Seq(S)),
         NEW n \in 0 .. Len(parts), n <= Len(more), \A i \in 1 .. n : parts[i] = more[i]
  PROVE  Joined(parts)[n] = Joined(more)[n]
  <1> DEFINE T == {m \in 0 .. n : Joined(parts)[m] = Joined(more)[m]}
  <1>1. 0 \in T
    <2>1. Joined(parts)[0] = <<>> /\ Joined(more)[0] = <<>>
      BY JoinedExact
    <2>2. 0 \in 0 .. n
      OBVIOUS
    <2>3. QED
      BY <2>1, <2>2
  <1>2. ASSUME NEW m \in 0 .. n, m \in T, m + 1 <= n
        PROVE  m + 1 \in T
    <2>1. m + 1 \in 1 .. Len(parts) /\ m + 1 \in 1 .. Len(more) /\ m + 1 \in 1 .. n /\ (m + 1) - 1 = m
      BY <1>2
    <2>2. /\ \A i \in 1 .. Len(parts) : Joined(parts)[i] = Joined(parts)[i - 1] \o parts[i]
          /\ \A i \in 1 .. Len(more) : Joined(more)[i] = Joined(more)[i - 1] \o more[i]
      BY JoinedExact, Zenon
    <2>3. /\ Joined(parts)[m + 1] = Joined(parts)[m] \o parts[m + 1]
          /\ Joined(more)[m + 1] = Joined(more)[m] \o more[m + 1]
      BY <2>1, <2>2
    <2>4. parts[m + 1] = more[m + 1] /\ Joined(parts)[m] = Joined(more)[m] /\ m + 1 \in 0 .. n
      BY <1>2, <2>1
    <2>5. QED
      BY <2>3, <2>4
  <1>3. 0 .. n \subseteq T
    <2> HIDE DEF T
    <2>1. 0 \in Int /\ n \in Int
      OBVIOUS
    <2>2. QED
      BY <1>1, <1>2, <2>1, Upwards
  <1>4. QED
    BY <1>3

Begins(s, t) == Len(s) <= Len(t) /\ \A i \in 1 .. Len(s) : s[i] = t[i]

\* What begins a sequence begins what it goes on to.
LEMMA BeginsConcat ==
  ASSUME NEW S, NEW s \in Seq(S), NEW t \in Seq(S), NEW u \in Seq(S), Begins(s, t)
  PROVE  Begins(s, t \o u)
  <1>1. /\ Len(t \o u) = Len(t) + Len(u)
        /\ \A i \in 1 .. Len(t) + Len(u) : (t \o u)[i] = IF i <= Len(t) THEN t[i] ELSE u[i - Len(t)]
    BY ConcatProperties
  <1>2. Len(s) \in Nat /\ Len(t) \in Nat /\ Len(u) \in Nat
    BY LenProperties
  <1>3. Len(s) <= Len(t) /\ \A i \in 1 .. Len(s) : s[i] = t[i]
    BY DEF Begins
  <1>4. ASSUME NEW i \in 1 .. Len(s)
        PROVE  s[i] = (t \o u)[i]
    BY <1>1, <1>2, <1>3
  <1>5. QED
    BY <1>1, <1>2, <1>3, <1>4 DEF Begins

\* What is before both does not matter.
LEMMA BeginsAfter ==
  ASSUME NEW S, NEW s \in Seq(S), NEW t \in Seq(S), NEW u \in Seq(S), Begins(s, t)
  PROVE  Begins(u \o s, u \o t)
  <1> DEFINE l == Len(u)
  <1>1. /\ l \in Nat /\ Len(s) \in Nat /\ Len(t) \in Nat
        /\ Len(u \o s) = l + Len(s) /\ Len(u \o t) = l + Len(t)
        /\ \A i \in 1 .. l + Len(s) : (u \o s)[i] = IF i <= l THEN u[i] ELSE s[i - l]
        /\ \A i \in 1 .. l + Len(t) : (u \o t)[i] = IF i <= l THEN u[i] ELSE t[i - l]
    BY LenProperties, ConcatProperties
  <1>2. Len(s) <= Len(t) /\ \A i \in 1 .. Len(s) : s[i] = t[i]
    BY DEF Begins
  <1> HIDE DEF l
  <1>3. ASSUME NEW i \in 1 .. l + Len(s)
        PROVE  (u \o s)[i] = (u \o t)[i]
    <2>1. i \in 1 .. l + Len(t)
      BY <1>1, <1>2
    <2>2. CASE i <= l
      BY <1>1, <2>1, <2>2
    <2>3. CASE ~(i <= l)
      <3>1. i - l \in 1 .. Len(s)
        BY <1>1, <2>3
      <3>2. QED
        BY <1>1, <1>2, <2>1, <2>3, <3>1
    <2>4. QED
      BY <2>2, <2>3
  <1>4. l + Len(s) <= l + Len(t)
    BY <1>1, <1>2
  <1>5. QED
    BY <1>1, <1>3, <1>4 DEF Begins

\* Beginnings of beginnings.
LEMMA BeginsThrough ==
  ASSUME NEW S, NEW s \in Seq(S), NEW t \in Seq(S), NEW u \in Seq(S), Begins(s, t), Begins(t, u)
  PROVE  Begins(s, u)
  <1>1. Len(s) \in Nat /\ Len(t) \in Nat /\ Len(u) \in Nat
    BY LenProperties
  <1>2. QED
    BY <1>1 DEF Begins

\* The first parts joined begin all of them joined.
LEMMA JoinedBegins ==
  ASSUME NEW S, NEW parts \in Seq(Seq(S)), NEW n \in 0 .. Len(parts)
  PROVE  Begins(Joined(parts)[n], Joined(parts)[Len(parts)])
  <1> DEFINE N == Len(parts)
             joined == Joined(parts)
             T == {m \in n .. N : Begins(joined[n], joined[m])}
  <1>1. /\ N \in Nat /\ \A m \in 0 .. N : joined[m] \in Seq(S)
        /\ \A m \in 1 .. N : joined[m] = joined[m - 1] \o parts[m] /\ parts[m] \in Seq(S)
    <2>1. N \in Nat /\ \A m \in 1 .. N : parts[m] \in Seq(S)
      OBVIOUS
    <2>2. /\ joined \in [0 .. N -> Seq(S)]
          /\ \A m \in 1 .. N : joined[m] = joined[m - 1] \o parts[m]
      BY JoinedExact, Zenon
    <2> HIDE DEF N, joined
    <2>3. QED
      BY <2>1, <2>2
  <1> HIDE DEF N, joined
  <1>2. n \in T
    <2>1. n \in 0 .. N
      BY DEF N
    <2>2. Len(joined[n]) \in Nat
      BY <1>1, <2>1
    <2>3. n \in n .. N
      BY <1>1, <2>1
    <2>4. QED
      BY <2>2, <2>3 DEF Begins
  <1>3. ASSUME NEW m \in n .. N, m \in T, m + 1 <= N
        PROVE  m + 1 \in T
    <2>1. n \in 0 .. N /\ m \in 0 .. N /\ m + 1 \in 1 .. N /\ (m + 1) - 1 = m /\ m + 1 \in n .. N
      BY <1>1, <1>3 DEF N
    <2>2. /\ joined[n] \in Seq(S) /\ joined[m] \in Seq(S) /\ parts[m + 1] \in Seq(S)
          /\ joined[m + 1] = joined[m] \o parts[m + 1]
      BY <1>1, <2>1
    <2>3. Begins(joined[n], joined[m])
      BY <1>3
    <2>4. Begins(joined[n], joined[m + 1])
      BY <2>2, <2>3, BeginsConcat
    <2>5. QED
      BY <2>1, <2>4
  <1>4. n .. N \subseteq T
    <2> HIDE DEF T
    <2>1. n \in Int /\ N \in Int
      BY <1>1
    <2>2. QED
      BY <1>2, <1>3, <2>1, Upwards
  <1>5. N \in n .. N
    BY <1>1 DEF N
  <1>6. QED
    BY <1>4, <1>5 DEF N, joined

-----------------------------------------------------------------------------
(***************************************************************************)
(* What the program writes.                                                *)
(***************************************************************************)

\* Another character fills the buffer, or it is one more in it.
LEMMA OneMore ==
  ASSUME NEW l \in Nat
  PROVE  /\ l % Room \in 0 .. Room - 1 /\ l \div Room \in Nat
         /\ IF (l % Room) + 1 >= Room
            THEN /\ (l + 1) % Room = 0 /\ (l + 1) \div Room = (l \div Room) + 1
                 /\ (l % Room) + 1 = Room
            ELSE (l + 1) % Room = (l % Room) + 1 /\ (l + 1) \div Room = l \div Room
  <1> DEFINE q == l \div Room
             r == l % Room
  <1>1. Room \in Nat \ {0}
    BY BufferAssumption DEF Room
  <1>2. q \in Nat /\ r \in 0 .. Room - 1 /\ l = Room * q + r
    BY <1>1
  <1>3. ASSUME NEW p \in Int, NEW s \in 0 .. Room - 1
        PROVE  (Room * p + s) \div Room = p /\ (Room * p + s) % Room = s
    BY <1>1
  <1> HIDE DEF q, r
  <1>4. CASE r + 1 >= Room
    <2>1. r + 1 = Room /\ q + 1 \in Int /\ 0 \in 0 .. Room - 1
      BY <1>1, <1>2, <1>4
    <2>2. l + 1 = Room * q + Room
      BY <1>1, <1>2, <2>1
    <2>3. Room * q + Room = Room * (q + 1) + 0
      BY <1>1, <1>2
    <2>4. (l + 1) \div Room = q + 1 /\ (l + 1) % Room = 0
      BY <1>3, <2>1, <2>2, <2>3
    <2>5. QED
      BY <1>2, <1>4, <2>1, <2>4 DEF q, r
  <1>5. CASE ~(r + 1 >= Room)
    <2>1. r + 1 \in 0 .. Room - 1 /\ q \in Int
      BY <1>1, <1>2, <1>5
    <2>2. l + 1 = Room * q + (r + 1)
      <3>1. Room * q \in Int
        BY <1>1, <1>2
      <3>2. QED
        BY <1>2, <3>1
    <2>3. (l + 1) \div Room = q /\ (l + 1) % Room = r + 1
      BY <1>3, <2>1, <2>2
    <2>4. QED
      BY <1>2, <1>5, <2>3 DEF q, r
  <1>6. QED
    BY <1>4, <1>5

\* The pieces of a line.
LEMMA WholeType ==
  ASSUME NEW l \in Nat
  PROVE  Whole(l) \in Seq(Nat) /\ Pieces(l) \in Seq(Nat) /\ l % Room \in Nat
  <1>1. l \div Room \in Nat /\ l % Room \in Nat /\ Room \in Nat
    BY OneMore, BufferAssumption DEF Room
  <1>2. Whole(l) \in Seq(Nat)
    BY <1>1 DEF Whole
  <1>3. QED
    BY <1>1, <1>2 DEF Pieces

\* A line with a character more has a piece more, if it fills the buffer.
LEMMA WholeGrows ==
  ASSUME NEW l \in Nat
  PROVE  Whole(l + 1) = IF Full((l % Room) + 1) THEN Append(Whole(l), Room) ELSE Whole(l)
  <1> DEFINE q == l \div Room
  <1>1. q \in Nat /\ (Full((l % Room) + 1) <=> (l % Room) + 1 >= Room)
    BY OneMore DEF Full, Room
  <1>2. CASE Full((l % Room) + 1)
    <2>1. (l + 1) \div Room = q + 1
      BY <1>1, <1>2, OneMore
    <2> HIDE DEF q
    <2>2. [i \in 1 .. q + 1 |-> Room] = Append([i \in 1 .. q |-> Room], Room)
      BY <1>1
    <2>3. QED
      BY <1>2, <2>1, <2>2 DEF Whole, q
  <1>3. CASE ~Full((l % Room) + 1)
    BY <1>1, <1>3, OneMore DEF Whole
  <1>4. QED
    BY <1>2, <1>3

\* The pieces of the lines that have ended.
Ended(written) == [i \in 1 .. Len(written) - 1 |-> Pieces(written[i])]

\* They are so many sequences.
LEMMA EndedType ==
  ASSUME NEW written \in Seq(Nat), written # <<>>
  PROVE  /\ Len(written) \in Nat \ {0} /\ written[Len(written)] \in Nat
         /\ Ended(written) \in Seq(Seq(Nat)) /\ Len(Ended(written)) = Len(written) - 1
         /\ Joined(Ended(written))[Len(written) - 1] \in Seq(Nat)
         /\ Logged(written) \in Seq(Nat)
  <1> DEFINE N == Len(written)
             last == written[N]
             ended == Ended(written)
             before == Joined(ended)[N - 1]
  <1>1. N \in Nat \ {0} /\ \A i \in 1 .. N : written[i] \in Nat
    OBVIOUS
  <1>2. last \in Nat
    <2> HIDE DEF N
    <2> QED
      BY <1>1
  <1>3. ended \in Seq(Seq(Nat)) /\ Len(ended) = N - 1
    <2>1. ended = [i \in 1 .. N - 1 |-> Pieces(written[i])]
      BY DEF Ended
    <2> HIDE DEF N, ended
    <2>2. N - 1 \in Nat /\ \A i \in 1 .. N - 1 : written[i] \in Nat
      BY <1>1
    <2>3. \A i \in 1 .. N - 1 : Pieces(written[i]) \in Seq(Nat)
      BY <2>2, WholeType
    <2>4. QED
      BY <2>1, <2>2, <2>3, SMTT(20)
  <1>4. before \in Seq(Nat)
    <2> HIDE DEF N, ended
    <2>1. Joined(ended) \in [0 .. Len(ended) -> Seq(Nat)]
      BY <1>3, JoinedExact, Zenon
    <2>2. N - 1 \in 0 .. Len(ended)
      BY <1>1, <1>3
    <2>3. QED
      BY <2>1, <2>2
  <1>5. Whole(last) \in Seq(Nat)
    <2> HIDE DEF last
    <2> QED
      BY <1>2, WholeType
  <1>6. Logged(written) = before \o Whole(last)
    BY DEF Logged, Ended
  <1> HIDE DEF N, last, ended, before
  <1>7. Logged(written) \in Seq(Nat)
    BY <1>4, <1>5, <1>6, ConcatProperties
  <1>8. QED
    BY <1>1, <1>2, <1>3, <1>4, <1>7 DEF N, last, ended, before

\* A character more in the last line.
LEMMA LoggedChar ==
  ASSUME NEW written \in Seq(Nat), written # <<>>,
         NEW more, more = [written EXCEPT ![Len(written)] = @ + 1]
  PROVE  LET last == written[Len(written)]
         IN  /\ more \in Seq(Nat) /\ Len(more) = Len(written) /\ more[Len(more)] = last + 1
             /\ Logged(more) = IF Full((last % Room) + 1) THEN Append(Logged(written), Room)
                               ELSE Logged(written)
  <1> DEFINE N == Len(written)
             last == written[N]
             before == Joined(Ended(written))[N - 1]
  <1>1. N \in Nat \ {0} /\ last \in Nat /\ \A i \in 1 .. N : written[i] \in Nat
    OBVIOUS
  <1>2. more \in Seq(Nat) /\ Len(more) = N /\ more[N] = last + 1
    OBVIOUS
  <1>3. \A i \in 1 .. N - 1 : more[i] = written[i]
    BY <1>1
  <1>4. Ended(more) = Ended(written)
    <2>1. /\ Ended(more) = [i \in 1 .. Len(more) - 1 |-> Pieces(more[i])]
          /\ Ended(written) = [i \in 1 .. N - 1 |-> Pieces(written[i])]
      BY DEF Ended
    <2> HIDE DEF N
    <2>2. Len(more) - 1 = N - 1
      BY <1>2
    <2> DEFINE A == [i \in 1 .. N - 1 |-> Pieces(more[i])]
               B == [i \in 1 .. N - 1 |-> Pieces(written[i])]
    <2>3. DOMAIN A = 1 .. N - 1 /\ DOMAIN B = 1 .. N - 1
      OBVIOUS
    <2>4. \A i \in 1 .. N - 1 : A[i] = B[i]
      <3>1. \A i \in 1 .. N - 1 : A[i] = Pieces(more[i]) /\ B[i] = Pieces(written[i])
        OBVIOUS
      <3> HIDE DEF A, B
      <3>2. QED
        BY <1>3, <3>1, Zenon
    <2>5. A = [i \in 1 .. N - 1 |-> A[i]] /\ B = [i \in 1 .. N - 1 |-> B[i]]
      OBVIOUS
    <2>6. A = B
      <3> HIDE DEF A, B
      <3> QED
        BY <2>3, <2>4, <2>5
    <2>7. QED
      BY <2>1, <2>2, <2>6
  <1>5. Logged(more) = before \o Whole(last + 1) /\ Logged(written) = before \o Whole(last)
    <2>1. Logged(more) = Joined(Ended(more))[Len(more) - 1] \o Whole(more[Len(more)])
      BY DEF Logged, Ended
    <2>2. Logged(written) = before \o Whole(last)
      BY DEF Logged, Ended
    <2> HIDE DEF N, last
    <2>3. QED
      BY <1>2, <1>4, <2>1, <2>2
  <1>6. before \in Seq(Nat) /\ Whole(last) \in Seq(Nat) /\ Room \in Nat
    <2>1. before \in Seq(Nat)
      BY EndedType
    <2> HIDE DEF last
    <2>2. QED
      BY <1>1, <2>1, WholeType, BufferAssumption DEF Room
  <1> HIDE DEF N, last, before
  <1>7. before \o Append(Whole(last), Room) = Append(before \o Whole(last), Room)
    BY <1>6, SMTT(20)
  <1>8. Whole(last + 1) = IF Full((last % Room) + 1) THEN Append(Whole(last), Room) ELSE Whole(last)
    BY <1>1, WholeGrows
  <1>9. QED
    BY <1>2, <1>5, <1>7, <1>8 DEF N, last

\* The last line ends, and the next is empty.
LEMMA LoggedLine ==
  ASSUME NEW written \in Seq(Nat), written # <<>>, NEW more, more = Append(written, 0)
  PROVE  /\ more \in Seq(Nat) /\ Len(more) = Len(written) + 1 /\ more[Len(more)] = 0
         /\ Logged(more) = Append(Logged(written), written[Len(written)] % Room)
  <1> DEFINE N == Len(written)
             last == written[N]
             before == Joined(Ended(written))[N - 1]
  <1>1. N \in Nat \ {0} /\ last \in Nat /\ \A i \in 1 .. N : written[i] \in Nat
    OBVIOUS
  <1>2. more \in Seq(Nat) /\ Len(more) = N + 1 /\ more[N + 1] = 0 /\ \A i \in 1 .. N : more[i] = written[i]
    OBVIOUS
  <1>3. more # <<>>
    BY <1>1, <1>2
  <1>4. /\ Ended(written) \in Seq(Seq(Nat)) /\ Len(Ended(written)) = N - 1
        /\ before \in Seq(Nat)
    BY EndedType
  <1>5. Ended(more) \in Seq(Seq(Nat)) /\ Len(Ended(more)) = N
    <2>1. Ended(more) \in Seq(Seq(Nat)) /\ Len(Ended(more)) = Len(more) - 1
      BY <1>2, <1>3, EndedType, Zenon
    <2> HIDE DEF N
    <2>2. QED
      BY <1>1, <1>2, <2>1
  <1> HIDE DEF N
  <1>6. /\ \A i \in 1 .. N - 1 : Ended(more)[i] = Ended(written)[i]
        /\ Ended(more)[N] = Pieces(last)
    <2>1. Len(more) - 1 = N /\ Len(written) - 1 = N - 1
      BY <1>1, <1>2 DEF N
    <2>2. \A i \in 1 .. N : Ended(more)[i] = Pieces(more[i])
      BY <2>1 DEF Ended
    <2>3. \A i \in 1 .. N - 1 : Ended(written)[i] = Pieces(written[i])
      BY <2>1 DEF Ended
    <2>4. QED
      BY <1>1, <1>2, <2>2, <2>3
  <1>7. Joined(Ended(more))[N - 1] = before
    <2>1. N - 1 \in 0 .. Len(Ended(written)) /\ N - 1 <= Len(Ended(more))
      BY <1>1, <1>4, <1>5
    <2>2. \A i \in 1 .. N - 1 : Ended(written)[i] = Ended(more)[i]
      BY <1>6
    <2> DEFINE ended == Ended(written)
               others == Ended(more)
               n == N - 1
    <2>3. /\ ended \in Seq(Seq(Nat)) /\ others \in Seq(Seq(Nat)) /\ n \in 0 .. Len(ended)
          /\ n <= Len(others) /\ \A i \in 1 .. n : ended[i] = others[i]
      BY <1>4, <1>5, <2>1, <2>2
    <2> HIDE DEF ended, others, n
    <2>4. Joined(ended)[n] = Joined(others)[n]
      BY <2>3, JoinedSame
    <2>5. QED
      BY <2>4 DEF ended, others, n
  <1>8. Joined(Ended(more))[N] = before \o Pieces(last)
    <2>1. N \in 1 .. Len(Ended(more))
      BY <1>1, <1>5
    <2>2. Joined(Ended(more))[N] = Joined(Ended(more))[N - 1] \o Ended(more)[N]
      BY <1>5, <2>1, JoinedExact
    <2>3. QED
      BY <1>6, <1>7, <2>2
  <1>9. Whole(0) = <<>>
    <2>1. 0 \div Room = 0
      BY BufferAssumption DEF Room
    <2>2. QED
      BY <2>1 DEF Whole
  <1>10. Logged(more) = (before \o Pieces(last)) \o <<>>
    <2>1. Logged(more) = Joined(Ended(more))[Len(more) - 1] \o Whole(more[Len(more)])
      BY DEF Logged, Ended
    <2>2. Len(more) - 1 = N /\ more[Len(more)] = 0
      BY <1>1, <1>2
    <2>3. QED
      BY <1>8, <1>9, <2>1, <2>2
  <1>11. Logged(written) = before \o Whole(last)
    BY DEF Logged, Ended, N
  <1>12. Whole(last) \in Seq(Nat) /\ Pieces(last) \in Seq(Nat) /\ last % Room \in Nat
    <2> HIDE DEF last
    <2> QED
      BY <1>1, WholeType
  <1> HIDE DEF last, before
  <1>13. (before \o Pieces(last)) \o <<>> = Append(before \o Whole(last), last % Room)
    BY <1>4, <1>12, SMTT(20) DEF Pieces
  <1>14. QED
    BY <1>1, <1>2, <1>10, <1>11, <1>13 DEF N, last

-----------------------------------------------------------------------------
(***************************************************************************)
(* Executions of the program.                                              *)
(***************************************************************************)
Output ==
  /\ buffers \in [Streams -> Nat] /\ log \in [Streams -> Seq(Nat)]
  /\ lines \in [Streams -> Seq(Nat)] /\ (\A b \in Streams : lines[b] # <<>>)
  /\ OutputExact

\* A character is logged when it is the last for which there is room.
LEMMA CharExact ==
  ASSUME Output, app = "gui", app' = app, NEW b \in Streams, PutChar(b)
  PROVE  Output'
  <1> DEFINE written == lines[b]
             last == written[Len(written)]
             more == lines'[b]
             length == buffers[b] + 1
  <1>1. written \in Seq(Nat) /\ written # <<>> /\ log[b] \in Seq(Nat) /\ buffers[b] \in Nat
    BY DEF Output
  <1>2. more = [written EXCEPT ![Len(written)] = @ + 1]
    BY DEF PutChar, Output
  <1>3. buffers[b] = last % Room /\ log[b] = Logged(written)
    BY DEF Output, OutputExact
  <1>4. /\ lines' = [lines EXCEPT ![b] = more]
        /\ \A c \in Streams \ {b} : lines'[c] = lines[c]
    BY DEF PutChar, Output
  <1>5. last \in Nat
    <2> DEFINE N == Len(written)
    <2>1. N \in 1 .. N
      BY <1>1
    <2>2. QED
      BY <1>1
  <1>6. /\ more \in Seq(Nat) /\ Len(more) = Len(written) /\ more[Len(more)] = last + 1
        /\ Logged(more) = IF Full((last % Room) + 1) THEN Append(Logged(written), Room)
                          ELSE Logged(written)
    <2> HIDE DEF written, more
    <2>1. QED
      BY <1>1, <1>2, LoggedChar DEF last
  <1>7. more # <<>>
    <2> HIDE DEF written, more
    <2> QED
      BY <1>1, <1>6
  <1> HIDE DEF written, more, last
  <1>8. /\ buffers'[b] = (last + 1) % Room /\ log'[b] = Logged(more)
        /\ log'[b] \in Seq(Nat) /\ buffers'[b] \in Nat
        /\ buffers' = [buffers EXCEPT ![b] = buffers'[b]]
        /\ log' = [log EXCEPT ![b] = log'[b]]
    <2>1. CASE Full(length)
      <3>1. log' = [log EXCEPT ![b] = Append(@, length)] /\ buffers' = [buffers EXCEPT ![b] = 0]
        BY <2>1 DEF PutChar, Flush
      <3>2. length = Room /\ (last + 1) % Room = 0
        <4>1. length >= Room
          BY <2>1 DEF Full, Room
        <4>2. (last % Room) + 1 >= Room
          BY <1>3, <4>1
        <4>3. (last % Room) + 1 = Room /\ (last + 1) % Room = 0
          BY <1>5, <4>2, OneMore
        <4>4. QED
          BY <1>3, <4>3
      <3>3. log'[b] = Append(log[b], length) /\ buffers'[b] = 0
        BY <3>1 DEF Output
      <3>4. Append(log[b], length) \in Seq(Nat)
        BY <1>1
      <3>5. Logged(more) = Append(log[b], length)
        <4>1. Full((last % Room) + 1)
          BY <1>3, <2>1
        <4>2. Logged(more) = Append(Logged(written), Room)
          BY <1>6, <4>1
        <4>3. QED
          BY <1>3, <3>2, <4>2
      <3>6. log' = [log EXCEPT ![b] = log'[b]] /\ buffers' = [buffers EXCEPT ![b] = buffers'[b]]
        <4> HIDE DEF length
        <4>1. [log EXCEPT ![b] = Append(@, length)] = [log EXCEPT ![b] = Append(log[b], length)]
          OBVIOUS
        <4>2. QED
          BY <3>1, <3>3, <4>1
      <3>7. QED
        BY <3>2, <3>3, <3>4, <3>5, <3>6
    <2>2. CASE ~Full(length)
      <3>1. log' = log /\ buffers' = [buffers EXCEPT ![b] = length]
        BY <2>2 DEF PutChar
      <3>2. length = (last + 1) % Room /\ length \in Nat
        <4>1. ~(length >= Room)
          BY <2>2 DEF Full, Room
        <4>2. ~((last % Room) + 1 >= Room)
          BY <1>3, <4>1
        <4>3. (last + 1) % Room = (last % Room) + 1
          BY <1>5, <4>2, OneMore
        <4>4. QED
          BY <1>1, <1>3, <4>3
      <3>3. log'[b] = log[b] /\ buffers'[b] = length
        BY <3>1 DEF Output
      <3>4. QED
        BY <1>1, <1>3, <1>6, <2>2, <3>1, <3>2, <3>3 DEF Output
    <2>3. QED
      BY <2>1, <2>2
  <1>9. \A c \in Streams \ {b} : buffers'[c] = buffers[c] /\ log'[c] = log[c]
    BY <1>8 DEF Output
  <1>10. /\ buffers' \in [Streams -> Nat] /\ log' \in [Streams -> Seq(Nat)]
         /\ lines' \in [Streams -> Seq(Nat)] /\ lines'[b] = more
    BY <1>4, <1>6, <1>8 DEF Output
  <1>11. \A c \in Streams : lines'[c] # <<>>
    BY <1>4, <1>7, <1>10 DEF Output
  <1>12. OutputExact'
    <2>1. ASSUME NEW c \in Streams
          PROVE  log'[c] = Logged(lines'[c]) /\ buffers'[c] = lines'[c][Len(lines'[c])] % Room
      <3>1. CASE c = b
        BY <1>6, <1>8, <1>10, <3>1
      <3>2. CASE c # b
        BY <1>4, <1>9, <3>2 DEF Output, OutputExact
      <3>3. QED
        BY <3>1, <3>2
    <2>2. QED
      BY <2>1 DEF OutputExact
  <1>13. QED
    BY <1>10, <1>11, <1>12 DEF Output

\* The end of a line is logged with what there is in the buffer.
LEMMA NewLineExact ==
  ASSUME Output, app = "gui", app' = app, NEW b \in Streams, PutNewLine(b)
  PROVE  Output'
  <1> DEFINE written == lines[b]
             last == written[Len(written)]
             more == lines'[b]
  <1>1. written \in Seq(Nat) /\ written # <<>> /\ log[b] \in Seq(Nat) /\ buffers[b] \in Nat
    BY DEF Output
  <1>2. more = Append(written, 0)
    BY DEF PutNewLine, Output
  <1>3. buffers[b] = last % Room /\ log[b] = Logged(written)
    BY DEF Output, OutputExact
  <1>4. /\ lines' = [lines EXCEPT ![b] = more]
        /\ \A c \in Streams \ {b} : lines'[c] = lines[c]
    BY DEF PutNewLine, Output
  <1>5. /\ more \in Seq(Nat) /\ Len(more) = Len(written) + 1 /\ more[Len(more)] = 0
        /\ Logged(more) = Append(Logged(written), last % Room)
    <2> HIDE DEF written, more
    <2>1. QED
      BY <1>1, <1>2, LoggedLine DEF last
  <1>6. more # <<>>
    <2> HIDE DEF written, more
    <2>1. Len(written) \in Nat
      BY <1>1
    <2>2. QED
      BY <1>5, <2>1
  <1>7. 0 % Room = 0
    BY BufferAssumption DEF Room
  <1> HIDE DEF written, more, last
  <1>8. /\ buffers' = [buffers EXCEPT ![b] = 0] /\ buffers'[b] = 0
        /\ log' = [log EXCEPT ![b] = Append(@, buffers[b])] /\ log'[b] = Append(log[b], buffers[b])
    BY DEF PutNewLine, Flush, Output
  <1>9. /\ \A c \in Streams \ {b} : buffers'[c] = buffers[c] /\ log'[c] = log[c]
        /\ Append(log[b], buffers[b]) \in Seq(Nat)
    BY <1>1, <1>8 DEF Output
  <1>10. /\ buffers' \in [Streams -> Nat] /\ log' \in [Streams -> Seq(Nat)]
         /\ lines' \in [Streams -> Seq(Nat)] /\ lines'[b] = more
    BY <1>4, <1>5, <1>8, <1>9 DEF Output
  <1>11. \A c \in Streams : lines'[c] # <<>>
    BY <1>4, <1>6, <1>10 DEF Output
  <1>12. OutputExact'
    <2>1. ASSUME NEW c \in Streams
          PROVE  log'[c] = Logged(lines'[c]) /\ buffers'[c] = lines'[c][Len(lines'[c])] % Room
      <3>1. CASE c = b
        BY <1>3, <1>5, <1>7, <1>8, <1>10, <3>1
      <3>2. CASE c # b
        BY <1>4, <1>9, <3>2 DEF Output, OutputExact
      <3>3. QED
        BY <3>1, <3>2
    <2>2. QED
      BY <2>1 DEF OutputExact
  <1>13. QED
    BY <1>10, <1>11, <1>12 DEF Output

\* What an execution writes is logged or kept, and nothing changes without one.
LEMMA ExecutionExact ==
  ASSUME Output, state \in States, app' = app, Execution \/ UNCHANGED programVars
  PROVE  Output' /\ state' \in States
  <1>1. CASE UNCHANGED <<buffers, log, lines>>
    BY <1>1 DEF Output, OutputExact, Execution, programVars
  <1>2. CASE app = "gui" /\ \E b \in Streams : PutChar(b) \/ PutNewLine(b)
    <2>1. Output'
      BY <1>2, CharExact, NewLineExact
    <2>2. QED
      BY <2>1 DEF Execution, programVars
  <1>3. QED
    BY <1>1, <1>2 DEF Execution, programVars

-----------------------------------------------------------------------------
(***************************************************************************)
(* What there is to tell.                                                  *)
(***************************************************************************)

\* The first characters of an argument, the first characters typed, and all that
\* there is to tell when so many were typed.
Characters(i, n) == [j \in 1 .. n |-> Event("ARG", Character(i, j))]
AllTyped(n) == [j \in 1 .. n |-> Event("STDIN", Typed(j))]
ToldUntil(n, closed) ==
  ArgsTold[Len(argv)] \o AllTyped(n) \o (IF closed THEN <<Event("END", Zero)>> ELSE <<>>)

\* What follows the characters of an argument.
After(i) == Event(IF i < Len(argv) THEN "ARG_SEP" ELSE "END", NewLine)

\* Events are events.
LEMMA EventTypes ==
  /\ \A i, j \in Int : Event("ARG", Character(i, j)) \in Events
  /\ \A n \in Int : Event("STDIN", Typed(n)) \in Events
  /\ Event("ARG_SEP", NewLine) \in Events /\ Event("END", NewLine) \in Events
  /\ Event("END", Zero) \in Events
  /\ \A i : After(i) \in Events
  BY DEF Event, Character, Typed, NewLine, Zero, Events, After

\* One character more.
LEMMA OneMoreCharacter ==
  ASSUME NEW i \in Int, NEW n \in Nat
  PROVE  /\ Characters(i, n) \in Seq(Events) /\ Len(Characters(i, n)) = n
         /\ Characters(i, n + 1) = Append(Characters(i, n), Event("ARG", Character(i, n + 1)))
         /\ AllTyped(n) \in Seq(Events)
         /\ AllTyped(n + 1) = Append(AllTyped(n), Event("STDIN", Typed(n + 1)))
  <1> DEFINE c(j) == Event("ARG", Character(i, j))
             t(j) == Event("STDIN", Typed(j))
  <1>1. \A j \in Int : c(j) \in Events /\ t(j) \in Events
    BY EventTypes
  <1> HIDE DEF c, t
  <1>2. /\ [j \in 1 .. n |-> c(j)] \in Seq(Events) /\ Len([j \in 1 .. n |-> c(j)]) = n
        /\ [j \in 1 .. n + 1 |-> c(j)] = Append([j \in 1 .. n |-> c(j)], c(n + 1))
    BY <1>1
  <1>3. /\ [j \in 1 .. n |-> t(j)] \in Seq(Events)
        /\ [j \in 1 .. n + 1 |-> t(j)] = Append([j \in 1 .. n |-> t(j)], t(n + 1))
    BY <1>1
  <1>4. QED
    BY <1>2, <1>3 DEF Characters, AllTyped, c, t

\* An argument is its characters and what follows them.
LEMMA ArgEventsExact ==
  ASSUME argv \in Seq(Nat), NEW i \in 1 .. Len(argv)
  PROVE  /\ ArgEvents(i) = Append(Characters(i, argv[i]), After(i))
         /\ ArgEvents(i) \in Seq(Events) /\ argv[i] \in Nat
  <1>1. i \in Int /\ argv[i] \in Nat
    OBVIOUS
  <1>2. Characters(i, argv[i]) \in Seq(Events) /\ After(i) \in Events
    BY <1>1, OneMoreCharacter, EventTypes
  <1>3. ArgEvents(i) = Characters(i, argv[i]) \o <<After(i)>>
    BY DEF ArgEvents, Characters, After
  <1> DEFINE s == Characters(i, argv[i])
             e == After(i)
  <1> HIDE DEF s, e
  <1>4. s \in Seq(Events) /\ e \in Events => s \o <<e>> = Append(s, e) /\ Append(s, e) \in Seq(Events)
    OBVIOUS
  <1>5. QED
    BY <1>1, <1>2, <1>3, <1>4 DEF s, e

\* The arguments, one by one.
LEMMA ArgsToldExact ==
  ASSUME argv \in Seq(Nat)
  PROVE  /\ ArgsTold \in [0 .. Len(argv) -> Seq(Events)] /\ ArgsTold[0] = <<>>
         /\ \A n \in 1 .. Len(argv) : ArgsTold[n] = ArgsTold[n - 1] \o ArgEvents(n)
         /\ \A n \in 0 .. Len(argv) : Begins(ArgsTold[n], ArgsTold[Len(argv)])
  <1> DEFINE N == Len(argv)
             parts == [i \in 1 .. N |-> ArgEvents(i)]
  <1>1. N \in Nat /\ \A i \in 1 .. N : ArgEvents(i) \in Seq(Events)
    BY ArgEventsExact
  <1>2. parts \in Seq(Seq(Events)) /\ Len(parts) = N
    <2> HIDE DEF N
    <2> QED
      BY <1>1
  <1>3. ArgsTold = Joined(parts) /\ \A n \in 1 .. N : parts[n] = ArgEvents(n)
    BY DEF ArgsTold
  <1> HIDE DEF N, parts
  <1>4. /\ Joined(parts) \in [0 .. N -> Seq(Events)] /\ Joined(parts)[0] = <<>>
        /\ \A n \in 1 .. N : Joined(parts)[n] = Joined(parts)[n - 1] \o parts[n]
    BY <1>2, JoinedExact
  <1>5. \A n \in 0 .. N : Begins(Joined(parts)[n], Joined(parts)[N])
    BY <1>2, JoinedBegins
  <1>6. QED
    BY <1>3, <1>4, <1>5 DEF N

\* What was sent in the middle of an argument begins the arguments.
LEMMA PartBegins ==
  ASSUME argv \in Seq(Nat), NEW a \in 1 .. Len(argv) + 1, NEW c \in Nat \ {0},
         IF a <= Len(argv) THEN c <= argv[a] + 1 ELSE c = 1
  PROVE  /\ ArgsTold[a - 1] \o Characters(a, c - 1) \in Seq(Events)
         /\ Begins(ArgsTold[a - 1] \o Characters(a, c - 1), ArgsTold[Len(argv)])
         /\ a > Len(argv) => ArgsTold[a - 1] \o Characters(a, c - 1) = ArgsTold[Len(argv)]
  <1> DEFINE N == Len(argv)
             s == ArgsTold[a - 1]
             part == Characters(a, c - 1)
             all == ArgsTold[N]
  <1>1. N \in Nat /\ a - 1 \in 0 .. N /\ c - 1 \in Nat
    OBVIOUS
  <1>2. s \in Seq(Events) /\ all \in Seq(Events) /\ part \in Seq(Events) /\ Len(part) = c - 1
        /\ Begins(s, all)
    <2>1. N \in 0 .. N
      BY <1>1
    <2>2. a \in Int
      OBVIOUS
    <2> HIDE DEF N
    <2>3. /\ ArgsTold \in [0 .. N -> Seq(Events)]
          /\ \A n \in 0 .. N : Begins(ArgsTold[n], ArgsTold[N])
      BY ArgsToldExact DEF N
    <2>4. part \in Seq(Events) /\ Len(part) = c - 1
      BY <1>1, <2>2, OneMoreCharacter
    <2>5. QED
      BY <1>1, <2>1, <2>3, <2>4
  <1>3. s \o part \in Seq(Events)
    BY <1>2, ConcatProperties
  <1>4. CASE a <= N
    <2> DEFINE n == argv[a]
               chars == Characters(a, n)
               events == ArgEvents(a)
    <2>1. a \in 1 .. N /\ a \in Int /\ n \in Nat /\ c - 1 <= n
      BY <1>1, <1>4
    <2>2. events = Append(chars, After(a)) /\ events \in Seq(Events)
      BY <2>1, ArgEventsExact
    <2>3. ArgsTold[a] = s \o events /\ ArgsTold[a] \in Seq(Events) /\ Begins(ArgsTold[a], all)
      <3> HIDE DEF n, chars, events
      <3>1. a \in 0 .. N
        BY <1>1, <2>1
      <3> HIDE DEF s, all, N
      <3>2. /\ ArgsTold \in [0 .. N -> Seq(Events)]
            /\ \A m \in 1 .. N : ArgsTold[m] = ArgsTold[m - 1] \o ArgEvents(m)
            /\ \A m \in 0 .. N : Begins(ArgsTold[m], all)
        BY ArgsToldExact, Zenon DEF N, all
      <3>3. QED
        BY <2>1, <3>1, <3>2 DEF s, events
    <2> HIDE DEF n
    <2>4. chars \in Seq(Events) /\ Len(chars) = n
      BY <2>1, OneMoreCharacter
    <2>5. \A j \in 1 .. c - 1 : part[j] = chars[j]
      BY <1>1, <2>1 DEF Characters
    <2> HIDE DEF chars, events, s, part, all, N
    <2>6. Begins(part, chars)
      BY <1>2, <2>1, <2>4, <2>5 DEF Begins
    <2>7. events = chars \o <<After(a)>> /\ <<After(a)>> \in Seq(Events)
      <3>1. After(a) \in Events
        BY EventTypes
      <3>2. QED
        BY <2>2, <2>4, <3>1
    <2>8. Begins(part, events)
      BY <1>2, <2>4, <2>6, <2>7, BeginsConcat
    <2>9. Begins(s \o part, ArgsTold[a])
      BY <1>2, <2>2, <2>3, <2>8, BeginsAfter
    <2>10. Begins(s \o part, all)
      BY <1>2, <1>3, <2>3, <2>9, BeginsThrough
    <2>11. ~(a > N)
      BY <1>1, <1>4, <2>1
    <2>12. QED
      BY <1>3, <2>10, <2>11 DEF s, part, all, N
  <1>5. CASE ~(a <= N)
    <2>1. a - 1 = N /\ c - 1 = 0
      BY <1>1, <1>5
    <2>2. part = <<>>
      BY <2>1 DEF Characters
    <2>3. s = all
      BY <2>1
    <2>4. s \o part = s
      <3> HIDE DEF s, part
      <3> QED
        BY <1>2, <2>2
    <2>5. QED
      BY <1>2, <1>3, <2>3, <2>4
  <1>6. QED
    BY <1>4, <1>5

\* The program is told a character more, or the end.
LEMMA ToldGrows ==
  ASSUME argv \in Seq(Nat), NEW n \in Nat
  PROVE  /\ ToldUntil(n, TRUE) \in Seq(Events) /\ ToldUntil(n, FALSE) \in Seq(Events)
         /\ ToldUntil(n + 1, FALSE) = Append(ToldUntil(n, FALSE), Event("STDIN", Typed(n + 1)))
         /\ ToldUntil(n, TRUE) = Append(ToldUntil(n, FALSE), Event("END", Zero))
         /\ ToldUntil(0, FALSE) = ArgsTold[Len(argv)]
  <1> DEFINE all == ArgsTold[Len(argv)]
             t == AllTyped(n)
             e == Event("STDIN", Typed(n + 1))
             end == Event("END", Zero)
  <1>1. all \in Seq(Events)
    <2>1. Len(argv) \in 0 .. Len(argv)
      OBVIOUS
    <2>2. QED
      BY <2>1, ArgsToldExact
  <1>2. t \in Seq(Events) /\ AllTyped(n + 1) = Append(t, e) /\ e \in Events /\ end \in Events
    <2>1. n + 1 \in Int /\ 0 \in Int
      OBVIOUS
    <2>2. QED
      BY <2>1, OneMoreCharacter, EventTypes
  <1>3. AllTyped(0) = <<>>
    BY DEF AllTyped
  <1>4. /\ ToldUntil(n, FALSE) = all \o t \o <<>> /\ ToldUntil(n, TRUE) = all \o t \o <<end>>
        /\ ToldUntil(n + 1, FALSE) = all \o Append(t, e) \o <<>> /\ ToldUntil(0, FALSE) = all \o <<>> \o <<>>
    BY <1>2, <1>3 DEF ToldUntil
  <1> HIDE DEF all, t, e, end
  <1>5. /\ all \o t \o <<>> = all \o t /\ all \o t \in Seq(Events)
        /\ all \o t \o <<end>> = Append(all \o t, end)
        /\ all \o Append(t, e) \o <<>> = Append(all \o t, e)
        /\ all \o <<>> \o <<>> = all
        /\ Append(all \o t, end) \in Seq(Events)
    BY <1>1, <1>2
  <1>6. QED
    BY <1>4, <1>5 DEF all, e, end

-----------------------------------------------------------------------------
(***************************************************************************)
(* The steps.                                                              *)
(***************************************************************************)

\* What there is to tell, of so much that was typed.
LEMMA ToTellIs ==
  ASSUME argv' = argv
  PROVE  /\ stdinClosed => ToTell = ToldUntil(typed, TRUE)
         /\ ~stdinClosed => ToTell = ToldUntil(typed, FALSE)
         /\ stdinClosed' => ToTell' = ToldUntil(typed', TRUE)
         /\ ~stdinClosed' => ToTell' = ToldUntil(typed', FALSE)
         /\ ArgsTold' = ArgsTold
         /\ typed' = typed /\ stdinClosed' = stdinClosed => ToTell' = ToTell
  <1>1. ArgsTold' = ArgsTold
    BY DEF ArgsTold, ArgEvents
  <1>2. /\ ToTell = ArgsTold[Len(argv)] \o AllTyped(typed)
                      \o (IF stdinClosed THEN <<Event("END", Zero)>> ELSE <<>>)
        /\ ToTell' = ArgsTold[Len(argv)] \o AllTyped(typed')
                       \o (IF stdinClosed' THEN <<Event("END", Zero)>> ELSE <<>>)
    BY <1>1 DEF ToTell, AllTyped
  <1>3. \A n : /\ ToldUntil(n, TRUE) = ArgsTold[Len(argv)] \o AllTyped(n) \o <<Event("END", Zero)>>
               /\ ToldUntil(n, FALSE) = ArgsTold[Len(argv)] \o AllTyped(n) \o <<>>
    BY DEF ToldUntil
  <1>4. typed' = typed /\ stdinClosed' = stdinClosed => ToTell' = ToTell
    BY <1>1 DEF ToTell
  <1>5. QED
    BY <1>1, <1>2, <1>3, <1>4

\* What was sent begins with nothing left out.
LEMMA SentType ==
  ASSUME ConsoleInv
  PROVE  /\ argv \in Seq(Nat) /\ typed \in Nat /\ stdinClosed \in BOOLEAN
         /\ phase \in {"reset", "args"} => sent \in Seq(Events)
         /\ phase \in {"input", "frame"} => sent = ToTell
  <1>1. argv \in Seq(Nat) /\ typed \in Nat /\ stdinClosed \in BOOLEAN
    BY DEF ConsoleInv, ConsoleTypeOK
  <1>2. phase \in {"input", "frame"} => sent = ToTell
    BY DEF ConsoleInv, ConsoleExact, InputExact
  <1>3. phase \in {"reset", "args"} => sent \in Seq(Events)
    <2>1. ArgsTold[arg - 1] \o Characters(arg, ch - 1) \in Seq(Events)
      BY PartBegins DEF ConsoleInv, ConsoleTypeOK
    <2>2. QED
      BY <2>1 DEF ConsoleInv, Sending, Characters
  <1>4. QED
    BY <1>1, <1>2, <1>3

\* All is a beginning of itself.
LEMMA BeginsItself ==
  ASSUME NEW s \in Seq(Events)
  PROVE  Begins(s, s)
  BY LenProperties DEF Begins

\* It holds at first.
LEMMA ConsoleInit == InitConsole => ConsoleInv
  <1> SUFFICES ASSUME InitConsole
               PROVE  ConsoleInv
    OBVIOUS
  <1>1. ConsoleTypeOK
    <2>1. argv \in Seq(Nat)
      BY ArgumentsAssumption DEF InitConsole
    <2>2. 1 \in 1 .. Len(argv) + 1 /\ Len(argv) \in Nat
      BY <2>1
    <2>3. 1 <= Len(argv) => argv[1] \in Nat
      BY <2>1
    <2>4. <<0>> \in Seq(Nat) /\ <<0>> # <<>> /\ <<>> \in Seq(Nat)
      OBVIOUS
    <2>5. lines \in [Streams -> Seq(Nat)] /\ (\A b \in Streams : lines[b] # <<>>)
      BY <2>4 DEF InitConsole
    <2>6. buffers \in [Streams -> Nat] /\ log \in [Streams -> Seq(Nat)]
      BY <2>4 DEF InitConsole
    <2>7. 1 <= argv[1] + 1 \/ ~(1 <= Len(argv))
      BY <2>3
    <2>8. IF arg <= Len(argv) THEN ch <= argv[arg] + 1 ELSE ch = 1
      BY <2>3, <2>7 DEF InitConsole
    <2>9. /\ app \in {"cli", "gui"} /\ phase = "reset" /\ arg = 1 /\ ch = 1 /\ state = 0
          /\ typed = 0 /\ stdinClosed = FALSE
      BY DEF InitConsole
    <2>10. arg \in 1 .. Len(argv) + 1 /\ ch \in Nat \ {0} /\ typed \in Nat /\ stdinClosed \in BOOLEAN
      <3>1. arg \in 1 .. Len(argv) + 1 /\ ch \in Nat \ {0} /\ typed \in Nat
        BY <2>2 DEF InitConsole
      <3>2. stdinClosed \in BOOLEAN
        BY DEF InitConsole
      <3>3. QED
        BY <3>1, <3>2
    <2>11. state \in States /\ phase \in {"reset", "args", "input", "frame", "ended"}
      BY <2>9 DEF States
    <2>12. QED
      BY <2>1, <2>5, <2>6, <2>8, <2>9, <2>10, <2>11, Zenon DEF ConsoleTypeOK
  <1>2. argv \in Seq(Nat) /\ ArgsTold[0] = <<>>
    BY <1>1, ArgsToldExact DEF ConsoleTypeOK
  <1>3. Characters(1, 0) = <<>>
    BY DEF Characters
  <1>4. Sending
    <2>1. sent = ArgsTold[arg - 1] \o Characters(arg, ch - 1)
      BY <1>2, <1>3 DEF InitConsole
    <2>2. QED
      BY <2>1 DEF Sending, InitConsole, Characters
  <1>5. InputExact
    BY DEF InitConsole, InputExact, ToTell
  <1>6. OutputExact
    <2>1. Logged(<<0>>) = <<>>
      <3>1. Len(<<0>>) = 1 /\ <<0>>[1] = 0
        OBVIOUS
      <3>2. 0 \div Room = 0
        BY BufferAssumption DEF Room
      <3>3. Whole(0) = <<>>
        BY <3>2 DEF Whole
      <3>4. <<0>> \in Seq(Nat) /\ <<0>> # <<>>
        OBVIOUS
      <3>5. Ended(<<0>>) \in Seq(Seq(Nat))
        BY <3>4, EndedType
      <3>6. Joined(Ended(<<0>>))[0] = <<>>
        BY <3>5, JoinedExact
      <3>7. Logged(<<0>>) = Joined(Ended(<<0>>))[0] \o Whole(0)
        BY <3>1 DEF Logged, Ended
      <3>8. QED
        BY <3>3, <3>6, <3>7
    <2>2. <<0>>[Len(<<0>>)] % Room = 0
      BY BufferAssumption DEF Room
    <2>3. \A b \in Streams : log[b] = <<>> /\ lines[b] = <<0>> /\ buffers[b] = 0
      BY DEF InitConsole
    <2>4. QED
      BY <2>1, <2>2, <2>3 DEF OutputExact
  <1>7. LeftAlone
    BY DEF InitConsole, LeftAlone
  <1>8. QED
    BY <1>1, <1>4, <1>5, <1>6, <1>7 DEF ConsoleInv, ConsoleExact

\* What the program does to its own state, whatever the host does.
LEMMA ProgramExact ==
  ASSUME ConsoleInv, app' = app, Execution \/ UNCHANGED programVars
  PROVE  Output' /\ state' \in States
  BY ExecutionExact DEF ConsoleInv, ConsoleTypeOK, ConsoleExact, Output

\* A step of a host keeps the types, if what it changes itself has its own.
LEMMA SameTypes ==
  ASSUME ConsoleInv, Output', state' \in States, UNCHANGED <<app, argv>>,
         phase' \in {"reset", "args", "input", "frame", "ended"},
         arg' \in 1 .. Len(argv) + 1, ch' \in Nat \ {0},
         IF arg' <= Len(argv) THEN ch' <= argv[arg'] + 1 ELSE ch' = 1,
         typed' \in Nat, stdinClosed' \in BOOLEAN
  PROVE  ConsoleTypeOK' /\ OutputExact'
  BY DEF ConsoleInv, ConsoleTypeOK, Output

\* The first execution: the command line program may end after it.
LEMMA ResetStep ==
  ASSUME ConsoleInv, Reset
  PROVE  ConsoleInv'
  <1>1. Output' /\ state' \in States
    BY ProgramExact DEF Reset
  <1>2. UNCHANGED <<app, argv, arg, ch, sent, typed, stdinClosed, late>>
    BY DEF Reset, Unread
  <1>3. ConsoleTypeOK' /\ OutputExact'
    BY <1>1, <1>2, SameTypes DEF Reset, ConsoleInv, ConsoleTypeOK
  <1>4. ArgsTold' = ArgsTold /\ ToTell' = ToTell
    BY <1>2, ToTellIs, SentType
  <1>5. Sending'
    BY <1>2, <1>4 DEF Reset, ConsoleInv, Sending
  <1>6. InputExact'
    <2>1. phase' = "ended" => app = "cli" /\ state' # 0
      BY DEF Reset, Failed, ExitCode
    <2>2. QED
      BY <1>2, <1>4, <2>1 DEF Reset, ConsoleInv, ConsoleExact, InputExact
  <1>7. LeftAlone'
    BY <1>2 DEF ConsoleInv, ConsoleExact, LeftAlone
  <1>8. QED
    BY <1>3, <1>5, <1>6, <1>7 DEF ConsoleInv, ConsoleExact

\* A character of an argument, or what follows the argument.
LEMMA SendArgStep ==
  ASSUME ConsoleInv, SendArg
  PROVE  ConsoleInv'
  <1>1. Output' /\ state' \in States
    <2>1. app' = app /\ (Execution \/ UNCHANGED programVars)
      BY DEF SendArg, Send
    <2>2. QED
      BY <2>1, ProgramExact
  <1>2. /\ UNCHANGED <<app, phase, argv, typed, stdinClosed, late>>
        /\ phase = "args" /\ typed = 0 /\ ~stdinClosed /\ argv \in Seq(Nat)
        /\ arg \in 1 .. Len(argv) /\ ch \in Nat \ {0} /\ argv[arg] \in Nat /\ ch <= argv[arg] + 1
        /\ sent = ArgsTold[arg - 1] \o Characters(arg, ch - 1)
    <2>1. UNCHANGED <<app, phase, argv, typed, stdinClosed, late>> /\ phase = "args" /\ arg <= Len(argv)
      BY DEF SendArg, Unread
    <2>2. argv \in Seq(Nat) /\ arg \in 1 .. Len(argv) + 1 /\ ch \in Nat \ {0} /\ ch <= argv[arg] + 1
      BY <2>1 DEF ConsoleInv, ConsoleTypeOK
    <2>3. arg \in 1 .. Len(argv)
      BY <2>1, <2>2
    <2>4. argv[arg] \in Nat
      BY <2>2, <2>3
    <2>5. QED
      BY <2>1, <2>2, <2>3, <2>4 DEF ConsoleInv, Sending, Characters
  <1> DEFINE before == ArgsTold[arg - 1]
             part == Characters(arg, ch - 1)
  <1>3. before \in Seq(Events) /\ part \in Seq(Events)
    <2>1. arg - 1 \in 0 .. Len(argv) /\ arg \in Int /\ ch - 1 \in Nat
      BY <1>2
    <2>2. QED
      BY <1>2, <2>1, ArgsToldExact, OneMoreCharacter
  <1>4. /\ arg' \in 1 .. Len(argv) + 1 /\ ch' \in Nat \ {0}
        /\ IF arg' <= Len(argv) THEN ch' <= argv[arg'] + 1 ELSE ch' = 1
        /\ sent' = ArgsTold[arg' - 1] \o Characters(arg', ch' - 1)
    <2>1. CASE ch <= argv[arg]
      <3> DEFINE e == Event("ARG", Character(arg, ch))
      <3>1. arg' = arg /\ ch' = ch + 1 /\ sent' = Append(sent, e)
        BY <2>1 DEF SendArg, Send
      <3>2. Characters(arg, ch) = Append(part, e) /\ e \in Events
        <4>1. arg \in Int /\ ch \in Int /\ ch - 1 \in Nat /\ (ch - 1) + 1 = ch
          BY <1>2
        <4>2. QED
          BY <4>1, OneMoreCharacter, EventTypes
      <3> HIDE DEF e, before, part
      <3>3. Append(before \o part, e) = before \o Append(part, e)
        <4>1. before \in Seq(Events) /\ part \in Seq(Events) /\ e \in Events
          BY <1>3, <3>2
        <4>2. QED
          BY <4>1
      <3>4. sent' = before \o Characters(arg, ch)
        BY <1>2, <3>1, <3>2, <3>3 DEF before, part
      <3>5. arg' - 1 = arg - 1 /\ ch' - 1 = ch /\ ch' \in Nat \ {0} /\ ch' <= argv[arg'] + 1
        BY <1>2, <2>1, <3>1
      <3>6. arg' \in 1 .. Len(argv) + 1 /\ arg' <= Len(argv)
        BY <1>2, <3>1
      <3>7. QED
        BY <3>1, <3>4, <3>5, <3>6 DEF before
    <2>2. CASE ~(ch <= argv[arg])
      <3>1. arg' = arg + 1 /\ ch' = 1 /\ sent' = Append(sent, After(arg))
        <4>1. arg = Len(argv) <=> ~(arg < Len(argv))
          BY <1>2
        <4>2. QED
          BY <2>2, <4>1 DEF SendArg, Send, After
      <3>2. ch - 1 = argv[arg]
        BY <1>2, <2>2
      <3>3. ArgEvents(arg) = Append(part, After(arg)) /\ After(arg) \in Events
        BY <1>2, <3>2, ArgEventsExact, EventTypes
      <3>4. ArgsTold[arg] = before \o ArgEvents(arg) /\ ArgsTold[arg] \in Seq(Events)
        <4>1. arg \in 0 .. Len(argv)
          BY <1>2
        <4>2. QED
          BY <1>2, <4>1, ArgsToldExact
      <3> HIDE DEF before, part
      <3>5. Append(before \o part, After(arg)) = before \o Append(part, After(arg))
        <4>1. before \in Seq(Events) /\ part \in Seq(Events) /\ After(arg) \in Events
          BY <1>3, <3>3
        <4>2. QED
          BY <4>1
      <3>6. sent' = ArgsTold[arg]
        BY <1>2, <3>1, <3>3, <3>4, <3>5 DEF before, part
      <3>7. Characters(arg', ch' - 1) = <<>>
        BY <3>1 DEF Characters
      <3>8. ArgsTold[arg] = ArgsTold[arg] \o <<>>
        BY <3>4
      <3>9. arg' - 1 = arg /\ arg' \in 1 .. Len(argv) + 1
        BY <1>2, <3>1
      <3>10. arg' <= Len(argv) => ch' <= argv[arg'] + 1
        <4>1. ASSUME arg' <= Len(argv)
              PROVE  argv[arg'] \in Nat
          BY <1>2, <3>9, <4>1
        <4>2. QED
          BY <3>1, <4>1
      <3>11. ch' \in Nat \ {0} /\ sent' = ArgsTold[arg' - 1] \o Characters(arg', ch' - 1)
        <4>1. sent' = ArgsTold[arg] \o Characters(arg', ch' - 1)
          BY <3>6, <3>7, <3>8
        <4>2. ArgsTold[arg' - 1] = ArgsTold[arg]
          BY <3>9
        <4>3. QED
          BY <3>1, <4>1, <4>2
      <3>12. QED
        BY <3>1, <3>9, <3>10, <3>11
    <2>3. QED
      BY <2>1, <2>2
  <1> HIDE DEF before, part
  <1>5. ConsoleTypeOK' /\ OutputExact'
    BY <1>1, <1>2, <1>4, SameTypes DEF ConsoleInv, ConsoleTypeOK
  <1>6. ArgsTold' = ArgsTold /\ ToTell' = ArgsTold[Len(argv)]
    <2>1. ToTell' = ToldUntil(0, FALSE) /\ ArgsTold' = ArgsTold
      BY <1>2, ToTellIs
    <2>2. QED
      BY <1>2, <2>1, ToldGrows
  <1>7. Sending'
    BY <1>2, <1>4, <1>6 DEF Sending, Characters
  <1>8. InputExact'
    <2>1. Begins(sent', ToTell')
      BY <1>2, <1>4, <1>6, PartBegins
    <2>2. QED
      BY <1>2, <2>1 DEF InputExact, Begins
  <1>9. LeftAlone'
    BY <1>2 DEF ConsoleInv, ConsoleExact, LeftAlone
  <1>10. QED
    BY <1>5, <1>7, <1>8, <1>9 DEF ConsoleInv, ConsoleExact

\* When the arguments are sent, all that there is to tell was told.
LEMMA ArgsSentStep ==
  ASSUME ConsoleInv, ArgsSent
  PROVE  ConsoleInv'
  <1>1. Output' /\ state' \in States
    BY ProgramExact DEF ArgsSent
  <1>2. UNCHANGED <<app, argv, arg, ch, sent, typed, stdinClosed, late, state>>
    BY DEF ArgsSent, Unread, programVars
  <1>3. ConsoleTypeOK' /\ OutputExact'
    BY <1>1, <1>2, SameTypes DEF ArgsSent, ConsoleInv, ConsoleTypeOK
  <1>4. ArgsTold' = ArgsTold /\ ToTell' = ToTell
    BY <1>2, ToTellIs, SentType
  <1>5. sent = ToTell
    <2>1. typed = 0 /\ ~stdinClosed /\ sent = ArgsTold[arg - 1] \o Characters(arg, ch - 1)
      BY DEF ArgsSent, ConsoleInv, Sending, Characters
    <2>2. ToTell = ToldUntil(0, FALSE)
      BY <1>2, <2>1, ToTellIs
    <2>3. ToTell = ArgsTold[Len(argv)]
      BY <2>2, SentType, ToldGrows
    <2>4. arg > Len(argv)
      BY DEF ArgsSent
    <2>5. QED
      BY <2>1, <2>3, <2>4, PartBegins DEF ConsoleInv, ConsoleTypeOK
  <1>6. Sending'
    BY <1>2 DEF ArgsSent, ConsoleInv, Sending
  <1>7. InputExact'
    <2>1. phase' = "ended" => app = "cli" /\ state' # 0
      BY <1>2 DEF ArgsSent, Failed, ExitCode
    <2>2. QED
      BY <1>2, <1>4, <1>5, <2>1 DEF ArgsSent, ConsoleInv, ConsoleExact, InputExact
  <1>8. LeftAlone'
    BY <1>2 DEF ConsoleInv, ConsoleExact, LeftAlone
  <1>9. QED
    BY <1>3, <1>6, <1>7, <1>8 DEF ConsoleInv, ConsoleExact

\* What a step has to do once the arguments were sent.
LEMMA Later ==
  ASSUME ConsoleInv, phase \in {"input", "frame"}, phase' \in {"input", "frame", "ended"},
         UNCHANGED <<app, argv, arg, ch>>, Execution \/ UNCHANGED programVars,
         typed' \in Nat, stdinClosed' \in BOOLEAN, sent' = ToTell', sent' \in Seq(Events),
         phase' = "frame" => app = "gui",
         app = "cli" /\ phase' = "input" => ~stdinClosed',
         app = "cli" /\ phase' = "ended" /\ state' = 0 /\ vector' => stdinClosed',
         LeftAlone'
  PROVE  ConsoleInv'
  <1>1. Output' /\ state' \in States
    BY ProgramExact
  <1>2. ConsoleTypeOK' /\ OutputExact'
    BY <1>1, SameTypes DEF ConsoleInv, ConsoleTypeOK
  <1>3. Sending'
    BY DEF Sending
  <1>4. InputExact'
    <2>1. Begins(sent', ToTell')
      BY BeginsItself
    <2>2. QED
      BY <2>1 DEF InputExact, Begins
  <1>5. QED
    BY <1>2, <1>3, <1>4 DEF ConsoleInv, ConsoleExact

\* What is sent is what there is to tell, after another character or the end.
LEMMA InputTold ==
  ASSUME ConsoleInv, phase \in {"input", "frame"}, ~stdinClosed, NEW isEnd \in BOOLEAN, Input(isEnd)
  PROVE  /\ UNCHANGED <<app, argv, arg, ch>> /\ (Execution \/ UNCHANGED programVars)
         /\ typed' \in Nat /\ stdinClosed' = isEnd /\ late' = (late \/ state # 0)
         /\ sent' = ToTell' /\ sent' \in Seq(Events)
  <1>1. /\ UNCHANGED <<app, argv, arg, ch>> /\ (Execution \/ UNCHANGED programVars)
        /\ stdinClosed' = isEnd /\ late' = (late \/ state # 0)
    BY DEF Input, Send
  <1>2. argv \in Seq(Nat) /\ typed \in Nat /\ sent = ToTell
    BY SentType
  <1>3. sent = ToldUntil(typed, FALSE) /\ ToTell' = ToldUntil(typed', isEnd)
    <2>1. /\ isEnd => ToTell' = ToldUntil(typed', TRUE)
          /\ ~isEnd => ToTell' = ToldUntil(typed', FALSE)
      BY <1>1, ToTellIs
    <2>2. sent = ToldUntil(typed, FALSE)
      BY <1>1, <1>2, ToTellIs
    <2>3. isEnd = TRUE \/ isEnd = FALSE
      OBVIOUS
    <2>4. QED
      BY <2>1, <2>2, <2>3
  <1>4. CASE isEnd
    <2>1. typed' = typed /\ sent' = Append(sent, Event("END", Zero))
      BY <1>4 DEF Input, Send
    <2>2. QED
      BY <1>1, <1>2, <1>3, <1>4, <2>1, ToldGrows
  <1>5. CASE ~isEnd
    <2>1. typed' = typed + 1 /\ sent' = Append(sent, Event("STDIN", Typed(typed + 1)))
      BY <1>5 DEF Input, Send
    <2>2. typed + 1 \in Nat
      BY <1>2
    <2>3. sent' = ToldUntil(typed + 1, FALSE)
      BY <1>2, <1>3, <2>1, ToldGrows
    <2>4. ToldUntil(typed + 1, FALSE) \in Seq(Events)
      BY <1>2, <2>2, ToldGrows
    <2>5. QED
      BY <1>1, <1>3, <1>5, <2>1, <2>2, <2>3, <2>4
  <1>6. QED
    BY <1>4, <1>5

\* What was sent when nothing is.
LEMMA NothingTold ==
  ASSUME ConsoleInv, phase \in {"input", "frame"}, UNCHANGED <<argv, typed, stdinClosed, sent>>
  PROVE  sent' = ToTell' /\ sent' \in Seq(Events) /\ typed' \in Nat /\ stdinClosed' \in BOOLEAN
  <1>1. argv \in Seq(Nat) /\ typed \in Nat /\ stdinClosed \in BOOLEAN /\ sent = ToTell
    BY SentType
  <1>2. ToTell' = ToTell /\ (ToTell = ToldUntil(typed, TRUE) \/ ToTell = ToldUntil(typed, FALSE))
    BY <1>1, ToTellIs
  <1>3. ToldUntil(typed, TRUE) \in Seq(Events) /\ ToldUntil(typed, FALSE) \in Seq(Events)
    BY <1>1, ToldGrows
  <1>4. QED
    BY <1>1, <1>2, <1>3

\* The command line program reads a character, or the end.
LEMMA FgetcStep ==
  ASSUME ConsoleInv, FgetcSends
  PROVE  ConsoleInv'
  <1>1. PICK isEnd \in BOOLEAN : Input(isEnd) /\ phase' = IF isEnd THEN "ended" ELSE phase
    BY DEF FgetcSends
  <1>2. app = "cli" /\ phase = "input" /\ Listens
    BY DEF FgetcSends
  <1>3. ~stdinClosed /\ state \in States /\ ~late
    BY <1>2 DEF ConsoleInv, Sending, ConsoleTypeOK, ConsoleExact, LeftAlone
  <1>4. state = 0
    BY <1>2, <1>3 DEF Listens, ExitCode, States
  <1>5. /\ UNCHANGED <<app, argv, arg, ch>> /\ (Execution \/ UNCHANGED programVars)
        /\ typed' \in Nat /\ stdinClosed' = isEnd /\ late' = (late \/ state # 0)
        /\ sent' = ToTell' /\ sent' \in Seq(Events)
    BY <1>1, <1>2, <1>3, InputTold
  <1>6. LeftAlone'
    BY <1>3, <1>4, <1>5 DEF LeftAlone
  <1>7. phase' \in {"input", "ended"} /\ (phase' = "ended" <=> isEnd)
    BY <1>1, <1>2
  <1>8. QED
    BY <1>2, <1>5, <1>6, <1>7, Later

\* It ends since the program has left or listens no more.
LEMMA EndsStep ==
  ASSUME ConsoleInv, Ends
  PROVE  ConsoleInv'
  <1>1. /\ app = "cli" /\ phase = "input" /\ phase' = "ended" /\ ~Listens
        /\ UNCHANGED <<app, argv, arg, ch, sent, typed, stdinClosed, late>> /\ UNCHANGED programVars
    BY DEF Ends, Unread
  <1>2. ~(state' = 0 /\ vector')
    BY <1>1 DEF Listens, ExitCode, programVars
  <1>3. LeftAlone'
    BY <1>1 DEF ConsoleInv, ConsoleExact, LeftAlone
  <1>4. sent' = ToTell' /\ sent' \in Seq(Events) /\ typed' \in Nat /\ stdinClosed' \in BOOLEAN
    BY <1>1, NothingTold
  <1>5. QED
    BY <1>1, <1>2, <1>3, <1>4, Later

\* A frame of the GUI begins.
LEMMA FrameBeginsStep ==
  ASSUME ConsoleInv, FrameBegins
  PROVE  ConsoleInv'
  <1>1. /\ app = "gui" /\ phase = "input" /\ phase' = "frame"
        /\ UNCHANGED <<app, argv, arg, ch, sent, typed, stdinClosed, late>> /\ UNCHANGED programVars
    BY DEF FrameBegins, Unread
  <1>2. LeftAlone'
    BY <1>1 DEF LeftAlone
  <1>3. sent' = ToTell' /\ sent' \in Seq(Events) /\ typed' \in Nat /\ stdinClosed' \in BOOLEAN
    BY <1>1, NothingTold
  <1>4. QED
    BY <1>1, <1>2, <1>3, Later

\* The GUI has read a character, or the end.
LEMMA PollStep ==
  ASSUME ConsoleInv, PollSends
  PROVE  ConsoleInv'
  <1>1. PICK isEnd \in BOOLEAN : Input(isEnd)
    BY DEF PollSends
  <1>2. phase = "frame" /\ phase' = "frame" /\ ~stdinClosed /\ app = "gui"
    BY DEF PollSends, ConsoleInv, Sending
  <1>3. /\ UNCHANGED <<app, argv, arg, ch>> /\ (Execution \/ UNCHANGED programVars)
        /\ typed' \in Nat /\ stdinClosed' = isEnd
        /\ sent' = ToTell' /\ sent' \in Seq(Events)
    BY <1>1, <1>2, InputTold
  <1>4. LeftAlone'
    BY <1>2, <1>3 DEF LeftAlone
  <1>5. QED
    BY <1>2, <1>3, <1>4, Later

\* A frame of the GUI ends with other vectors of the program.
LEMMA FrameEndsStep ==
  ASSUME ConsoleInv, FrameEnds
  PROVE  ConsoleInv'
  <1>1. /\ phase = "frame" /\ phase' \in {"input", "ended"} /\ Execution
        /\ UNCHANGED <<app, argv, arg, ch, sent, typed, stdinClosed, late>>
    BY DEF FrameEnds, Unread
  <1>2. app = "gui"
    BY <1>1 DEF ConsoleInv, Sending
  <1>3. LeftAlone'
    BY <1>1, <1>2 DEF LeftAlone
  <1>4. sent' = ToTell' /\ sent' \in Seq(Events) /\ typed' \in Nat /\ stdinClosed' \in BOOLEAN
    BY <1>1, NothingTold
  <1>5. QED
    BY <1>1, <1>2, <1>3, <1>4, Later

\* Nothing happens.
LEMMA SameConsole ==
  ASSUME ConsoleInv, UNCHANGED consoleVars
  PROVE  ConsoleInv'
  BY DEF ConsoleInv, ConsoleTypeOK, Sending, ConsoleExact, InputExact, LeftAlone, OutputExact, ToTell, ArgsTold,
     ArgEvents, consoleVars, programVars

\* The invariant of the console is inductive.
THEOREM ConsoleInductive == ConsoleSpec => []ConsoleInv
  <1>1. ConsoleInv /\ [NextConsole]_consoleVars => ConsoleInv'
    BY ResetStep, SendArgStep, ArgsSentStep, FgetcStep, EndsStep, FrameBeginsStep, PollStep,
       FrameEndsStep, SameConsole DEF NextConsole
  <1>2. QED
    BY <1>1, ConsoleInit, PTL DEF ConsoleSpec

\* Both hosts tell a program its arguments, what was typed and the end, in order and
\* once, the command line program nothing after the program has left; and the GUI
\* logs all that the program writes.
THEOREM TellsAndLogs == ConsoleSpec => []ConsoleExact
  <1>1. ConsoleInv => ConsoleExact
    BY DEF ConsoleInv
  <1>2. QED
    BY <1>1, ConsoleInductive, PTL

-----------------------------------------------------------------------------
(***************************************************************************)
(* Hands.                                                                  *)
(***************************************************************************)

\* What the variables range over.
HandsTypeOK ==
  /\ touching \subseteq Fingers
  /\ mouse \in [buttons : SUBSET MouseButtons, scroll : {0, 1}]
  /\ held \subseteq MouseButtons /\ keysHeld \subseteq Keys /\ focused \in BOOLEAN
  /\ controller \in [buttons : SUBSET {ButtonOf[k] : k \in Keys}, ch : {0, 1}]
  /\ seen \in [down : BOOLEAN, presses : Nat, releases : Nat, scrolls : Nat, chars : Nat]
  /\ done \in [taps : Nat, clicks : Nat, scrolls : Nat, chars : Nat]

\* Between two events there is neither a turn of the wheel nor a character.
AtRest == mouse.scroll = 0 /\ controller.ch = 0

HandsInv == HandsTypeOK /\ AtRest /\ HandsExact

Seen == [down : BOOLEAN, presses : Nat, releases : Nat, scrolls : Nat, chars : Nat]
Mouse == [buttons : SUBSET MouseButtons, scroll : {0, 1}]

-----------------------------------------------------------------------------
(***************************************************************************)
(* The vectors.                                                            *)
(***************************************************************************)

\* What a program has seen after its mouse vector.
LEMMA MouseVectorExact ==
  ASSUME NEW s \in Seen, NEW m \in Mouse
  PROVE  LET t == MouseVector(s, m)
             down == Left \in m.buttons
         IN  /\ t \in Seen
             /\ t.down = down /\ t.chars = s.chars
             /\ t.scrolls = IF m.scroll = 0 THEN s.scrolls ELSE s.scrolls + 1
             /\ t.presses = IF down /\ ~s.down THEN s.presses + 1 ELSE s.presses
             /\ t.releases = IF s.down /\ ~down THEN s.releases + 1 ELSE s.releases
  <1> DEFINE t == MouseVector(s, m)
             down == Left \in m.buttons
  <1>1. /\ down \in BOOLEAN /\ s.down \in BOOLEAN
        /\ s.presses \in Nat /\ s.releases \in Nat /\ s.scrolls \in Nat /\ s.chars \in Nat
    BY DEF Seen
  <1>2. /\ Told(down /\ ~s.down) \in Nat /\ Told(~down /\ s.down) \in Nat
        /\ Told(m.scroll # 0) \in Nat
    BY DEF Told
  <1>3. t = [down |-> down, presses |-> s.presses + Told(down /\ ~s.down),
             releases |-> s.releases + Told(~down /\ s.down),
             scrolls |-> s.scrolls + Told(m.scroll # 0), chars |-> s.chars]
    <2> DEFINE a == Told(down /\ ~s.down)
               b == Told(~down /\ s.down)
               c == Told(m.scroll # 0)
    <2>1. t = [s EXCEPT !.down = down, !.presses = @ + a, !.releases = @ + b, !.scrolls = @ + c]
      BY DEF MouseVector
    <2> HIDE DEF t, down, a, b, c
    <2>2. t = [down |-> down, presses |-> s.presses + a, releases |-> s.releases + b,
               scrolls |-> s.scrolls + c, chars |-> s.chars]
      BY <2>1 DEF Seen
    <2>3. QED
      BY <2>2, Zenon DEF a, b, c
  <1> HIDE DEF t, down
  <1>4. /\ t.down = down /\ t.chars = s.chars
        /\ t.presses = s.presses + Told(down /\ ~s.down)
        /\ t.releases = s.releases + Told(~down /\ s.down)
        /\ t.scrolls = s.scrolls + Told(m.scroll # 0)
    BY <1>3, Zenon
  <1>5. t \in Seen
    <2>1. /\ s.presses + Told(down /\ ~s.down) \in Nat
          /\ s.releases + Told(~down /\ s.down) \in Nat
          /\ s.scrolls + Told(m.scroll # 0) \in Nat
      BY <1>1, <1>2
    <2>2. QED
      BY <1>1, <1>3, <2>1 DEF Seen
  <1>6. /\ t.scrolls = IF m.scroll = 0 THEN s.scrolls ELSE s.scrolls + 1
        /\ t.presses = IF down /\ ~s.down THEN s.presses + 1 ELSE s.presses
        /\ t.releases = IF s.down /\ ~down THEN s.releases + 1 ELSE s.releases
    BY <1>1, <1>4 DEF Told
  <1>7. QED
    BY <1>4, <1>5, <1>6 DEF t, down

\* The pointer is left as it was, and so is what the program has seen, when its
\* vector finds nothing new.
LEMMA PointerSame ==
  ASSUME HandsTypeOK, AtRest, HandsExact
  PROVE  MouseVector(seen, mouse) = seen
  <1>1. /\ seen \in Seen /\ (Left \in mouse.buttons) = seen.down /\ mouse.scroll = 0
    BY DEF HandsTypeOK, AtRest, HandsExact, TapsAreClicks, Seen
  <1>2. mouse \in Mouse
    BY DEF HandsTypeOK, Mouse
  <1>3. QED
    BY <1>1, <1>2, MouseVectorExact DEF Seen

\* The parts of the invariant that the keyboard has to do with, and the others.
KeyPart ==
  /\ keysHeld \subseteq Keys /\ focused \in BOOLEAN
  /\ controller \in [buttons : SUBSET {ButtonOf[k] : k \in Keys}, ch : {0, 1}]
  /\ controller.ch = 0
  /\ NoStuckKeys

PointerPart ==
  /\ touching \subseteq Fingers
  /\ mouse \in Mouse /\ held \subseteq MouseButtons
  /\ mouse.scroll = 0
  /\ TapsAreClicks /\ FollowsTouches

CountPart ==
  /\ seen \in Seen
  /\ done \in [taps : Nat, clicks : Nat, scrolls : Nat, chars : Nat]
  /\ ToldOnce

\* The invariant in its three parts.
LEMMA Parts == HandsInv <=> KeyPart /\ PointerPart /\ CountPart
  BY DEF HandsInv, HandsTypeOK, AtRest, HandsExact, KeyPart, PointerPart, CountPart, Seen, Mouse

\* So it is in the next state.
LEMMA PartsNext == HandsInv' <=> KeyPart' /\ PointerPart' /\ CountPart'
  BY DEF HandsInv, HandsTypeOK, AtRest, HandsExact, KeyPart, PointerPart, CountPart, Seen, Mouse

-----------------------------------------------------------------------------
(***************************************************************************)
(* Every step.                                                             *)
(***************************************************************************)

\* The hands do nothing at first, and the program has been told nothing.
LEMMA HandsInit == InitInput => HandsInv
  <1> SUFFICES ASSUME InitInput
               PROVE  HandsInv
    OBVIOUS
  <1> USE DEF InitInput
  <1>1. HandsTypeOK /\ AtRest
    BY DEF HandsTypeOK, AtRest
  <1>2. TapsAreClicks
    <2>1. Left \notin mouse.buttons /\ seen.down = FALSE
      OBVIOUS
    <2>2. seen.releases = done.taps /\ seen.presses = done.taps + Told(seen.down)
      BY <2>1 DEF Told
    <2>3. (Left \in mouse.buttons) = seen.down
      <3>1. (Left \in mouse.buttons) = FALSE
        BY <2>1, SMT
      <3>2. QED
        BY <2>1, <3>1, Zenon
    <2>4. QED
      BY <2>1, <2>2, <2>3 DEF TapsAreClicks
  <1>3. FollowsTouches /\ NoStuckKeys /\ ToldOnce
    BY DEF FollowsTouches, NoStuckKeys, ToldOnce
  <1>4. QED
    BY <1>1, <1>2, <1>3 DEF HandsInv, HandsExact

\* A finger that is put down is followed if fewer than two are.
LEMMA TouchBeganKeeps ==
  ASSUME HandsInv, NEW f \in Fingers, TouchBegan(f)
  PROVE  HandsInv'
  <1>1. KeyPart /\ PointerPart /\ CountPart
    BY Parts
  <1>2. UNCHANGED <<mouse, held, seen, done, keyVars>>
    BY DEF TouchBegan
  <1>3. KeyPart' /\ CountPart'
    BY <1>1, <1>2 DEF keyVars, KeyPart, CountPart, NoStuckKeys, KeysOf, ToldOnce
  <1>4. FollowsTouches'
    BY <1>1, FingersAssumption DEF TouchBegan, PointerPart, FollowsTouches
  <1>5. TapsAreClicks'
    BY <1>1, <1>2, FingersAssumption DEF TouchBegan, PointerPart, TapsAreClicks, FollowsTouches
  <1>6. PointerPart'
    BY <1>1, <1>2, <1>4, <1>5 DEF TouchBegan, PointerPart
  <1>7. QED
    BY <1>3, <1>6, PartsNext

\* A finger that moves drags when a second one is down.
LEMMA TouchMovedKeeps ==
  ASSUME HandsInv, NEW f \in Fingers, TouchMoved(f)
  PROVE  HandsInv'
  <1>1. KeyPart /\ PointerPart /\ CountPart
    BY Parts
  <1>2. /\ UNCHANGED <<first, second, touching, held, done, keyVars>>
        /\ mouse' = (IF second # NoFinger THEN Press(mouse) ELSE mouse)
        /\ seen' = MouseVector(seen, mouse')
    BY DEF TouchMoved
  <1>3. mouse' \in Mouse /\ mouse'.scroll = 0
        /\ mouse'.buttons = IF second # NoFinger THEN mouse.buttons \union {Left} ELSE mouse.buttons
    BY <1>1, <1>2 DEF PointerPart, Press, Mouse, MouseButtons, Left
  <1>4. /\ seen' \in Seen /\ seen \in Seen
        /\ seen'.down = (Left \in mouse'.buttons) /\ seen'.chars = seen.chars
        /\ seen'.scrolls = seen.scrolls
        /\ seen'.presses = IF Left \in mouse'.buttons /\ ~seen.down
                           THEN seen.presses + 1 ELSE seen.presses
        /\ seen'.releases = IF seen.down /\ Left \notin mouse'.buttons
                            THEN seen.releases + 1 ELSE seen.releases
    BY <1>1, <1>2, <1>3, MouseVectorExact DEF CountPart
  <1>5. KeyPart' /\ CountPart'
    BY <1>1, <1>2, <1>4 DEF keyVars, KeyPart, CountPart, NoStuckKeys, KeysOf, ToldOnce
  <1>6. FollowsTouches'
    BY <1>1, <1>2 DEF PointerPart, FollowsTouches
  <1>7. TapsAreClicks'
    <2>1. seen.down => Left \in mouse'.buttons
      BY <1>1, <1>3 DEF PointerPart, TapsAreClicks
    <2>2. done.taps \in Nat
      BY <1>1 DEF CountPart
    <2>3. done.clicks = 0 => /\ seen'.releases = done.taps
                             /\ seen'.presses = done.taps + Told(seen'.down)
      BY <1>1, <1>4, <2>1, <2>2 DEF PointerPart, TapsAreClicks, Told, Seen
    <2>4. Left \in mouse'.buttons => second \in touching \/ Left \in held
      BY <1>1, <1>3 DEF PointerPart, TapsAreClicks, FollowsTouches
    <2>5. QED
      BY <1>2, <1>4, <2>3, <2>4 DEF TapsAreClicks
  <1>8. PointerPart'
    BY <1>1, <1>2, <1>3, <1>6, <1>7 DEF PointerPart
  <1>9. QED
    BY <1>5, <1>8, PartsNext

\* A second finger that is lifted is a click.
LEMMA SecondLiftedKeeps ==
  ASSUME HandsInv, NEW f \in Fingers, f \in touching, f = second, f # first,
         touching' = touching \ {f}, SecondLifted, UNCHANGED <<held, keyVars>>
  PROVE  HandsInv'
  <1>1. KeyPart /\ PointerPart /\ CountPart
    BY Parts
  <1>2. /\ second' = NoFinger /\ first' = first
        /\ mouse' = Release(Pressed)
        /\ seen' = MouseVector(ToldPressed, mouse')
        /\ done' = [done EXCEPT !.taps = @ + 1]
    BY DEF SecondLifted
  <1>3. /\ Pressed \in Mouse /\ Pressed.scroll = 0 /\ Left \in Pressed.buttons
    BY <1>1 DEF PointerPart, Pressed, Press, Mouse, MouseButtons, Left
  <1>4. mouse' \in Mouse /\ mouse'.scroll = 0 /\ Left \notin mouse'.buttons
    BY <1>2, <1>3 DEF Release, Mouse, MouseButtons, Left
  <1>5. /\ seen \in Seen /\ ToldPressed \in Seen /\ ToldPressed.down
        /\ ToldPressed.chars = seen.chars /\ ToldPressed.scrolls = seen.scrolls
        /\ ToldPressed.presses = IF seen.down THEN seen.presses ELSE seen.presses + 1
        /\ ToldPressed.releases = seen.releases
    <2>1. CASE Left \in mouse.buttons
      BY <1>1, <2>1 DEF ToldPressed, CountPart, PointerPart, TapsAreClicks
    <2>2. CASE Left \notin mouse.buttons
      BY <1>1, <1>3, <2>2, MouseVectorExact DEF ToldPressed, CountPart, PointerPart, TapsAreClicks
    <2>3. QED
      BY <2>1, <2>2
  <1>6. /\ seen' \in Seen /\ ~seen'.down
        /\ seen'.chars = seen.chars /\ seen'.scrolls = seen.scrolls
        /\ seen'.presses = ToldPressed.presses
        /\ seen'.releases = seen.releases + 1
    <2>1. /\ seen' \in Seen /\ seen'.down = (Left \in mouse'.buttons)
          /\ seen'.chars = ToldPressed.chars /\ seen'.scrolls = ToldPressed.scrolls
          /\ seen'.presses = ToldPressed.presses
          /\ seen'.releases = ToldPressed.releases + 1
      BY <1>2, <1>4, <1>5, MouseVectorExact
    <2>2. QED
      BY <1>4, <1>5, <2>1
  <1>7. /\ done' \in [taps : Nat, clicks : Nat, scrolls : Nat, chars : Nat]
        /\ done'.taps = done.taps + 1 /\ done'.clicks = done.clicks
        /\ done'.scrolls = done.scrolls /\ done'.chars = done.chars
    BY <1>1, <1>2 DEF CountPart
  <1>8. KeyPart' /\ CountPart'
    BY <1>1, <1>6, <1>7 DEF keyVars, KeyPart, CountPart, NoStuckKeys, KeysOf, ToldOnce
  <1>9. FollowsTouches'
    BY <1>1, <1>2 DEF PointerPart, FollowsTouches
  <1>10. TapsAreClicks'
    <2>1. done.taps \in Nat
      BY <1>1 DEF CountPart
    <2>2. done'.clicks = 0 => /\ seen'.releases = done'.taps
                              /\ seen'.presses = done'.taps + Told(seen'.down)
      BY <1>1, <1>5, <1>6, <1>7, <2>1 DEF PointerPart, TapsAreClicks, Told, Seen
    <2>3. QED
      BY <1>4, <1>6, <2>2 DEF TapsAreClicks, Seen
  <1>11. PointerPart'
    BY <1>1, <1>4, <1>9, <1>10 DEF PointerPart
  <1>12. QED
    BY <1>8, <1>11, PartsNext

\* Another finger that is lifted does nothing but that it is no longer followed.
LEMMA TouchEndedKeeps ==
  ASSUME HandsInv, NEW f \in Fingers, TouchEnded(f)
  PROVE  HandsInv'
  <1>1. KeyPart /\ PointerPart /\ CountPart
    BY Parts
  <1>2. f \in touching /\ touching' = touching \ {f} /\ UNCHANGED <<held, keyVars>>
    BY DEF TouchEnded
  <1>3. CASE f # first /\ f = second
    BY <1>2, <1>3, SecondLiftedKeeps DEF TouchEnded
  <1>4. CASE \/ f = first /\ first' = NoFinger /\ UNCHANGED <<second, mouse, seen, done>>
             \/ f # first /\ f # second /\ UNCHANGED <<first, second, mouse, seen, done>>
    <2>1. KeyPart' /\ CountPart'
      BY <1>1, <1>2, <1>4 DEF keyVars, KeyPart, CountPart, NoStuckKeys, KeysOf, ToldOnce
    <2>2. f # second
      BY <1>1, <1>4, FingersAssumption DEF PointerPart, FollowsTouches
    <2>3. FollowsTouches'
      BY <1>1, <1>2, <1>4, <2>2 DEF PointerPart, FollowsTouches
    <2>4. TapsAreClicks'
      BY <1>1, <1>2, <1>4, <2>2 DEF PointerPart, TapsAreClicks
    <2>5. PointerPart'
      BY <1>1, <1>2, <1>4, <2>3, <2>4 DEF PointerPart
    <2>6. QED
      BY <2>1, <2>5, PartsNext
  <1>5. QED
    BY <1>3, <1>4 DEF TouchEnded

\* What event() tells of the mouse: buttons m, and a turn of the wheel or not.
LEMMA UpdateMouseTells ==
  ASSUME HandsInv, NEW m \in Mouse, UpdateMouse(m)
  PROVE  /\ mouse' \in Mouse /\ mouse'.scroll = 0 /\ mouse'.buttons = m.buttons
         /\ seen \in Seen /\ seen' \in Seen /\ seen'.down = (Left \in m.buttons)
         /\ seen'.chars = seen.chars
         /\ seen'.scrolls = IF m.scroll = 0 THEN seen.scrolls ELSE seen.scrolls + 1
         /\ seen.down = (Left \in m.buttons) =>
              seen'.presses = seen.presses /\ seen'.releases = seen.releases
  <1>1. seen \in Seen
    BY Parts DEF CountPart
  <1>2. seen' = MouseVector(seen, m) /\ mouse' = [m EXCEPT !.scroll = 0]
    BY DEF UpdateMouse
  <1>3. mouse' \in Mouse /\ mouse'.scroll = 0 /\ mouse'.buttons = m.buttons
    BY <1>2 DEF Mouse
  <1>4. QED
    BY <1>1, <1>2, <1>3, MouseVectorExact

\* The mouse.
LEMMA MouseKeeps ==
  ASSUME HandsInv, (\E b \in MouseButtons : MouseButton(b)) \/ MouseScroll \/ MouseMove
  PROVE  HandsInv'
  <1>1. KeyPart /\ PointerPart /\ CountPart
    BY Parts
  <1>2. UNCHANGED <<first, second, touching, keyVars>>
    BY DEF MouseButton, MouseScroll, MouseMove
  <1>3. KeyPart' /\ FollowsTouches'
    BY <1>1, <1>2 DEF keyVars, KeyPart, NoStuckKeys, KeysOf, PointerPart, FollowsTouches
  <1>4. /\ mouse \in Mouse /\ mouse.scroll = 0 /\ held \subseteq MouseButtons
        /\ done \in [taps : Nat, clicks : Nat, scrolls : Nat, chars : Nat]
    BY <1>1 DEF PointerPart, CountPart
  <1>5. CASE \E b \in MouseButtons : MouseButton(b)
    <2>1. PICK b \in MouseButtons : MouseButton(b)
      BY <1>5
    <2> DEFINE m == [mouse EXCEPT !.buttons = With(@, b, b \in held')]
    <2>2. /\ held' = With(held, b, b \notin held) /\ UpdateMouse(m)
          /\ done' = [done EXCEPT !.clicks = @ + 1]
      BY <2>1 DEF MouseButton
    <2>3. /\ held' \subseteq MouseButtons
          /\ \A c \in MouseButtons : c # b => (c \in held' <=> c \in held)
      BY <1>4, <2>2 DEF With
    <2>4. /\ m \in Mouse /\ m.scroll = 0
          /\ b \in m.buttons <=> b \in held'
          /\ \A c \in MouseButtons : c # b => (c \in m.buttons <=> c \in mouse.buttons)
      BY <1>4 DEF With, Mouse
    <2>5. /\ mouse' \in Mouse /\ mouse'.scroll = 0 /\ mouse'.buttons = m.buttons
          /\ seen' \in Seen /\ seen'.down = (Left \in m.buttons)
          /\ seen'.chars = seen.chars /\ seen'.scrolls = seen.scrolls
      <3> HIDE DEF m
      <3> QED
        BY <2>2, <2>4, UpdateMouseTells
    <2>6. /\ done' \in [taps : Nat, clicks : Nat, scrolls : Nat, chars : Nat]
          /\ done'.clicks # 0 /\ done'.scrolls = done.scrolls /\ done'.chars = done.chars
      BY <1>4, <2>2
    <2>7. Left \in mouse'.buttons => second \in touching \/ Left \in held'
      <3>1. Left \in MouseButtons
        BY DEF Left, MouseButtons
      <3> HIDE DEF m
      <3>2. QED
        BY <1>1, <2>3, <2>4, <2>5, <3>1 DEF PointerPart, TapsAreClicks
    <2> HIDE DEF m
    <2>8. PointerPart' /\ CountPart'
      BY <1>1, <1>2, <1>3, <2>3, <2>5, <2>6, <2>7 DEF PointerPart, CountPart, TapsAreClicks, ToldOnce
    <2>9. QED
      BY <1>3, <2>8, PartsNext
  <1>6. CASE MouseScroll \/ MouseMove
    <2>1. PICK m \in {mouse, [mouse EXCEPT !.scroll = 1]} :
            /\ UpdateMouse(m) /\ UNCHANGED held
            /\ done' = IF m.scroll = 0 THEN done ELSE [done EXCEPT !.scrolls = @ + 1]
      <3>1. /\ [mouse EXCEPT !.scroll = 1].scroll = 1 /\ [mouse EXCEPT !.scroll = 0] = mouse
            /\ [done EXCEPT !.scrolls = @ + 0] = done
        BY <1>4 DEF Mouse
      <3>2. CASE MouseMove
        BY <1>4, <3>2 DEF MouseMove
      <3>3. CASE MouseScroll
        <4>1. PICK turns \in {0, 1} : /\ done' = [done EXCEPT !.scrolls = @ + turns]
                                      /\ UpdateMouse([mouse EXCEPT !.scroll = turns])
          BY <3>3 DEF MouseScroll
        <4>2. UNCHANGED held
          BY <3>3 DEF MouseScroll
        <4>3. CASE turns = 0
          BY <1>4, <3>1, <4>1, <4>2, <4>3
        <4>4. CASE turns = 1
          BY <3>1, <4>1, <4>2, <4>4
        <4>5. QED
          BY <4>1, <4>3, <4>4
      <3>4. QED
        BY <1>6, <3>2, <3>3
    <2>2. m \in Mouse /\ m.buttons = mouse.buttons
      BY <1>4 DEF Mouse
    <2>3. seen.down = (Left \in m.buttons)
      BY <1>1, <2>2 DEF PointerPart, TapsAreClicks
    <2>4. /\ mouse' \in Mouse /\ mouse'.scroll = 0 /\ mouse'.buttons = mouse.buttons
          /\ seen' \in Seen /\ seen'.down = (Left \in mouse.buttons) /\ seen'.chars = seen.chars
          /\ seen'.scrolls = IF m.scroll = 0 THEN seen.scrolls ELSE seen.scrolls + 1
          /\ seen'.presses = seen.presses /\ seen'.releases = seen.releases
      BY <2>1, <2>2, <2>3, UpdateMouseTells
    <2>5. /\ done' \in [taps : Nat, clicks : Nat, scrolls : Nat, chars : Nat]
          /\ done'.clicks = done.clicks /\ done'.taps = done.taps /\ done'.chars = done.chars
          /\ done'.scrolls = IF m.scroll = 0 THEN done.scrolls ELSE done.scrolls + 1
      BY <1>4, <2>1
    <2>6. CountPart'
      BY <1>1, <2>4, <2>5 DEF CountPart, ToldOnce
    <2>7. TapsAreClicks'
      BY <1>1, <1>2, <2>1, <2>2, <2>3, <2>4, <2>5 DEF PointerPart, TapsAreClicks
    <2>8. PointerPart'
      BY <1>1, <1>2, <1>3, <2>1, <2>4, <2>7 DEF PointerPart
    <2>9. QED
      BY <1>3, <2>6, <2>8, PartsNext
  <1>7. QED
    BY <1>5, <1>6

\* The keyboard.
LEMMA KeyboardKeeps ==
  ASSUME HandsInv, NextKeyboard
  PROVE  HandsInv'
  <1> DEFINE Buttons == {ButtonOf[k] : k \in Keys}
  <1>1. KeyPart /\ PointerPart /\ CountPart
    BY Parts
  <1>2. UNCHANGED pointerVars
    BY DEF NextKeyboard, Key, CharKey, Char, Focus
  <1>3. /\ controller \in [buttons : SUBSET Buttons, ch : {0, 1}] /\ controller.ch = 0
        /\ keysHeld \subseteq Keys /\ focused \in BOOLEAN
        /\ seen \in Seen /\ done \in [taps : Nat, clicks : Nat, scrolls : Nat, chars : Nat]
    BY <1>1 DEF KeyPart, CountPart
  <1>4. ASSUME /\ seen'.down = seen.down /\ seen'.presses = seen.presses
               /\ seen'.releases = seen.releases
               /\ done'.clicks = done.clicks /\ done'.taps = done.taps
        PROVE  PointerPart'
    BY <1>1, <1>2, <1>4 DEF pointerVars, PointerPart, TapsAreClicks, FollowsTouches
  <1>5. CASE \E k \in Keys : Key(k)
    <2>1. PICK k \in Keys : Key(k)
      BY <1>5
    <2> DEFINE down == k \notin keysHeld
    <2>2. /\ keysHeld' = With(keysHeld, k, down) /\ UNCHANGED <<focused, done>>
          /\ IF focused THEN SendButton(ButtonOf[k], down) ELSE UNCHANGED <<controller, seen>>
          /\ missed' = IF focused \/ down THEN missed ELSE missed \union {ButtonOf[k]}
      BY <2>1 DEF Key
    <2>3. /\ controller' \in [buttons : SUBSET Buttons, ch : {0, 1}] /\ controller'.ch = 0
          /\ controller'.buttons = IF focused THEN With(controller.buttons, ButtonOf[k], down)
                                   ELSE controller.buttons
          /\ keysHeld' \subseteq Keys
      <3>1. keysHeld' \subseteq Keys
        BY <1>3, <2>2 DEF With
      <3>2. CASE focused
        <4>1. controller' = [controller EXCEPT !.buttons = With(@, ButtonOf[k], down)]
          BY <2>2, <3>2 DEF SendButton
        <4>2. ButtonOf[k] \in Buttons
          OBVIOUS
        <4>3. With(controller.buttons, ButtonOf[k], down) \subseteq Buttons
          BY <1>3, <4>2 DEF With
        <4>4. QED
          BY <1>3, <3>1, <3>2, <4>1, <4>3
      <3>3. CASE ~focused
        BY <1>3, <2>2, <3>1, <3>3
      <3>4. QED
        BY <3>2, <3>3
    <2>4. seen' = seen
      <3>1. CASE focused
        <4>1. seen' = [seen EXCEPT !.chars = @ + Told(controller'.ch # 0)]
          BY <2>2, <3>1 DEF SendButton, KeyVector
        <4>2. QED
          BY <1>3, <2>3, <4>1 DEF Told, Seen
      <3>2. CASE ~focused
        BY <2>2, <3>2
      <3>3. QED
        BY <3>1, <3>2
    <2>5. NoStuckKeys'
      <3>1. ASSUME NEW b \in controller'.buttons
            PROVE  KeysOf(b) \intersect keysHeld' # {} \/ b \in missed'
        <4>1. CASE down
          BY <1>1, <2>2, <2>3, <4>1 DEF KeyPart, NoStuckKeys, KeysOf, With
        <4>2. CASE ~down
          <5>1. b = ButtonOf[k] => ~focused
            BY <2>3, <4>2 DEF With
          <5>2. b \in controller.buttons
            BY <2>3, <4>2 DEF With
          <5>3. CASE b = ButtonOf[k]
            BY <2>2, <4>2, <5>1, <5>3
          <5>4. CASE b # ButtonOf[k]
            <6>1. k \notin KeysOf(b)
              BY <5>4 DEF KeysOf
            <6>2. QED
              BY <1>1, <2>2, <4>2, <5>2, <6>1 DEF KeyPart, NoStuckKeys, With
          <5>5. QED
            BY <5>3, <5>4
        <4>3. QED
          BY <4>1, <4>2
      <3>2. QED
        BY <3>1 DEF NoStuckKeys, KeysOf
    <2>6. KeyPart' /\ CountPart'
      BY <1>1, <1>3, <2>2, <2>3, <2>4, <2>5 DEF KeyPart, CountPart, ToldOnce
    <2>7. QED
      BY <1>4, <2>2, <2>4, <2>6, PartsNext
  <1>6. ASSUME NEW buttons \in SUBSET Buttons, SendChar(buttons)
        PROVE  /\ controller' = [buttons |-> buttons, ch |-> 0]
               /\ PointerPart' /\ CountPart'
    <2>1. /\ seen' = [seen EXCEPT !.chars = @ + 1]
          /\ controller' = [buttons |-> buttons, ch |-> 0]
          /\ done' = [done EXCEPT !.chars = @ + 1]
      BY <1>6 DEF SendChar, KeyVector, Told
    <2>2. CountPart'
      BY <1>1, <1>3, <2>1 DEF CountPart, ToldOnce, Seen
    <2>3. /\ seen'.down = seen.down /\ seen'.presses = seen.presses
          /\ seen'.releases = seen.releases
          /\ done'.clicks = done.clicks /\ done'.taps = done.taps
      BY <1>3, <2>1 DEF Seen
    <2>4. QED
      BY <1>4, <2>1, <2>2, <2>3
  <1>7. CASE CharKey
    <2>1. SendChar(controller.buttons) /\ UNCHANGED <<keysHeld, focused, missed>>
      BY <1>7 DEF CharKey
    <2>2. /\ controller' = [buttons |-> controller.buttons, ch |-> 0]
          /\ PointerPart' /\ CountPart'
      BY <1>3, <1>6, <2>1
    <2>3. KeyPart'
      BY <1>1, <1>3, <2>1, <2>2 DEF KeyPart, NoStuckKeys, KeysOf
    <2>4. QED
      BY <2>2, <2>3, PartsNext
  <1>8. CASE Char
    <2> DEFINE buttons == (controller.buttons \ Modifiers) \union
                          {b \in Modifiers : KeysOf(b) \intersect keysHeld # {}}
    <2>1. SendChar(buttons) /\ missed' = missed \ Modifiers /\ UNCHANGED <<keysHeld, focused>>
      BY <1>8 DEF Char
    <2>2. buttons \in SUBSET Buttons
      BY <1>3, ButtonsAssumption
    <2>3. /\ controller' = [buttons |-> buttons, ch |-> 0]
          /\ PointerPart' /\ CountPart'
      <3> HIDE DEF buttons
      <3> QED
        BY <1>6, <2>1, <2>2
    <2>4. NoStuckKeys'
      BY <1>1, <2>1, <2>3 DEF KeyPart, NoStuckKeys, KeysOf
    <2>5. KeyPart'
      BY <1>1, <2>1, <2>2, <2>3, <2>4 DEF KeyPart
    <2>6. QED
      BY <2>3, <2>5, PartsNext
  <1>9. CASE Focus
    <2>1. focused' = ~focused /\ UNCHANGED <<controller, keysHeld, missed, seen, done>>
      BY <1>9 DEF Focus
    <2>2. KeyPart' /\ CountPart'
      BY <1>1, <2>1 DEF KeyPart, CountPart, NoStuckKeys, KeysOf, ToldOnce
    <2>3. QED
      BY <1>4, <2>1, <2>2, PartsNext
  <1>10. QED
    BY <1>5, <1>7, <1>8, <1>9 DEF NextKeyboard

\* Every step keeps the invariant.
LEMMA HandsStep == HandsInv /\ [NextPointer \/ NextKeyboard]_inputVars => HandsInv'
  <1> SUFFICES ASSUME HandsInv, [NextPointer \/ NextKeyboard]_inputVars
               PROVE  HandsInv'
    OBVIOUS
  <1>1. CASE NextPointer
    BY <1>1, TouchBeganKeeps, TouchMovedKeeps, TouchEndedKeeps, MouseKeeps DEF NextPointer
  <1>2. CASE NextKeyboard
    BY <1>2, KeyboardKeeps
  <1>3. CASE UNCHANGED inputVars
    BY <1>3 DEF inputVars, pointerVars, keyVars, HandsInv, HandsTypeOK, AtRest, HandsExact,
                TapsAreClicks, FollowsTouches, NoStuckKeys, KeysOf, ToldOnce
  <1>4. QED
    BY <1>1, <1>2, <1>3

\* What the program sees of hands is what they do: each second finger that is
\* lifted is one click, no button stays down when what holds it was let go, and
\* each turn of the wheel and each character is told once.
THEOREM SeesHands == InputSpec => []HandsExact
  <1>1. HandsInv => HandsExact
    BY DEF HandsInv
  <1>2. QED
    BY <1>1, HandsInit, HandsStep, PTL DEF InputSpec

-----------------------------------------------------------------------------
(***************************************************************************)
(* The screen. First, what its variables range over, and its invariant.    *)
(***************************************************************************)

\* Colors that are ever drawn.
Colors ==
  {0} \union {c.color : c \in PixelControls}
      \union {Blended(ColorIn(q[1], q[2], q[3], q[4]), q[1].blend) :
                q \in TileControls \X Int \X Int \X Int}

Flat(w, h) == [0 .. Mar2(w) * Mar2(h) - 1 -> Colors]
Rects == [x1 : Int, y1 : Int, x2 : Int, y2 : Int]
Sizes == Nat \X Nat

Screens ==
  {s \in [w : Nat, h : Nat, layer : [Layers -> UNION {Flat(z[1], z[2]) : z \in Sizes}],
          dirty : [Layers -> Rects], x : Int, y : Int, a : Int,
          mx : BOOLEAN, my : BOOLEAN, ma : BOOLEAN, ml : Nat] :
     \A l \in Layers : s.layer[l] \in Flat(s.w, s.h)}

Pixels(s) == (0 .. s.w - 1) \X (0 .. s.h - 1)

ScreenTypeOK ==
  /\ screen \in Screens /\ preferred \in [w : Nat, h : Nat]
  /\ DOMAIN textures = Layers
  /\ \A l \in Layers : DOMAIN textures[l] = Pixels(screen)
  /\ strayed \subseteq Layers

\* The texture of a layer shows it where the next frame does not render.
Fresh(s, pictures, t, l) ==
  \A p \in Pixels(s) : ~IsDirty(s.dirty[l], p) => pictures[l][p] = Shown(l, t, At(s, l, p))

ScreenInv == ScreenTypeOK /\ \A l \in Layers \ strayed : Fresh(screen, textures, theme, l)

-----------------------------------------------------------------------------
(***************************************************************************)
(* The rectangles that are noted.                                          *)
(***************************************************************************)

\* The lower and the higher of two.
LEMMA Bounds ==
  ASSUME NEW a \in Int, NEW b \in Int
  PROVE  /\ Min({a, b}) \in Int /\ Min({a, b}) <= a /\ Min({a, b}) <= b
         /\ Max({a, b}) \in Int /\ Max({a, b}) >= a /\ Max({a, b}) >= b
  <1>1. \E x \in {a, b} : \A y \in {a, b} : x <= y
    OBVIOUS
  <1>2. \E x \in {a, b} : \A y \in {a, b} : x >= y
    OBVIOUS
  <1>3. Min({a, b}) \in {a, b} /\ \A y \in {a, b} : Min({a, b}) <= y
    BY <1>1 DEF Min
  <1>4. Max({a, b}) \in {a, b} /\ \A y \in {a, b} : Max({a, b}) >= y
    BY <1>2 DEF Max
  <1>5. QED
    BY <1>3, <1>4

\* Another rectangle is noted with what was noted before.
LEMMA Noted ==
  ASSUME NEW rect \in Rects, NEW x1 \in Int, NEW y1 \in Int, NEW x2 \in Int, NEW y2 \in Int,
         NEW p \in Int \X Int
  PROVE  /\ Dirtied(rect, x1, y1, x2, y2) \in Rects
         /\ IsDirty(rect, p) \/ (p[1] \in x1 .. x2 - 1 /\ p[2] \in y1 .. y2 - 1)
              => IsDirty(Dirtied(rect, x1, y1, x2, y2), p)
  <1>1. rect.x1 \in Int /\ rect.y1 \in Int /\ rect.x2 \in Int /\ rect.y2 \in Int
    BY DEF Rects
  <1> DEFINE ax == Min({rect.x1, x1})
             ay == Min({rect.y1, y1})
             bx == Max({rect.x2, x2})
             by == Max({rect.y2, y2})
  <1>2. ax \in Int /\ ax <= rect.x1 /\ ax <= x1
    BY <1>1, Bounds
  <1>3. ay \in Int /\ ay <= rect.y1 /\ ay <= y1
    BY <1>1, Bounds
  <1>4. bx \in Int /\ bx >= rect.x2 /\ bx >= x2
    BY <1>1, Bounds
  <1>5. by \in Int /\ by >= rect.y2 /\ by >= y2
    BY <1>1, Bounds
  <1>6. Dirtied(rect, x1, y1, x2, y2) = [x1 |-> ax, y1 |-> ay, x2 |-> bx, y2 |-> by]
    BY DEF Dirtied, Rect
  <1> HIDE DEF ax, ay, bx, by
  <1>7. QED
    BY <1>1, <1>2, <1>3, <1>4, <1>5, <1>6 DEF IsDirty, Rects

\* Within the screen a rectangle is what it is when it is cut off at the edges.
LEMMA CutOff ==
  ASSUME NEW s \in Screens, NEW l \in Layers, NEW p \in Pixels(s)
  PROVE  Clamped(s, l) \in Rects /\ (IsDirty(Clamped(s, l), p) <=> IsDirty(s.dirty[l], p))
  <1>1. s.dirty[l] \in Rects /\ s.w \in Nat /\ s.h \in Nat
    BY DEF Screens
  <1>2. p[1] \in Int /\ p[2] \in Int /\ 0 <= p[1] /\ p[1] < s.w /\ 0 <= p[2] /\ p[2] < s.h
    BY <1>1 DEF Pixels
  <1>3. ASSUME NEW v \in Int, NEW extent \in Nat, NEW k \in Int, 0 <= k, k < extent
        PROVE  Within(v, extent) \in Int /\ (Within(v, extent) <= k <=> v <= k)
    BY <1>3 DEF Within
  <1> DEFINE rect == s.dirty[l]
  <1>4. rect.x1 \in Int /\ rect.y1 \in Int /\ rect.x2 \in Int /\ rect.y2 \in Int
    BY <1>1 DEF Rects
  <1>5. Clamped(s, l) = [x1 |-> Within(rect.x1, s.w), y1 |-> Within(rect.y1, s.h),
                         x2 |-> Within(rect.x2, s.w), y2 |-> Within(rect.y2, s.h)]
    BY DEF Clamped, Rect
  <1> HIDE DEF rect
  <1>6. /\ Within(rect.x1, s.w) \in Int /\ (Within(rect.x1, s.w) <= p[1] <=> rect.x1 <= p[1])
        /\ Within(rect.x2, s.w) \in Int /\ (Within(rect.x2, s.w) <= p[1] <=> rect.x2 <= p[1])
    BY <1>1, <1>2, <1>3, <1>4
  <1>7. /\ Within(rect.y1, s.h) \in Int /\ (Within(rect.y1, s.h) <= p[2] <=> rect.y1 <= p[2])
        /\ Within(rect.y2, s.h) \in Int /\ (Within(rect.y2, s.h) <= p[2] <=> rect.y2 <= p[2])
    BY <1>1, <1>2, <1>3, <1>4
  <1>8. Clamped(s, l) \in Rects
    BY <1>5, <1>6, <1>7 DEF Rects
  <1>9. IsDirty(Clamped(s, l), p) <=> IsDirty(rect, p)
    BY <1>2, <1>4, <1>5, <1>6, <1>7 DEF IsDirty
  <1>10. QED
    BY <1>8, <1>9 DEF rect

-----------------------------------------------------------------------------
(***************************************************************************)
(* Places in the array.                                                    *)
(***************************************************************************)

\* A place is one column of one row, and these are its remainder and quotient.
LEMMA PlaceExact ==
  ASSUME NEW len \in Nat \ {0}, NEW x \in 0 .. len - 1, NEW y \in Int
  PROVE  /\ x + y * len \in Int
         /\ (x + y * len) % len = x /\ (x + y * len) \div len = y
  OBVIOUS

\* Columns and rows within are places in the array.
LEMMA InArray ==
  ASSUME NEW len \in Nat \ {0}, NEW rows \in Nat, NEW x \in 0 .. len - 1, NEW y \in 0 .. rows - 1
  PROVE  x + y * len \in 0 .. len * rows - 1
  <1>1. y * len \in Nat /\ len * rows \in Int /\ (y + 1) * len = y * len + len
    OBVIOUS
  <1>2. rows - (y + 1) \in Nat
    OBVIOUS
  <1>3. (rows - (y + 1)) * len \in Nat
    BY <1>2
  <1>4. (rows - (y + 1)) * len = rows * len - (y + 1) * len
    BY <1>2
  <1>5. rows * len = len * rows
    OBVIOUS
  <1>6. QED
    BY <1>1, <1>3, <1>4, <1>5

\* Where a pixel is in the array.
PlaceOf(s, p) == Mar(p[1]) + Mar(p[2]) * Mar2(s.w)

LEMMA PixelPlace ==
  ASSUME NEW s \in Screens, NEW p \in Pixels(s)
  PROVE  /\ s.w \in Nat /\ s.h \in Nat /\ Tile \in Nat \ {0} /\ Mar2(s.w) \in Nat \ {0}
         /\ p[1] \in 0 .. s.w - 1 /\ p[2] \in 0 .. s.h - 1
         /\ Mar(p[1]) \in Tile .. Mar(s.w) - 1 /\ Mar(p[2]) \in Tile .. Mar(s.h) - 1
         /\ Mar(p[1]) \in 0 .. Mar2(s.w) - 1 /\ Mar(p[2]) \in 0 .. Mar2(s.h) - 1
         /\ PlaceOf(s, p) \in 0 .. Mar2(s.w) * Mar2(s.h) - 1
         /\ PlaceOf(s, p) % Mar2(s.w) = Mar(p[1]) /\ PlaceOf(s, p) \div Mar2(s.w) = Mar(p[2])
  <1>1. s.w \in Nat /\ s.h \in Nat /\ Tile \in Nat \ {0}
    BY WordAssumption DEF Screens
  <1>2. p[1] \in 0 .. s.w - 1 /\ p[2] \in 0 .. s.h - 1
    BY DEF Pixels
  <1>3. /\ Mar2(s.w) \in Nat \ {0} /\ Mar2(s.h) \in Nat
        /\ Mar(p[1]) \in Tile .. Mar(s.w) - 1 /\ Mar(p[2]) \in Tile .. Mar(s.h) - 1
        /\ Mar(p[1]) \in 0 .. Mar2(s.w) - 1 /\ Mar(p[2]) \in 0 .. Mar2(s.h) - 1
    BY <1>1, <1>2 DEF Mar, Mar2
  <1>4. PlaceOf(s, p) \in 0 .. Mar2(s.w) * Mar2(s.h) - 1
    BY <1>3, InArray DEF PlaceOf
  <1>5. PlaceOf(s, p) % Mar2(s.w) = Mar(p[1]) /\ PlaceOf(s, p) \div Mar2(s.w) = Mar(p[2])
    <2> DEFINE len == Mar2(s.w)
               col == Mar(p[1])
               row == Mar(p[2])
    <2>1. len \in Nat \ {0} /\ col \in 0 .. len - 1 /\ row \in Int
      BY <1>3
    <2>2. PlaceOf(s, p) = col + row * len
      BY DEF PlaceOf
    <2> HIDE DEF len, col, row
    <2>3. (col + row * len) % len = col /\ (col + row * len) \div len = row
      BY <2>1, PlaceExact
    <2>4. QED
      BY <2>2, <2>3 DEF len, col, row
  <1>6. QED
    BY <1>1, <1>2, <1>3, <1>4, <1>5

-----------------------------------------------------------------------------
(***************************************************************************)
(* What is drawn, and noted.                                               *)
(***************************************************************************)

\* Where the next frame does not render, it did not before, and nothing has changed.
Kept(s, t, l, p) ==
  ~IsDirty(t.dirty[l], p) => ~IsDirty(s.dirty[l], p) /\ At(t, l, p) = At(s, l, p)

AllKept(s, t, l) == \A p \in Pixels(s) : Kept(s, t, l, p)

\* All the pixels that change in a layer are in a rectangle.
Covered(s, layer, f, x1, y1, x2, y2) ==
  \A p \in Pixels(s) :
    f[PlaceOf(s, p)] # layer[PlaceOf(s, p)] => p[1] \in x1 .. x2 - 1 /\ p[2] \in y1 .. y2 - 1

\* The screen with another layer, more that is noted, and another place.
Redrawn(s, k, f, x1, y1, x2, y2, x, y, a) ==
  [s EXCEPT !.layer[k] = f, !.dirty[k] = Dirtied(@, x1, y1, x2, y2), !.x = x, !.y = y, !.a = a]

RedrawnWell(s, t, k, covered) ==
  /\ t \in Screens /\ t.w = s.w /\ t.h = s.h
  /\ \A l \in Layers \ {k} : AllKept(s, t, l)
  /\ covered => AllKept(s, t, k)

\* Drawing in a layer keeps the other one, and what is elsewhere in this one if the
\* rectangle that is noted has all the pixels that change.
LEMMA Drawing ==
  ASSUME NEW s \in Screens, NEW k \in Layers, NEW f \in Flat(s.w, s.h),
         NEW x1 \in Int, NEW y1 \in Int, NEW x2 \in Int, NEW y2 \in Int,
         NEW x \in Int, NEW y \in Int, NEW a \in Int, NEW t,
         t = Redrawn(s, k, f, x1, y1, x2, y2, x, y, a)
  PROVE  RedrawnWell(s, t, k, Covered(s, s.layer[k], f, x1, y1, x2, y2))
  <1>1. /\ s.w \in Nat /\ s.h \in Nat /\ s.dirty \in [Layers -> Rects]
        /\ s.layer \in [Layers -> UNION {Flat(z[1], z[2]) : z \in Sizes}]
        /\ \A l \in Layers : s.layer[l] \in Flat(s.w, s.h)
        /\ s.ml \in Nat /\ s.mx \in BOOLEAN /\ s.my \in BOOLEAN /\ s.ma \in BOOLEAN
    BY DEF Screens
  <1> DEFINE d == Dirtied(s.dirty[k], x1, y1, x2, y2)
             layer == [s.layer EXCEPT ![k] = f]
             dirty == [s.dirty EXCEPT ![k] = d]
  <1>2. d \in Rects
    <2>1. <<0, 0>> \in Int \X Int /\ s.dirty[k] \in Rects
      BY <1>1
    <2>2. QED
      BY <2>1, Noted
  <1>3. t = [s EXCEPT !.layer = layer, !.dirty = dirty, !.x = x, !.y = y, !.a = a]
    BY <1>1 DEF Screens, Redrawn
  <1> HIDE DEF d
  <1>4. /\ layer \in [Layers -> UNION {Flat(z[1], z[2]) : z \in Sizes}]
        /\ \A l \in Layers : layer[l] \in Flat(s.w, s.h)
    <2>1. f \in UNION {Flat(z[1], z[2]) : z \in Sizes}
      <3>1. <<s.w, s.h>> \in Sizes
        BY <1>1 DEF Sizes
      <3>2. QED
        BY <3>1
    <2> HIDE DEF Flat
    <2>2. QED
      BY <1>1, <2>1
  <1>5. dirty \in [Layers -> Rects]
    BY <1>1, <1>2
  <1> HIDE DEF layer, dirty
  <1>6. /\ t \in [w : Nat, h : Nat, layer : [Layers -> UNION {Flat(z[1], z[2]) : z \in Sizes}],
                  dirty : [Layers -> Rects], x : Int, y : Int, a : Int,
                  mx : BOOLEAN, my : BOOLEAN, ma : BOOLEAN, ml : Nat]
        /\ t.w = s.w /\ t.h = s.h /\ t.layer = layer /\ t.dirty = dirty
    <2> HIDE DEF Flat, Rects
    <2> DEFINE Arrays == [Layers -> UNION {Flat(z[1], z[2]) : z \in Sizes}]
    <2>1. layer \in Arrays /\ s \in [w : Nat, h : Nat, layer : Arrays,
                  dirty : [Layers -> Rects], x : Int, y : Int, a : Int,
                  mx : BOOLEAN, my : BOOLEAN, ma : BOOLEAN, ml : Nat]
      BY <1>4 DEF Screens
    <2> HIDE DEF Arrays
    <2>2. /\ t \in [w : Nat, h : Nat, layer : Arrays,
                  dirty : [Layers -> Rects], x : Int, y : Int, a : Int,
                  mx : BOOLEAN, my : BOOLEAN, ma : BOOLEAN, ml : Nat]
          /\ t.w = s.w /\ t.h = s.h /\ t.layer = layer /\ t.dirty = dirty
      BY <1>3, <1>5, <2>1
    <2>3. QED
      BY <2>2 DEF Arrays
  <1>7. t \in Screens
    BY <1>4, <1>6 DEF Screens
  <1>8. ASSUME NEW l \in Layers, NEW p \in Pixels(s)
        PROVE  \/ Kept(s, t, l, p)
               \/ /\ l = k /\ f[PlaceOf(s, p)] # s.layer[k][PlaceOf(s, p)]
                  /\ ~(p[1] \in x1 .. x2 - 1 /\ p[2] \in y1 .. y2 - 1)
    <2>1. At(t, l, p) = layer[l][PlaceOf(s, p)] /\ At(s, l, p) = s.layer[l][PlaceOf(s, p)]
      BY <1>6 DEF At, PlaceOf
    <2>2. CASE l = k
      <3>1. p \in Int \X Int /\ s.dirty[k] \in Rects
        BY <1>1 DEF Pixels
      <3>2. IsDirty(s.dirty[k], p) \/ (p[1] \in x1 .. x2 - 1 /\ p[2] \in y1 .. y2 - 1)
              => IsDirty(d, p)
        BY <3>1, Noted DEF d
      <3>3. t.dirty[l] = d /\ layer[l] = f
        BY <1>1, <1>6, <2>2 DEF dirty, layer
      <3>4. QED
        BY <2>1, <2>2, <3>2, <3>3 DEF Kept
    <2>3. CASE l # k
      <3>1. t.dirty[l] = s.dirty[l] /\ layer[l] = s.layer[l]
        BY <1>1, <1>6, <2>3 DEF dirty, layer
      <3>2. QED
        BY <2>1, <3>1 DEF Kept
    <2>4. QED
      BY <2>2, <2>3
  <1>9. \A l \in Layers \ {k} : AllKept(s, t, l)
    BY <1>8 DEF AllKept
  <1>10. ASSUME Covered(s, s.layer[k], f, x1, y1, x2, y2)
         PROVE  AllKept(s, t, k)
    BY <1>8, <1>10 DEF AllKept, Covered
  <1>11. QED
    BY <1>6, <1>7, <1>9, <1>10 DEF RedrawnWell

-----------------------------------------------------------------------------
(***************************************************************************)
(* Pixels and fills.                                                       *)
(***************************************************************************)

\* Where a dot is in the array.
DotOf(s) == Mar(s.x) + Mar(s.y) * Mar2(s.w)
OnArray(s) == s.x >= 0 /\ s.y >= 0 /\ s.x < Mar2(s.w) /\ s.y < s.h

\* A dot beyond the margin at the right is in the margin at the left.
LEMMA DotPlace ==
  ASSUME NEW s \in Screens, NEW p \in Pixels(s), OnArray(s), DotOf(s) = PlaceOf(s, p)
  PROVE  p[1] = s.x /\ p[2] = s.y
  <1> DEFINE len == Mar2(s.w)
  <1>1. PICK x, y : x = Mar(s.x) /\ y = Mar(s.y)
    OBVIOUS
  <1>2. /\ len \in Nat \ {0} /\ Tile \in Nat \ {0} /\ len = s.w + 2 * Tile /\ s.w \in Nat
        /\ x = s.x + Tile /\ y = s.y + Tile /\ s.x \in Int /\ s.y \in Int
        /\ Mar(p[1]) = p[1] + Tile /\ Mar(p[2]) = p[2] + Tile
    BY <1>1, PixelPlace DEF Mar, Mar2, Screens
  <1>3. /\ p[1] \in 0 .. s.w - 1 /\ p[2] \in Int
        /\ PlaceOf(s, p) % len = Mar(p[1]) /\ PlaceOf(s, p) \div len = Mar(p[2])
    BY PixelPlace
  <1>4. s.x >= 0 /\ s.x < len /\ PlaceOf(s, p) = x + y * len
    BY <1>1 DEF OnArray, DotOf
  <1> HIDE DEF len
  <1>5. CASE x < len
    <2>1. x \in 0 .. len - 1 /\ y \in Int
      BY <1>2, <1>4, <1>5
    <2>2. (x + y * len) % len = x /\ (x + y * len) \div len = y
      <3>1. len \in Nat \ {0}
        BY <1>2
      <3>2. QED
        BY <2>1, <3>1, PlaceExact
    <2>3. Mar(p[1]) = x /\ Mar(p[2]) = y
      BY <1>3, <1>4, <2>2, Zenon
    <2>4. QED
      BY <1>2, <1>3, <2>3
  <1>6. CASE ~(x < len)
    <2>1. PICK col, row : col = x - len /\ row = y + 1
      OBVIOUS
    <2>2. col \in 0 .. len - 1 /\ row \in Int /\ col < Tile /\ x \in Int /\ y \in Int /\ len \in Nat \ {0}
      BY <1>2, <1>4, <1>6, <2>1
    <2>3. x + y * len = col + row * len
      <3>1. row * len = y * len + len /\ y * len \in Int
        BY <2>1, <2>2
      <3>2. QED
        BY <2>1, <2>2, <3>1
    <2>4. (col + row * len) % len = col
      BY <2>2, PlaceExact
    <2>5. p[1] + Tile = col
      BY <1>2, <1>3, <1>4, <2>3, <2>4
    <2>6. QED
      BY <1>2, <1>3, <2>2, <2>5
  <1>7. QED
    BY <1>5, <1>6

\* The layer after a dot.
LEMMA DotShows ==
  ASSUME NEW s \in Screens, NEW c \in PixelControls
  PROVE  \E f \in Flat(s.w, s.h) :
           /\ Dot(s, c) = Redrawn(s, c.layer, f, s.x, s.y, s.x + 1, s.y + 1,
                                  IF s.mx THEN s.x + 1 ELSE s.x, IF s.my THEN s.y + 1 ELSE s.y, s.a)
           /\ \A p \in Pixels(s) :
                f[PlaceOf(s, p)] = IF p = <<s.x, s.y>> THEN c.color ELSE s.layer[c.layer][PlaceOf(s, p)]
  <1>1. PICK k : k = c.layer
    OBVIOUS
  <1>2. PICK f : f = IF OnArray(s) THEN [s.layer[k] EXCEPT ![DotOf(s)] = c.color] ELSE s.layer[k]
    OBVIOUS
  <1>3. PICK x, y : x = (IF s.mx THEN s.x + 1 ELSE s.x) /\ y = (IF s.my THEN s.y + 1 ELSE s.y)
    OBVIOUS
  <1>4. PICK bx, by : bx = s.x + 1 /\ by = s.y + 1
    OBVIOUS
  <1>5. /\ k \in Layers /\ s.layer[k] \in Flat(s.w, s.h)
        /\ s.x \in Int /\ s.y \in Int /\ s.w \in Nat /\ s.h \in Nat
    BY <1>1, ControlsAssumption DEF Layers, Screens
  <1>6. f \in Flat(s.w, s.h)
    <2>1. c.color \in Colors
      BY DEF Colors
    <2>2. QED
      BY <1>2, <1>5, <2>1 DEF Flat
  <1>7. Dot(s, c) = Redrawn(s, k, f, s.x, s.y, bx, by, x, y, s.a)
    <2>1. Dot(s, c) = [s EXCEPT !.layer[k] = f, !.dirty[k] = Dirtied(@, s.x, s.y, bx, by),
                                !.x = x, !.y = y]
      BY <1>1, <1>2, <1>3, <1>4 DEF Dot, DotOf, OnArray
    <2>2. QED
      BY <2>1 DEF Screens, Redrawn
  <1>8. ASSUME NEW p \in Pixels(s)
        PROVE  f[PlaceOf(s, p)] = IF p = <<s.x, s.y>> THEN c.color ELSE s.layer[k][PlaceOf(s, p)]
    <2>1. p = <<p[1], p[2]>> /\ p[1] \in 0 .. s.w - 1 /\ p[2] \in 0 .. s.h - 1 /\ Tile \in Nat
      BY PixelPlace DEF Pixels
    <2>2. PlaceOf(s, p) \in DOMAIN s.layer[k]
      BY <1>5, PixelPlace DEF Flat
    <2>3. CASE p = <<s.x, s.y>>
      <3>1. s.x = p[1] /\ s.y = p[2]
        BY <2>3
      <3>2. OnArray(s) /\ DotOf(s) = PlaceOf(s, p)
        BY <1>5, <2>1, <3>1 DEF OnArray, DotOf, PlaceOf, Mar2
      <3>3. QED
        BY <1>2, <2>2, <2>3, <3>2
    <2>4. CASE p # <<s.x, s.y>>
      <3>1. ~(OnArray(s) /\ DotOf(s) = PlaceOf(s, p))
        BY <2>1, <2>4, DotPlace
      <3>2. QED
        BY <1>2, <2>4, <3>1
    <2>5. QED
      BY <2>3, <2>4
  <1>9. QED
    BY <1>1, <1>3, <1>4, <1>6, <1>7, <1>8

LEMMA DotKeeps ==
  ASSUME NEW s \in Screens, NEW c \in PixelControls
  PROVE  RedrawnWell(s, Dot(s, c), c.layer, TRUE)
  <1>1. PICK k, bx, by, x, y : /\ k = c.layer /\ bx = s.x + 1 /\ by = s.y + 1
                              /\ x = (IF s.mx THEN s.x + 1 ELSE s.x) /\ y = (IF s.my THEN s.y + 1 ELSE s.y)
    OBVIOUS
  <1>2. PICK f \in Flat(s.w, s.h) :
          /\ Dot(s, c) = Redrawn(s, k, f, s.x, s.y, bx, by, x, y, s.a)
          /\ \A p \in Pixels(s) :
               f[PlaceOf(s, p)] = IF p = <<s.x, s.y>> THEN c.color ELSE s.layer[k][PlaceOf(s, p)]
    BY <1>1, DotShows
  <1>3. /\ k \in Layers /\ s.x \in Int /\ s.y \in Int /\ s.a \in Int
        /\ bx \in Int /\ by \in Int /\ x \in Int /\ y \in Int
    BY <1>1, ControlsAssumption DEF Layers, Screens
  <1>4. Covered(s, s.layer[k], f, s.x, s.y, bx, by)
    <2>1. s.x \in s.x .. bx - 1 /\ s.y \in s.y .. by - 1
      BY <1>1, <1>3
    <2>2. QED
      BY <1>2, <2>1 DEF Covered
  <1>5. RedrawnWell(s, Dot(s, c), k, Covered(s, s.layer[k], f, s.x, s.y, bx, by))
    BY <1>2, <1>3, Drawing
  <1>6. QED
    BY <1>1, <1>4, <1>5 DEF RedrawnWell

\* Between a place and the edge that is named.
Besides(v, toOrigin, place) == IF toOrigin THEN v < place ELSE v >= place

\* The layer after a fill that does not stray: it has the columns and rows it is noted with.
LEMMA FillShows ==
  ASSUME NEW s \in Screens, NEW c \in PixelControls, c.fill
  PROVE  LET xs == Span(c.left, s.x, s.w)
             ys == Span(c.up, s.y, s.h)
         IN  /\ xs[1] \in Int /\ xs[2] \in Int /\ ys[1] \in Int /\ ys[2] \in Int
             /\ \E f \in Flat(s.w, s.h) :
                  /\ Fill(s, c) = Redrawn(s, c.layer, f, xs[1] - Tile, ys[1] - Tile, xs[2] - Tile,
                                          ys[2] - Tile, s.x, s.y, s.a)
                  /\ ~FillStrays(s, c) =>
                       \A p \in Pixels(s) :
                         /\ f[PlaceOf(s, p)] = IF Besides(p[1], c.left, s.x) /\ Besides(p[2], c.up, s.y)
                                               THEN c.color ELSE s.layer[c.layer][PlaceOf(s, p)]
                         /\ f[PlaceOf(s, p)] # s.layer[c.layer][PlaceOf(s, p)] =>
                              Mar(p[1]) \in xs[1] .. xs[2] - 1 /\ Mar(p[2]) \in ys[1] .. ys[2] - 1
  <1>1. PICK k : k = c.layer
    OBVIOUS
  <1>2. PICK xs, ys : xs = Span(c.left, s.x, s.w) /\ ys = Span(c.up, s.y, s.h)
    OBVIOUS
  <1>3. PICK f : f = [i \in DOMAIN s.layer[k] |-> IF i \in Filled(s, xs, ys) THEN c.color ELSE s.layer[k][i]]
    OBVIOUS
  <1>4. /\ k \in Layers /\ s.layer[k] \in Flat(s.w, s.h) /\ Tile \in Nat \ {0}
        /\ s.x \in Int /\ s.y \in Int /\ s.a \in Int /\ s.w \in Nat /\ s.h \in Nat
    BY <1>1, ControlsAssumption, WordAssumption DEF Layers, Screens
  <1>5. xs[1] \in Int /\ xs[2] \in Int /\ ys[1] \in Int /\ ys[2] \in Int
    BY <1>2, <1>4 DEF Span, Mar
  <1>6. PICK ax, bx, ay, by : /\ ax = xs[1] - Tile /\ bx = xs[2] - Tile
                              /\ ay = ys[1] - Tile /\ by = ys[2] - Tile
    OBVIOUS
  <1>7. f \in Flat(s.w, s.h)
    <2>1. c.color \in Colors
      BY DEF Colors
    <2>2. QED
      BY <1>3, <1>4, <2>1 DEF Flat
  <1>8. Fill(s, c) = Redrawn(s, k, f, ax, ay, bx, by, s.x, s.y, s.a)
    <2>1. Fill(s, c) = [s EXCEPT !.layer[k] = f, !.dirty[k] = Dirtied(@, ax, ay, bx, by)]
      <3>1. [s.layer EXCEPT ![k] = [i \in DOMAIN @ |-> IF i \in Filled(s, xs, ys) THEN c.color ELSE @[i]]]
              = [s.layer EXCEPT ![k] = f]
        BY <1>3
      <3>2. QED
        BY <1>1, <1>2, <1>6, <3>1 DEF Fill
    <2>2. QED
      BY <2>1 DEF Screens, Redrawn
  <1>9. ASSUME ~FillStrays(s, c), NEW p \in Pixels(s)
        PROVE  PlaceOf(s, p) \in Filled(s, xs, ys)
                 <=> Mar(p[1]) \in xs[1] .. xs[2] - 1 /\ Mar(p[2]) \in ys[1] .. ys[2] - 1
    <2> DEFINE len == Mar2(s.w)
    <2>1. /\ len \in Nat \ {0} /\ Mar(p[1]) \in Int /\ Mar(p[2]) \in Int
          /\ PlaceOf(s, p) % len = Mar(p[1]) /\ PlaceOf(s, p) \div len = Mar(p[2])
      BY PixelPlace
    <2>2. ASSUME PlaceOf(s, p) \in Filled(s, xs, ys)
          PROVE  Mar(p[1]) \in xs[1] .. xs[2] - 1 /\ Mar(p[2]) \in ys[1] .. ys[2] - 1
      <3>1. PICK x \in xs[1] .. xs[2] - 1, y \in ys[1] .. ys[2] - 1 : PlaceOf(s, p) = y * len + x
        BY <2>2 DEF Filled
      <3>2. x \in Int /\ y \in Int /\ xs[1] < xs[2]
        BY <1>5, <3>1
      <3>3. xs[1] >= 0 /\ xs[2] <= len
        BY <1>2, <1>5, <1>9, <2>1, <3>2 DEF FillStrays
      <3>4. x \in 0 .. len - 1
        BY <1>5, <2>1, <3>1, <3>2, <3>3
      <3> HIDE DEF len
      <3>5. y * len + x = x + y * len
        BY <2>1, <3>2
      <3>6. PlaceOf(s, p) % len = x /\ PlaceOf(s, p) \div len = y
        <4>1. len \in Nat \ {0}
          BY <2>1
        <4>2. (x + y * len) % len = x /\ (x + y * len) \div len = y
          BY <3>2, <3>4, <4>1, PlaceExact
        <4>3. QED
          BY <3>1, <3>5, <4>2
      <3>7. QED
        BY <2>1, <3>1, <3>6
    <2>3. ASSUME Mar(p[1]) \in xs[1] .. xs[2] - 1, Mar(p[2]) \in ys[1] .. ys[2] - 1
          PROVE  PlaceOf(s, p) \in Filled(s, xs, ys)
      <3>1. PlaceOf(s, p) = Mar(p[2]) * len + Mar(p[1])
        <4>1. Mar(p[2]) * len \in Int
          BY <2>1
        <4>2. QED
          BY <2>1, <4>1 DEF PlaceOf
      <3>2. QED
        BY <2>3, <3>1 DEF Filled
    <2>4. QED
      BY <2>2, <2>3
  <1>10. ASSUME NEW v, NEW v2, NEW extent \in Nat, NEW q \in 0 .. extent - 1, v \in Int,
                NEW span, span = Span(v2, v, extent)
         PROVE  Mar(q) \in span[1] .. span[2] - 1 <=> Besides(q, v2, v)
    BY <1>4, <1>10 DEF Span, Mar, Besides
  <1>11. ASSUME ~FillStrays(s, c), NEW p \in Pixels(s)
         PROVE  /\ f[PlaceOf(s, p)] = IF Besides(p[1], c.left, s.x) /\ Besides(p[2], c.up, s.y)
                                      THEN c.color ELSE s.layer[k][PlaceOf(s, p)]
                /\ f[PlaceOf(s, p)] # s.layer[k][PlaceOf(s, p)] =>
                     Mar(p[1]) \in xs[1] .. xs[2] - 1 /\ Mar(p[2]) \in ys[1] .. ys[2] - 1
    <2>1. p[1] \in 0 .. s.w - 1 /\ p[2] \in 0 .. s.h - 1 /\ PlaceOf(s, p) \in DOMAIN s.layer[k]
      BY <1>4, PixelPlace DEF Flat
    <2>2. /\ Mar(p[1]) \in xs[1] .. xs[2] - 1 <=> Besides(p[1], c.left, s.x)
          /\ Mar(p[2]) \in ys[1] .. ys[2] - 1 <=> Besides(p[2], c.up, s.y)
      BY <1>2, <1>4, <1>10, <2>1
    <2>3. f[PlaceOf(s, p)] = IF PlaceOf(s, p) \in Filled(s, xs, ys) THEN c.color ELSE s.layer[k][PlaceOf(s, p)]
      BY <1>3, <2>1
    <2>4. QED
      BY <1>9, <1>11, <2>2, <2>3
  <1>12. QED
    BY <1>1, <1>2, <1>5, <1>6, <1>7, <1>8, <1>11

LEMMA FillKeeps ==
  ASSUME NEW s \in Screens, NEW c \in PixelControls, c.fill
  PROVE  RedrawnWell(s, Fill(s, c), c.layer, ~FillStrays(s, c))
  <1>1. PICK k, xs, ys : k = c.layer /\ xs = Span(c.left, s.x, s.w) /\ ys = Span(c.up, s.y, s.h)
    OBVIOUS
  <1>2. PICK ax, bx, ay, by : /\ ax = xs[1] - Tile /\ bx = xs[2] - Tile
                              /\ ay = ys[1] - Tile /\ by = ys[2] - Tile
    OBVIOUS
  <1>3. PICK f \in Flat(s.w, s.h) :
          /\ Fill(s, c) = Redrawn(s, k, f, ax, ay, bx, by, s.x, s.y, s.a)
          /\ ~FillStrays(s, c) =>
               \A p \in Pixels(s) :
                 f[PlaceOf(s, p)] # s.layer[k][PlaceOf(s, p)] =>
                   Mar(p[1]) \in xs[1] .. xs[2] - 1 /\ Mar(p[2]) \in ys[1] .. ys[2] - 1
    BY <1>1, <1>2, FillShows
  <1>4. /\ k \in Layers /\ Tile \in Nat /\ s.x \in Int /\ s.y \in Int /\ s.a \in Int
        /\ xs[1] \in Int /\ xs[2] \in Int /\ ys[1] \in Int /\ ys[2] \in Int
    BY <1>1, ControlsAssumption, WordAssumption, FillShows DEF Layers, Screens
  <1>5. ax \in Int /\ bx \in Int /\ ay \in Int /\ by \in Int
    BY <1>2, <1>4
  <1>6. RedrawnWell(s, Fill(s, c), k, Covered(s, s.layer[k], f, ax, ay, bx, by))
    BY <1>3, <1>4, <1>5, Drawing
  <1>7. ASSUME ~FillStrays(s, c)
        PROVE  Covered(s, s.layer[k], f, ax, ay, bx, by)
    <2>1. SUFFICES ASSUME NEW p \in Pixels(s), f[PlaceOf(s, p)] # s.layer[k][PlaceOf(s, p)]
                   PROVE  p[1] \in ax .. bx - 1 /\ p[2] \in ay .. by - 1
      BY DEF Covered
    <2>2. Mar(p[1]) \in xs[1] .. xs[2] - 1 /\ Mar(p[2]) \in ys[1] .. ys[2] - 1
      BY <1>3, <1>7, <2>1
    <2>3. p[1] \in Int /\ p[2] \in Int
      BY PixelPlace
    <2>4. QED
      BY <1>2, <1>4, <2>2, <2>3 DEF Mar
  <1>8. QED
    BY <1>1, <1>6, <1>7 DEF RedrawnWell

-----------------------------------------------------------------------------
(***************************************************************************)
(* Runs of tiles.                                                          *)
(***************************************************************************)

\* On one axis: the places that are tested against shorts are those of the tile.
LEMMA AxisExact ==
  ASSUME NEW v \in Int, NEW q \in Nat, Short(Mar2(v)) = Mar2(v)
  PROVE  /\ Mar(q) - Short(Mar(v)) >= 0 /\ Mar(q) < Short(Mar2(v)) <=> q - v \in 0 .. Tile - 1
         /\ q - v \in 0 .. Tile - 1 => Mar(q) - Short(Mar(v)) = q - v
  <1>1. /\ Tile \in Nat \ {0} /\ Word \in Nat \ {0} /\ 16 * Tile < Word
        /\ Mar(v) = v + Tile /\ Mar(q) = q + Tile /\ Mar2(v) = v + 2 * Tile
    BY WordAssumption DEF Mar, Mar2
  <1>2. Mar2(v) \in 0 .. Word - 1
    BY <1>1 DEF Short
  <1>3. CASE Mar(v) >= 0
    <2>1. Mar(v) \in Nat /\ Mar(v) < Word
      BY <1>1, <1>2, <1>3
    <2>2. Short(Mar(v)) = Mar(v)
      BY <1>1, <2>1, SmallRemainder DEF Short
    <2>3. QED
      BY <1>1, <2>2
  <1>4. CASE ~(Mar(v) >= 0)
    <2>1. Short(Mar(v)) \in Nat /\ Short(Mar(v)) = Mar(v) + Word
      <3>1. Mar(v) + Word \in Nat /\ Mar(v) + Word < Word
        BY <1>1, <1>2, <1>4
      <3>2. PICK k : k = Mar(v) + Word
        OBVIOUS
      <3>3. (k + (-1) * Word) % Word = k /\ k + (-1) * Word = Mar(v)
        <4>1. k \in 0 .. Word - 1 /\ -1 \in Int
          BY <1>1, <3>1, <3>2
        <4>2. (k + (-1) * Word) % Word = k
          BY <1>1, <4>1, PlaceExact
        <4>3. k + (-1) * Word = Mar(v)
          BY <1>1, <3>2
        <4>4. QED
          BY <4>2, <4>3
      <3>4. QED
        BY <3>1, <3>2, <3>3 DEF Short
    <2>2. QED
      BY <1>1, <1>2, <1>4, <2>1
  <1>5. QED
    BY <1>3, <1>4

\* A tile on one of the pixels of the screen is not taken for one beyond its edges.
LEMMA CoveringInside ==
  ASSUME NEW s \in Screens, NEW x \in Int, NEW y \in Int, NEW p \in Pixels(s),
         p[1] - x \in 0 .. Tile - 1, p[2] - y \in 0 .. Tile - 1
  PROVE  TileInside(s, x, y)
  <1>1. /\ Tile \in Nat \ {0} /\ Word \in Nat \ {0} /\ s.w \in Nat /\ s.h \in Nat
        /\ p[1] \in 0 .. s.w - 1 /\ p[2] \in 0 .. s.h - 1
    BY WordAssumption, PixelPlace
  <1>2. ASSUME NEW v \in Nat
        PROVE  v % Word \in Nat /\ v % Word <= v
    BY <1>1
  <1>3. x + Tile \in Nat /\ x + Tile < s.w + Tile /\ y + 2 * Tile \in Nat /\ y + 2 * Tile < s.h + 2 * Tile
    BY <1>1
  <1>4. /\ (x + Tile) % Word \in Nat /\ (x + Tile) % Word <= x + Tile
        /\ (y + 2 * Tile) % Word \in Nat /\ (y + 2 * Tile) % Word <= y + 2 * Tile
    BY <1>2, <1>3
  <1>5. QED
    BY <1>1, <1>3, <1>4 DEF TileInside, Short, Mar, Mar2

\* What a tile leaves at a pixel that had a color.
TileOver(c, a, p, x, y, old) ==
  IF /\ p[1] - x \in 0 .. Tile - 1 /\ p[2] - y \in 0 .. Tile - 1
     /\ Paints(c, ColorIn(c, a, p[1] - x, p[2] - y))
  THEN Blended(ColorIn(c, a, p[1] - x, p[2] - y), c.blend)
  ELSE old

\* A tile colors the pixels it covers, if it is where it should be.
LEMMA TileShows ==
  ASSUME NEW s \in Screens, NEW c \in TileControls, NEW layer \in Flat(s.w, s.h),
         NEW x \in Int, NEW y \in Int, NEW a \in Int
  PROVE  /\ PaintTile(layer, s, c, x, y, a) \in Flat(s.w, s.h)
         /\ ~TileStrays(s, x, y) =>
              \A p \in Pixels(s) :
                PaintTile(layer, s, c, x, y, a)[PlaceOf(s, p)]
                  = TileOver(c, a, p, x, y, layer[PlaceOf(s, p)])
  <1> DEFINE len == Mar2(s.w)
             col(i) == (i % len) - Short(Mar(x))
             row(i) == (i \div len) - Short(Mar(y))
             color(i) == Blended(ColorIn(c, a, col(i), row(i)), c.blend)
             Painting(i) ==
               /\ col(i) >= 0 /\ i % len < Short(Mar2(x)) /\ row(i) >= 0 /\ i \div len < Short(Mar2(y))
               /\ Paints(c, ColorIn(c, a, col(i), row(i)))
  <1>1. /\ s.w \in Nat /\ s.h \in Nat /\ Tile \in Nat \ {0} /\ len \in Nat \ {0}
        /\ Word \in Nat \ {0} /\ Mar(x) = x + Tile /\ Mar(y) = y + Tile
        /\ Mar2(x) = x + 2 * Tile /\ Mar2(y) = y + 2 * Tile
    BY WordAssumption DEF Screens, Mar, Mar2
  <1>2. /\ Short(Mar(x)) \in Nat /\ Short(Mar(y)) \in Nat
        /\ Short(Mar2(x)) \in Nat /\ Short(Mar2(y)) \in Nat
    BY <1>1 DEF Short
  <1>3. PICK painted : painted = [i \in DOMAIN layer |-> IF Painting(i) THEN color(i) ELSE layer[i]]
    OBVIOUS
  <1>4. PaintTile(layer, s, c, x, y, a) = IF TileInside(s, x, y) THEN painted ELSE layer
    BY <1>3 DEF PaintTile
  <1>5. painted \in Flat(s.w, s.h)
    <2>1. ASSUME NEW i \in DOMAIN layer
          PROVE  color(i) \in Colors
      <3>1. i \in Int
        BY DEF Flat
      <3>2. i % len \in Int /\ i \div len \in Int
        BY <1>1, <3>1
      <3>3. col(i) \in Int /\ row(i) \in Int
        BY <1>2, <3>2
      <3>4. <<c, a, col(i), row(i)>> \in TileControls \X Int \X Int \X Int
        BY <3>3
      <3> HIDE DEF col, row
      <3>5. QED
        BY <3>4 DEF Colors
    <2> HIDE DEF color, Painting
    <2>2. QED
      BY <1>3, <2>1 DEF Flat
  <1>6. ASSUME ~TileStrays(s, x, y), NEW p \in Pixels(s)
        PROVE  PaintTile(layer, s, c, x, y, a)[PlaceOf(s, p)] = TileOver(c, a, p, x, y, layer[PlaceOf(s, p)])
    <2>1. PICK i : i = PlaceOf(s, p)
      OBVIOUS
    <2>2. /\ i % len = Mar(p[1]) /\ i \div len = Mar(p[2]) /\ p[1] \in Nat /\ p[2] \in Nat
          /\ i \in DOMAIN layer
      BY <2>1, PixelPlace DEF Flat
    <2>3. CASE ~TileInside(s, x, y)
      BY <1>4, <2>1, <2>3, CoveringInside DEF TileOver
    <2>4. CASE TileInside(s, x, y)
      <3>1. Short(Mar2(x)) = Mar2(x) /\ Short(Mar2(y)) = Mar2(y)
        BY <1>6, <2>4 DEF TileStrays
      <3>2. /\ col(i) >= 0 /\ i % len < Short(Mar2(x)) <=> p[1] - x \in 0 .. Tile - 1
            /\ p[1] - x \in 0 .. Tile - 1 => col(i) = p[1] - x
        BY <2>2, <3>1, AxisExact
      <3>3. /\ row(i) >= 0 /\ i \div len < Short(Mar2(y)) <=> p[2] - y \in 0 .. Tile - 1
            /\ p[2] - y \in 0 .. Tile - 1 => row(i) = p[2] - y
        BY <2>2, <3>1, AxisExact
      <3>4. painted[i] = IF Painting(i) THEN color(i) ELSE layer[i]
        <4> HIDE DEF Painting, color
        <4> QED
          BY <1>3, <2>2
      <3>5. CASE p[1] - x \in 0 .. Tile - 1 /\ p[2] - y \in 0 .. Tile - 1
        <4>1. col(i) = p[1] - x /\ row(i) = p[2] - y
          BY <3>2, <3>3, <3>5
        <4>2. Painting(i) <=> Paints(c, ColorIn(c, a, p[1] - x, p[2] - y))
          <5>1. Painting(i) <=> Paints(c, ColorIn(c, a, col(i), row(i)))
            BY <3>2, <3>3, <3>5
          <5>2. QED
            BY <4>1, <5>1
        <4>3. color(i) = Blended(ColorIn(c, a, p[1] - x, p[2] - y), c.blend)
          BY <4>1
        <4> HIDE DEF Painting, color
        <4>4. QED
          BY <1>4, <2>1, <2>4, <3>4, <3>5, <4>2, <4>3 DEF TileOver
      <3>6. CASE ~(p[1] - x \in 0 .. Tile - 1 /\ p[2] - y \in 0 .. Tile - 1)
        <4>1. ~Painting(i)
          BY <3>2, <3>3, <3>6
        <4> HIDE DEF Painting, color
        <4>2. QED
          BY <1>4, <2>1, <2>4, <3>4, <3>6, <4>1 DEF TileOver
      <3>7. QED
        BY <3>5, <3>6
    <2>5. QED
      BY <2>3, <2>4
  <1>7. QED
    BY <1>4, <1>5, <1>6

LEMMA TileKeeps ==
  ASSUME NEW s \in Screens, NEW c \in TileControls, NEW layer \in Flat(s.w, s.h),
         NEW x \in Int, NEW y \in Int, NEW a \in Int
  PROVE  /\ PaintTile(layer, s, c, x, y, a) \in Flat(s.w, s.h)
         /\ ~TileStrays(s, x, y) =>
              Covered(s, layer, PaintTile(layer, s, c, x, y, a), x, y, x + Tile, y + Tile)
  <1>1. Tile \in Int
    BY WordAssumption
  <1>2. ASSUME ~TileStrays(s, x, y), NEW p \in Pixels(s),
               PaintTile(layer, s, c, x, y, a)[PlaceOf(s, p)] # layer[PlaceOf(s, p)]
        PROVE  p[1] \in x .. (x + Tile) - 1 /\ p[2] \in y .. (y + Tile) - 1
    <2>1. p[1] - x \in 0 .. Tile - 1 /\ p[2] - y \in 0 .. Tile - 1
      BY <1>2, TileShows DEF TileOver
    <2>2. p[1] \in Int /\ p[2] \in Int
      BY PixelPlace
    <2>3. QED
      BY <1>1, <2>1, <2>2
  <1>3. QED
    BY <1>2, TileShows DEF Covered

\* What a run is noted to reach has each of its tiles.
LEMMA ReachCovers ==
  ASSUME NEW flipped, NEW from \in Int, NEW n \in Nat, NEW i \in 0 .. n - 1,
         NEW step \in {0, Toward(flipped) * Tile}
  PROVE  LET span == Reach(flipped, from, from + n * step)
         IN  /\ span[1] \in Int /\ span[2] \in Int /\ from + i * step \in Int
             /\ span[1] <= from + i * step /\ (from + i * step) + Tile <= span[2]
  <1>1. Tile \in Nat \ {0}
    BY WordAssumption
  <1>2. i * Tile \in Nat /\ n * Tile \in Nat /\ i * Tile <= n * Tile
    <2>1. n - i \in Nat /\ i \in Nat
      OBVIOUS
    <2>2. (n - i) * Tile \in Nat
      BY <1>1, <2>1
    <2>3. (n - i) * Tile = n * Tile - i * Tile
      BY <1>1, <2>1
    <2>4. i * Tile \in Nat /\ n * Tile \in Nat
      BY <1>1, <2>1
    <2>5. QED
      BY <2>2, <2>3, <2>4
  <1>3. CASE step = 0
    <2>1. i * step = 0 /\ n * step = 0
      BY <1>3
    <2>2. QED
      BY <1>1, <2>1 DEF Reach
  <1>4. CASE step # 0 /\ flipped
    <2>1. step = -Tile
      BY <1>1, <1>4 DEF Toward
    <2>2. i * step = -(i * Tile) /\ n * step = -(n * Tile)
      BY <1>1, <2>1
    <2>3. QED
      BY <1>1, <1>2, <1>4, <2>2 DEF Reach
  <1>5. CASE step # 0 /\ ~flipped
    <2>1. step = Tile
      BY <1>1, <1>5 DEF Toward
    <2>2. QED
      BY <1>1, <1>2, <1>5, <2>1 DEF Reach
  <1>6. QED
    BY <1>3, <1>4, <1>5

\* Where the tiles of a run are, and how many there are.
LEMMA TilesType ==
  ASSUME NEW s \in Screens, NEW c \in TileControls
  PROVE  /\ s.x \in Int /\ s.y \in Int /\ s.a \in Int /\ s.ml \in Nat /\ Tile \in Nat \ {0}
         /\ StepX(s, c) \in {0, Toward(c.fx) * Tile} /\ StepY(s, c) \in {0, Toward(c.fy) * Tile}
         /\ \A i \in Int : /\ TileX(s, c, i) \in Int /\ TileY(s, c, i) \in Int
                           /\ s.a + i * StepA(s, c) \in Int
  <1>1. /\ s.x \in Int /\ s.y \in Int /\ s.a \in Int /\ s.ml \in Nat /\ Tile \in Nat \ {0}
        /\ StepX(s, c) \in {0, Toward(c.fx) * Tile} /\ StepY(s, c) \in {0, Toward(c.fy) * Tile}
    BY WordAssumption DEF Screens, StepX, StepY
  <1>2. Toward(c.fx) \in Int /\ Toward(c.fy) \in Int
    BY DEF Toward
  <1>3. Toward(c.fx) * Tile \in Int /\ Toward(c.fy) * Tile \in Int /\ 1 * Tile \in Int /\ 2 * Tile \in Int
    BY <1>1, <1>2
  <1>4. StepX(s, c) \in Int /\ StepY(s, c) \in Int /\ StepA(s, c) \in Int
    <2>1. StepA(s, c) \in Int
      BY <1>1 DEF StepA
    <2>2. QED
      BY <1>1, <1>3, <2>1
  <1>5. ASSUME NEW i \in Int
        PROVE  /\ TileX(s, c, i) \in Int /\ TileY(s, c, i) \in Int /\ s.a + i * StepA(s, c) \in Int
    <2>1. i * StepX(s, c) \in Int /\ i * StepY(s, c) \in Int /\ i * StepA(s, c) \in Int
      BY <1>4
    <2>2. QED
      BY <1>1, <2>1 DEF TileX, TileY
  <1>6. QED
    BY <1>1, <1>5

\* A run paints one tile after the other.
LEMMA PaintedExact ==
  ASSUME NEW s \in Screens, NEW c \in TileControls
  PROVE  /\ Painted(s, c)[0] = s.layer[c.layer]
         /\ \A n \in 1 .. s.ml + 1 :
              Painted(s, c)[n] = PaintTile(Painted(s, c)[n - 1], s, c, TileX(s, c, n - 1),
                                           TileY(s, c, n - 1), s.a + (n - 1) * StepA(s, c))
  <1> DEFINE X == Flat(s.w, s.h)
             Tiled(g, n) == PaintTile(g, s, c, TileX(s, c, n - 1), TileY(s, c, n - 1),
                                      s.a + (n - 1) * StepA(s, c))
  <1>1. PICK N : N = s.ml + 1
    OBVIOUS
  <1> DEFINE IsPainted(f) ==
               f = [n \in 0 .. N |-> IF n = 0 THEN s.layer[c.layer] ELSE Tiled(f[n - 1], n)]
  <1>2. PICK start : start = s.layer[c.layer]
    OBVIOUS
  <1>3. PICK step : step = [q \in (1 .. N) \X X |-> Tiled(q[2], q[1])]
    OBVIOUS
  <1>4. N \in Nat /\ start \in X
    BY <1>1, <1>2, TilesType, ControlsAssumption DEF Screens, Layers
  <1>5. step \in [(1 .. N) \X X -> X]
    <2>1. ASSUME NEW q \in (1 .. N) \X X
          PROVE  Tiled(q[2], q[1]) \in X
      <3>1. q[2] \in X /\ q[1] - 1 \in Int
        BY <1>4
      <3>2. /\ TileX(s, c, q[1] - 1) \in Int /\ TileY(s, c, q[1] - 1) \in Int
            /\ s.a + (q[1] - 1) * StepA(s, c) \in Int
        BY <3>1, TilesType
      <3>3. QED
        BY <3>1, <3>2, TileKeeps
    <2> HIDE DEF X, Tiled
    <2>2. QED
      BY <1>3, <2>1
  <1>6. PICK f \in [0 .. N -> X] : Follows(f, N, start, step)
    <2> HIDE DEF X
    <2> QED
      BY <1>4, <1>5, Recursion
  <1>7. ASSUME NEW n \in 1 .. N
        PROVE  f[n] = Tiled(f[n - 1], n)
    <2> HIDE DEF X, Tiled
    <2>1. n - 1 \in 0 .. N /\ <<n, f[n - 1]>> \in (1 .. N) \X X
      BY <1>4, <1>6
    <2>2. step[<<n, f[n - 1]>>] = Tiled(f[n - 1], n)
      BY <1>3, <2>1
    <2>3. QED
      BY <1>6, <2>2 DEF Follows
  <1>8. IsPainted(f)
    <2> HIDE DEF X, Tiled
    <2>1. f = [n \in 0 .. N |-> f[n]]
      BY <1>6
    <2>2. ASSUME NEW n \in 0 .. N
          PROVE  f[n] = IF n = 0 THEN s.layer[c.layer] ELSE Tiled(f[n - 1], n)
      <3>1. CASE n = 0
        BY <1>2, <1>6, <3>1 DEF Follows
      <3>2. CASE n # 0
        <4>1. n \in 1 .. N
          BY <1>4, <3>2
        <4>2. QED
          BY <1>7, <3>2, <4>1
      <3>3. QED
        BY <3>1, <3>2
    <2>3. QED
      BY <2>1, <2>2
  <1>9. PICK after : after = Painted(s, c)
    OBVIOUS
  <1>10. IsPainted(after)
    <2>1. after = CHOOSE g : IsPainted(g)
      BY <1>1, <1>9 DEF Painted
    <2> HIDE DEF IsPainted
    <2>2. QED
      BY <1>8, <2>1
  <1>11. after[0] = s.layer[c.layer]
    <2> HIDE DEF Tiled
    <2>1. 0 \in 0 .. N
      BY <1>4
    <2>2. QED
      BY <1>10, <2>1
  <1>12. ASSUME NEW n \in 1 .. N
         PROVE  after[n] = Tiled(after[n - 1], n)
    <2> HIDE DEF Tiled
    <2>1. n \in 0 .. N /\ n # 0
      BY <1>4
    <2>2. QED
      BY <1>10, <2>1
  <1>13. QED
    BY <1>1, <1>9, <1>11, <1>12

\* The tiles of a run that paint a pixel, and the color that each gives to it.
OverPixel(s, c, p, i) == p[1] - TileX(s, c, i) \in 0 .. Tile - 1 /\ p[2] - TileY(s, c, i) \in 0 .. Tile - 1
ColorAt(s, c, p, i) == ColorIn(c, s.a + i * StepA(s, c), p[1] - TileX(s, c, i), p[2] - TileY(s, c, i))
Painters(s, c, p, n) == {i \in 0 .. n - 1 : OverPixel(s, c, p, i) /\ Paints(c, ColorAt(s, c, p, i))}

\* A pixel is as it was, or as the last of the tiles that paint it leaves it.
LastPainted(s, c, p, n, old, color) ==
  \/ Painters(s, c, p, n) = {} /\ color = old
  \/ \E i \in Painters(s, c, p, n) :
       /\ \A j \in Painters(s, c, p, n) : j <= i
       /\ color = Blended(ColorAt(s, c, p, i), c.blend)

\* One more tile.
LEMMA OneMoreTile ==
  ASSUME NEW s, NEW c, NEW p, NEW n \in Nat \ {0}, NEW old, NEW before, NEW color,
         LastPainted(s, c, p, n - 1, old, before),
         color = TileOver(c, s.a + (n - 1) * StepA(s, c), p, TileX(s, c, n - 1), TileY(s, c, n - 1), before)
  PROVE  LastPainted(s, c, p, n, old, color)
  <1> DEFINE Here(i) == OverPixel(s, c, p, i) /\ Paints(c, ColorAt(s, c, p, i))
             Earlier == Painters(s, c, p, n - 1)
             Now == Painters(s, c, p, n)
  <1>1. Now = Earlier \union (IF Here(n - 1) THEN {n - 1} ELSE {}) /\ \A j \in Earlier : j \in Int /\ j <= n - 1
    <2>1. 0 .. n - 1 = (0 .. (n - 1) - 1) \union {n - 1}
      OBVIOUS
    <2>2. Now = {i \in 0 .. n - 1 : Here(i)} /\ Earlier = {i \in 0 .. (n - 1) - 1 : Here(i)}
      BY DEF Painters
    <2> HIDE DEF Now, Earlier, Here
    <2>3. QED
      BY <2>1, <2>2
  <1>2. color = IF Here(n - 1) THEN Blended(ColorAt(s, c, p, n - 1), c.blend) ELSE before
    BY DEF TileOver, OverPixel, ColorAt
  <1>3. CASE Here(n - 1)
    <2>1. n - 1 \in Now /\ \A j \in Now : j <= n - 1
      <3> HIDE DEF Now, Earlier, Here
      <3> QED
        BY <1>1, <1>3
    <2>2. color = Blended(ColorAt(s, c, p, n - 1), c.blend)
      BY <1>2, <1>3
    <2>3. QED
      BY <2>1, <2>2 DEF LastPainted
  <1>4. CASE ~Here(n - 1)
    <2>1. Now = Earlier /\ color = before
      <3> HIDE DEF Now, Earlier, Here
      <3> QED
        BY <1>1, <1>2, <1>4
    <2>2. QED
      BY <2>1 DEF LastPainted
  <1>5. QED
    BY <1>3, <1>4

\* The layer after a run, if none of its tiles strays.
LEMMA RunShows ==
  ASSUME NEW s \in Screens, NEW c \in TileControls
  PROVE  LET xs == Reach(c.fx, s.x, TileX(s, c, s.ml + 1))
             ys == Reach(c.fy, s.y, TileY(s, c, s.ml + 1))
         IN  \E f \in Flat(s.w, s.h) :
               /\ Sprites(s, c) =
                    Redrawn(s, c.layer, f, xs[1], ys[1], xs[2], ys[2],
                            IF s.mx THEN s.x + Toward(c.fx) * Tile ELSE s.x,
                            IF s.my THEN s.y + Toward(c.fy) * Tile ELSE s.y, s.a + (s.ml + 1) * StepA(s, c))
               /\ ~RunStrays(s, c) =>
                    \A p \in Pixels(s) :
                      LastPainted(s, c, p, s.ml + 1, s.layer[c.layer][PlaceOf(s, p)], f[PlaceOf(s, p)])
  <1>1. PICK k, n : k = c.layer /\ n = s.ml + 1
    OBVIOUS
  <1>2. PICK after : after = Painted(s, c)
    OBVIOUS
  <1>3. PICK f : f = after[n]
    OBVIOUS
  <1>4. /\ k \in Layers /\ s.layer[k] \in Flat(s.w, s.h) /\ n \in Nat
    BY <1>1, ControlsAssumption, TilesType DEF Layers, Screens
  <1>5. /\ after[0] = s.layer[k]
        /\ \A m \in 1 .. n :
             after[m] = PaintTile(after[m - 1], s, c, TileX(s, c, m - 1), TileY(s, c, m - 1),
                                  s.a + (m - 1) * StepA(s, c))
    BY <1>1, <1>2, PaintedExact
  <1>6. ASSUME NEW m \in 1 .. n
        PROVE  /\ m - 1 \in 0 .. s.ml /\ m \in Nat \ {0}
               /\ TileX(s, c, m - 1) \in Int /\ TileY(s, c, m - 1) \in Int
               /\ s.a + (m - 1) * StepA(s, c) \in Int
    <2>1. m - 1 \in 0 .. s.ml /\ m - 1 \in Int /\ m \in Nat \ {0}
      BY <1>1, <1>4, TilesType
    <2>2. QED
      BY <2>1, TilesType
  <1>7. \A m \in 0 .. n : after[m] \in Flat(s.w, s.h)
    <2>1. ASSUME NEW m \in 1 .. n, after[m - 1] \in Flat(s.w, s.h)
          PROVE  after[m] \in Flat(s.w, s.h)
      BY <1>5, <1>6, <2>1, TileKeeps
    <2>2. QED
      BY <1>4, <1>5, <2>1, AllAlong
  <1>8. f \in Flat(s.w, s.h)
    BY <1>3, <1>4, <1>7
  <1>9. Sprites(s, c) =
          Redrawn(s, k, f, Reach(c.fx, s.x, TileX(s, c, n))[1], Reach(c.fy, s.y, TileY(s, c, n))[1],
                  Reach(c.fx, s.x, TileX(s, c, n))[2], Reach(c.fy, s.y, TileY(s, c, n))[2],
                  IF s.mx THEN s.x + Toward(c.fx) * Tile ELSE s.x,
                  IF s.my THEN s.y + Toward(c.fy) * Tile ELSE s.y, s.a + n * StepA(s, c))
    BY <1>1, <1>2, <1>3 DEF Sprites, Redrawn
  <1>10. ASSUME ~RunStrays(s, c), NEW p \in Pixels(s)
         PROVE  LastPainted(s, c, p, n, s.layer[k][PlaceOf(s, p)], f[PlaceOf(s, p)])
    <2> DEFINE S == {m \in 0 .. n : LastPainted(s, c, p, m, s.layer[k][PlaceOf(s, p)], after[m][PlaceOf(s, p)])}
    <2>1. 0 \in S
      <3>1. Painters(s, c, p, 0) = {}
        BY DEF Painters
      <3>2. QED
        BY <1>4, <1>5, <3>1 DEF LastPainted
    <2>2. ASSUME NEW m \in 0 .. n, m \in S, m + 1 <= n
          PROVE  m + 1 \in S
      <3>1. PICK q \in 1 .. n : q = m + 1 /\ q - 1 = m
        BY <1>4, <2>2
      <3>2. ~TileStrays(s, TileX(s, c, q - 1), TileY(s, c, q - 1))
        BY <1>6, <1>10 DEF RunStrays
      <3>3. after[q - 1] \in Flat(s.w, s.h)
        BY <1>7, <3>1
      <3>4. after[q][PlaceOf(s, p)]
              = TileOver(c, s.a + (q - 1) * StepA(s, c), p, TileX(s, c, q - 1), TileY(s, c, q - 1),
                         after[q - 1][PlaceOf(s, p)])
        BY <1>5, <1>6, <3>2, <3>3, TileShows
      <3>5. LastPainted(s, c, p, q - 1, s.layer[k][PlaceOf(s, p)], after[q - 1][PlaceOf(s, p)])
        BY <2>2, <3>1
      <3>6. LastPainted(s, c, p, q, s.layer[k][PlaceOf(s, p)], after[q][PlaceOf(s, p)])
        BY <1>6, <3>4, <3>5, OneMoreTile
      <3>7. QED
        BY <3>1, <3>6
    <2>3. n \in 0 .. n /\ 0 .. n \subseteq S
      <3> HIDE DEF S
      <3> QED
        BY <1>4, <2>1, <2>2, Upwards
    <2>4. QED
      BY <1>3, <2>3
  <1>11. QED
    BY <1>1, <1>8, <1>9, <1>10

\* A run changes the pixels it is noted to reach, if none of its tiles strays.
LEMMA RunKeeps ==
  ASSUME NEW s \in Screens, NEW c \in TileControls
  PROVE  RedrawnWell(s, Sprites(s, c), c.layer, ~RunStrays(s, c))
  <1>1. PICK k, n : k = c.layer /\ n = s.ml + 1
    OBVIOUS
  <1>2. PICK xs, ys : /\ xs = Reach(c.fx, s.x, TileX(s, c, n))
                      /\ ys = Reach(c.fy, s.y, TileY(s, c, n))
    OBVIOUS
  <1>3. PICK x, y, a : /\ x = (IF s.mx THEN s.x + Toward(c.fx) * Tile ELSE s.x)
                       /\ y = (IF s.my THEN s.y + Toward(c.fy) * Tile ELSE s.y)
                       /\ a = s.a + n * StepA(s, c)
    OBVIOUS
  <1>4. PICK f \in Flat(s.w, s.h) :
          /\ Sprites(s, c) = Redrawn(s, k, f, xs[1], ys[1], xs[2], ys[2], x, y, a)
          /\ ~RunStrays(s, c) =>
               \A p \in Pixels(s) : LastPainted(s, c, p, n, s.layer[k][PlaceOf(s, p)], f[PlaceOf(s, p)])
    BY <1>1, <1>2, <1>3, RunShows
  <1>5. k \in Layers /\ n \in Nat /\ 0 \in 0 .. n - 1
    BY <1>1, ControlsAssumption, TilesType DEF Layers
  <1>6. x \in Int /\ y \in Int /\ a \in Int
    <2>1. Toward(c.fx) * Tile \in Int /\ Toward(c.fy) * Tile \in Int
      BY TilesType DEF Toward
    <2>2. s.x \in Int /\ s.y \in Int /\ a \in Int
      BY <1>3, <1>5, TilesType
    <2>3. QED
      BY <1>3, <2>1, <2>2
  <1>7. ASSUME NEW i \in 0 .. n - 1
        PROVE  /\ xs[1] \in Int /\ xs[2] \in Int /\ ys[1] \in Int /\ ys[2] \in Int
               /\ TileX(s, c, i) \in Int /\ TileY(s, c, i) \in Int
               /\ xs[1] <= TileX(s, c, i) /\ TileX(s, c, i) + Tile <= xs[2]
               /\ ys[1] <= TileY(s, c, i) /\ TileY(s, c, i) + Tile <= ys[2]
    <2>1. s.x \in Int /\ s.y \in Int /\ StepX(s, c) \in {0, Toward(c.fx) * Tile}
          /\ StepY(s, c) \in {0, Toward(c.fy) * Tile}
      BY TilesType
    <2>2. /\ xs[1] \in Int /\ xs[2] \in Int /\ TileX(s, c, i) \in Int
          /\ xs[1] <= TileX(s, c, i) /\ TileX(s, c, i) + Tile <= xs[2]
      BY <1>2, <1>5, <2>1, ReachCovers DEF TileX
    <2>3. /\ ys[1] \in Int /\ ys[2] \in Int /\ TileY(s, c, i) \in Int
          /\ ys[1] <= TileY(s, c, i) /\ TileY(s, c, i) + Tile <= ys[2]
      BY <1>2, <1>5, <2>1, ReachCovers DEF TileY
    <2>4. QED
      BY <2>2, <2>3
  <1>8. RedrawnWell(s, Sprites(s, c), k, Covered(s, s.layer[k], f, xs[1], ys[1], xs[2], ys[2]))
    BY <1>4, <1>5, <1>6, <1>7, Drawing
  <1>9. ASSUME ~RunStrays(s, c), NEW p \in Pixels(s), f[PlaceOf(s, p)] # s.layer[k][PlaceOf(s, p)]
        PROVE  p[1] \in xs[1] .. xs[2] - 1 /\ p[2] \in ys[1] .. ys[2] - 1
    <2>1. PICK i \in Painters(s, c, p, n) : TRUE
      BY <1>4, <1>9 DEF LastPainted
    <2>2. i \in 0 .. n - 1 /\ OverPixel(s, c, p, i)
      BY <2>1 DEF Painters
    <2>3. p[1] \in Int /\ p[2] \in Int /\ Tile \in Nat
      BY PixelPlace
    <2>4. QED
      BY <1>7, <2>2, <2>3 DEF OverPixel
  <1>10. QED
    BY <1>1, <1>8, <1>9 DEF RedrawnWell, Covered

-----------------------------------------------------------------------------
(***************************************************************************)
(* All is dirty after a change of the size or of the theme.                *)
(***************************************************************************)

\* Other things to note, with all else as it was.
LEMMA NotedOnly ==
  ASSUME NEW s \in Screens, NEW dirty \in [Layers -> Rects]
  PROVE  LET t == [s EXCEPT !.dirty = dirty]
         IN  /\ t \in Screens /\ t.w = s.w /\ t.h = s.h /\ t.layer = s.layer /\ t.dirty = dirty
             /\ Pixels(t) = Pixels(s) /\ \A l \in Layers, p \in Pixels(s) : At(t, l, p) = At(s, l, p)
  <1> DEFINE Arrays == [Layers -> UNION {Flat(z[1], z[2]) : z \in Sizes}]
  <1>1. PICK t : t = [s EXCEPT !.dirty = dirty]
    OBVIOUS
  <1>2. /\ s \in [w : Nat, h : Nat, layer : Arrays, dirty : [Layers -> Rects], x : Int, y : Int, a : Int,
                  mx : BOOLEAN, my : BOOLEAN, ma : BOOLEAN, ml : Nat]
        /\ \A l \in Layers : s.layer[l] \in Flat(s.w, s.h)
    BY DEF Screens
  <1> HIDE DEF Arrays
  <1>3. /\ t \in [w : Nat, h : Nat, layer : Arrays, dirty : [Layers -> Rects], x : Int, y : Int, a : Int,
                  mx : BOOLEAN, my : BOOLEAN, ma : BOOLEAN, ml : Nat]
        /\ t.w = s.w /\ t.h = s.h /\ t.layer = s.layer /\ t.dirty = dirty
    <2> HIDE DEF Rects
    <2> QED
      BY <1>1, <1>2
  <1>4. t \in Screens
    BY <1>2, <1>3 DEF Screens, Arrays
  <1>5. Pixels(t) = Pixels(s) /\ \A l \in Layers, p \in Pixels(s) : At(t, l, p) = At(s, l, p)
    BY <1>3 DEF Pixels, At
  <1>6. QED
    BY <1>1, <1>3, <1>4, <1>5

\* A screen of some size that the next frame renders whole.
Redone(t, w, h) ==
  /\ t \in Screens /\ t.w = w /\ t.h = h
  /\ \A l \in Layers, p \in Pixels(t) : IsDirty(t.dirty[l], p)

LEMMA AllDirtyExact ==
  ASSUME NEW s \in Screens
  PROVE  Redone(AllDirty(s), s.w, s.h)
  <1>1. s.w \in Nat /\ s.h \in Nat /\ \A l \in Layers : s.dirty[l] \in Rects
    BY DEF Screens
  <1>2. PICK dirty : dirty = [l \in Layers |-> Dirtied(s.dirty[l], 0, 0, s.w, s.h)]
    OBVIOUS
  <1>3. dirty \in [Layers -> Rects]
    <2>1. <<0, 0>> \in Int \X Int
      OBVIOUS
    <2>2. ASSUME NEW l \in Layers
          PROVE  Dirtied(s.dirty[l], 0, 0, s.w, s.h) \in Rects
      <3>1. s.dirty[l] \in Rects /\ 0 \in Int /\ s.w \in Int /\ s.h \in Int
        BY <1>1
      <3>2. QED
        BY <2>1, <3>1, Noted
    <2> HIDE DEF Rects
    <2>3. QED
      BY <1>2, <2>2
  <1>4. AllDirty(s) = [s EXCEPT !.dirty = dirty]
    BY <1>2 DEF AllDirty
  <1>5. AllDirty(s) \in Screens /\ AllDirty(s).w = s.w /\ AllDirty(s).h = s.h /\ AllDirty(s).dirty = dirty
    BY <1>3, <1>4, NotedOnly
  <1>6. ASSUME NEW l \in Layers, NEW p \in Pixels(s)
        PROVE  IsDirty(dirty[l], p)
    <2>1. p \in Int \X Int /\ p[1] \in 0 .. s.w - 1 /\ p[2] \in 0 .. s.h - 1 /\ 0 \in Int
      BY <1>1 DEF Pixels
    <2>2. IsDirty(Dirtied(s.dirty[l], 0, 0, s.w, s.h), p)
      BY <1>1, <2>1, Noted
    <2>3. QED
      BY <1>2, <2>2
  <1>7. Pixels(AllDirty(s)) = Pixels(s)
    BY <1>5 DEF Pixels
  <1>8. QED
    BY <1>5, <1>6, <1>7 DEF Redone

\* Cleared layers of another size.
LEMMA Cleared ==
  ASSUME NEW w \in Nat, NEW h \in Nat
  PROVE  /\ Clean(w, h) \in [Layers -> UNION {Flat(z[1], z[2]) : z \in Sizes}]
         /\ \A l \in Layers : Clean(w, h)[l] \in Flat(w, h)
  <1>1. 0 \in Colors
    BY DEF Colors
  <1>2. [i \in 0 .. Mar2(w) * Mar2(h) - 1 |-> 0] \in Flat(w, h)
    BY <1>1 DEF Flat
  <1>3. Flat(w, h) \subseteq UNION {Flat(z[1], z[2]) : z \in Sizes}
    <2>1. <<w, h>> \in Sizes
      BY DEF Sizes
    <2> HIDE DEF Flat
    <2>2. QED
      BY <2>1
  <1> HIDE DEF Flat
  <1>4. QED
    BY <1>2, <1>3 DEF Clean

LEMMA ResizeExact ==
  ASSUME NEW s \in Screens, NEW w \in Nat, NEW h \in Nat
  PROVE  Redone(Resize(s, w, h), w, h)
  <1> DEFINE Arrays == [Layers -> UNION {Flat(z[1], z[2]) : z \in Sizes}]
  <1>1. PICK t, layer : layer = Clean(w, h) /\ t = [s EXCEPT !.w = w, !.h = h, !.layer = layer]
    OBVIOUS
  <1>2. s \in [w : Nat, h : Nat, layer : Arrays, dirty : [Layers -> Rects], x : Int, y : Int, a : Int,
               mx : BOOLEAN, my : BOOLEAN, ma : BOOLEAN, ml : Nat]
    BY DEF Screens
  <1>3. layer \in Arrays /\ \A l \in Layers : layer[l] \in Flat(w, h)
    BY <1>1, Cleared
  <1> HIDE DEF Arrays
  <1>4. /\ t \in [w : Nat, h : Nat, layer : Arrays, dirty : [Layers -> Rects], x : Int, y : Int, a : Int,
                  mx : BOOLEAN, my : BOOLEAN, ma : BOOLEAN, ml : Nat]
        /\ t.w = w /\ t.h = h /\ t.layer = layer
    <2> HIDE DEF Rects
    <2> QED
      BY <1>1, <1>2, <1>3
  <1>5. t \in Screens
    BY <1>3, <1>4 DEF Screens, Arrays
  <1>6. Resize(s, w, h) = AllDirty(t)
    BY <1>1 DEF Resize
  <1>7. QED
    BY <1>4, <1>5, <1>6, AllDirtyExact

\* What is drawn on: the screen, in the size that was asked for.
LEMMA Ready ==
  ASSUME ScreenInv, TexturesFit
  PROVE  /\ MaybeResize(screen) \in Screens /\ StillStrayed \subseteq Layers
         /\ DOMAIN textures' = Layers /\ \A l \in Layers : DOMAIN textures'[l] = Pixels(MaybeResize(screen))
         /\ \A l \in Layers \ StillStrayed : Fresh(MaybeResize(screen), textures', theme, l)
  <1>1. screen \in Screens /\ preferred.w \in Nat /\ preferred.h \in Nat
    BY DEF ScreenInv, ScreenTypeOK
  <1>2. CASE Resizes
    <2>1. PICK s : s = Resize(screen, preferred.w, preferred.h)
      OBVIOUS
    <2>2. /\ s \in Screens /\ s.w = preferred.w /\ s.h = preferred.h
          /\ \A l \in Layers, p \in Pixels(s) : IsDirty(s.dirty[l], p)
      <3>1. Redone(Resize(screen, preferred.w, preferred.h), preferred.w, preferred.h)
        BY <1>1, ResizeExact
      <3>2. QED
        BY <2>1, <3>1 DEF Redone
    <2>3. MaybeResize(screen) = s /\ StillStrayed = {} /\ textures' = Unrendered(s.w, s.h)
      BY <1>2, <2>1, <2>2 DEF MaybeResize, StillStrayed, TexturesFit
    <2>4. DOMAIN textures' = Layers /\ \A l \in Layers : DOMAIN textures'[l] = Pixels(s)
      BY <2>3 DEF Unrendered, Pixels
    <2>5. \A l \in Layers : Fresh(s, textures', theme, l)
      BY <2>2 DEF Fresh
    <2>6. QED
      BY <2>2, <2>3, <2>4, <2>5
  <1>3. CASE ~Resizes
    BY <1>1, <1>3 DEF MaybeResize, StillStrayed, TexturesFit, ScreenInv, ScreenTypeOK
  <1>4. QED
    BY <1>2, <1>3

\* A texture stays fresh as long as what is drawn is noted.
LEMMA StaysFresh ==
  ASSUME NEW s \in Screens, NEW t \in Screens, t.w = s.w, t.h = s.h, NEW l \in Layers,
         NEW pictures, NEW th, Fresh(s, pictures, th, l), AllKept(s, t, l)
  PROVE  Fresh(t, pictures, th, l)
  <1>1. Pixels(t) = Pixels(s)
    BY DEF Pixels
  <1>2. QED
    BY <1>1 DEF Fresh, AllKept, Kept

-----------------------------------------------------------------------------
(***************************************************************************)
(* The steps.                                                              *)
(***************************************************************************)

LEMMA InitExact == InitScreen => ScreenInv
  <1> SUFFICES ASSUME InitScreen
               PROVE  ScreenInv
    OBVIOUS
  <1>1. PICK none, layer, dirty : /\ layer = Clean(0, 0) /\ dirty = [l \in Layers |-> Rect(0, 0, 0, 0)]
                                  /\ none = [w |-> 0, h |-> 0, layer |-> layer, dirty |-> dirty,
                                             x |-> 0, y |-> 0, a |-> 0,
                                             mx |-> FALSE, my |-> FALSE, ma |-> FALSE, ml |-> 0]
    OBVIOUS
  <1>2. screen = Resize(none, DefaultWidth, DefaultHeight)
    BY <1>1 DEF InitScreen
  <1>3. none \in Screens
    <2> DEFINE Arrays == [Layers -> UNION {Flat(z[1], z[2]) : z \in Sizes}]
    <2>1. layer \in Arrays /\ \A l \in Layers : layer[l] \in Flat(0, 0)
      BY <1>1, Cleared
    <2>2. dirty \in [Layers -> Rects]
      BY <1>1 DEF Rect, Rects
    <2> HIDE DEF Arrays
    <2>3. /\ none \in [w : Nat, h : Nat, layer : Arrays, dirty : [Layers -> Rects],
                       x : Int, y : Int, a : Int,
                       mx : BOOLEAN, my : BOOLEAN, ma : BOOLEAN, ml : Nat]
          /\ none.layer = layer /\ none.w = 0 /\ none.h = 0
      BY <1>1, <2>1, <2>2
    <2>4. QED
      BY <2>1, <2>3 DEF Screens, Arrays
  <1>4. Redone(screen, DefaultWidth, DefaultHeight)
    BY <1>2, <1>3, PortsAssumption, ResizeExact
  <1>5. textures = Unrendered(screen.w, screen.h) /\ strayed = {} /\ preferred \in [w : Nat, h : Nat]
    BY <1>4 DEF InitScreen, Redone
  <1>6. DOMAIN textures = Layers /\ \A l \in Layers : DOMAIN textures[l] = Pixels(screen)
    BY <1>5 DEF Unrendered, Pixels
  <1>7. QED
    BY <1>4, <1>5, <1>6 DEF Redone, ScreenInv, ScreenTypeOK, Fresh

\* What is drawn in a layer, and noted or known to stray.
LEMMA DrawnExact ==
  ASSUME ScreenInv, TexturesFit, UNCHANGED <<preferred, theme>>, NEW k \in Layers, NEW strays,
         RedrawnWell(MaybeResize(screen), screen', k, ~strays),
         strayed' = StillStrayed \union (IF strays THEN {k} ELSE {})
  PROVE  ScreenInv'
  <1>1. PICK s : s = MaybeResize(screen)
    OBVIOUS
  <1>2. PICK t : t = screen'
    OBVIOUS
  <1>3. /\ s \in Screens /\ StillStrayed \subseteq Layers
        /\ DOMAIN textures' = Layers /\ \A l \in Layers : DOMAIN textures'[l] = Pixels(s)
        /\ \A l \in Layers \ StillStrayed : Fresh(s, textures', theme, l)
    BY <1>1, Ready
  <1>4. /\ t \in Screens /\ t.w = s.w /\ t.h = s.h
        /\ \A l \in Layers \ {k} : AllKept(s, t, l)
        /\ ~strays => AllKept(s, t, k)
    BY <1>1, <1>2 DEF RedrawnWell
  <1>5. Pixels(t) = Pixels(s)
    BY <1>4 DEF Pixels
  <1>6. ASSUME NEW l \in Layers \ strayed'
        PROVE  Fresh(t, textures', theme', l)
    <2>1. l \in Layers \ StillStrayed /\ AllKept(s, t, l)
      BY <1>4, <1>6
    <2>2. QED
      BY <1>3, <1>4, <2>1, StaysFresh
  <1>7. ScreenTypeOK'
    BY <1>2, <1>3, <1>4, <1>5 DEF ScreenInv, ScreenTypeOK
  <1>8. \A l \in Layers \ strayed' : Fresh(screen', textures', theme', l)
    BY <1>2, <1>6
  <1>9. QED
    BY <1>7, <1>8 DEF ScreenInv

LEMMA DrawExact == ScreenInv /\ Draw => ScreenInv'
  <1> SUFFICES ASSUME ScreenInv, Draw
               PROVE  ScreenInv'
    OBVIOUS
  <1>1. PICK s : s = MaybeResize(screen)
    OBVIOUS
  <1>2. s \in Screens /\ TexturesFit /\ UNCHANGED <<preferred, theme>>
    BY <1>1, Ready DEF Draw
  <1>3. CASE \E c \in PixelControls : DeoPixel(c)
    <2>1. PICK c \in PixelControls : DeoPixel(c)
      BY <1>3
    <2>2. c.layer \in Layers
      BY ControlsAssumption DEF Layers
    <2>3. strayed' = StillStrayed \union (IF FillStrays(s, c) THEN {c.layer} ELSE {})
      BY <1>1, <2>1 DEF DeoPixel
    <2>4. CASE c.fill
      <3>1. RedrawnWell(s, screen', c.layer, ~FillStrays(s, c))
        BY <1>1, <1>2, <2>1, <2>4, FillKeeps DEF DeoPixel
      <3>2. QED
        BY <1>1, <1>2, <2>2, <2>3, <3>1, DrawnExact
    <2>5. CASE ~c.fill
      <3>1. screen' = Dot(s, c) /\ ~FillStrays(s, c)
        BY <1>1, <2>1, <2>5 DEF DeoPixel, FillStrays
      <3>2. RedrawnWell(s, screen', c.layer, ~FillStrays(s, c))
        BY <1>2, <2>2, <3>1, DotKeeps DEF RedrawnWell
      <3>3. QED
        BY <1>1, <1>2, <2>2, <2>3, <3>2, DrawnExact
    <2>6. QED
      BY <2>4, <2>5
  <1>4. CASE \E c \in TileControls : DeoSprite(c)
    <2>1. PICK c \in TileControls : DeoSprite(c)
      BY <1>4
    <2>2. c.layer \in Layers
      BY ControlsAssumption DEF Layers
    <2>3. /\ screen' = Sprites(s, c)
          /\ strayed' = StillStrayed \union (IF RunStrays(s, c) THEN {c.layer} ELSE {})
      BY <1>1, <2>1 DEF DeoSprite
    <2>4. RedrawnWell(s, screen', c.layer, ~RunStrays(s, c))
      BY <1>2, <2>3, RunKeeps
    <2>5. QED
      BY <1>1, <1>2, <2>2, <2>3, <2>4, DrawnExact
  <1>5. QED
    BY <1>3, <1>4 DEF Draw

LEMMA DeiExact == ScreenInv /\ Dei => ScreenInv'
  <1> SUFFICES ASSUME ScreenInv, Dei
               PROVE  ScreenInv'
    OBVIOUS
  <1>1. screen' = MaybeResize(screen) /\ TexturesFit /\ strayed' = StillStrayed /\ UNCHANGED <<preferred, theme>>
    BY DEF Dei
  <1>2. /\ screen' \in Screens /\ strayed' \subseteq Layers
        /\ DOMAIN textures' = Layers /\ \A l \in Layers : DOMAIN textures'[l] = Pixels(screen')
        /\ \A l \in Layers \ strayed' : Fresh(screen', textures', theme', l)
    BY <1>1, Ready
  <1>3. QED
    BY <1>1, <1>2 DEF ScreenInv, ScreenTypeOK

\* The ports of the position and of the size have nothing to do with the layers.
LEMMA PortsExact ==
  ASSUME ScreenInv, Positions \/ \E w \in Widths, h \in Heights : Ask(w, h)
  PROVE  ScreenInv'
  <1>1. /\ screen' \in Screens /\ preferred' \in [w : Nat, h : Nat]
        /\ screen'.w = screen.w /\ screen'.h = screen.h
        /\ screen'.layer = screen.layer /\ screen'.dirty = screen.dirty
        /\ UNCHANGED <<theme, textures, strayed>>
    <2> DEFINE Arrays == [Layers -> UNION {Flat(z[1], z[2]) : z \in Sizes}]
    <2>1. /\ screen \in [w : Nat, h : Nat, layer : Arrays, dirty : [Layers -> Rects],
                         x : Int, y : Int, a : Int,
                         mx : BOOLEAN, my : BOOLEAN, ma : BOOLEAN, ml : Nat]
          /\ \A l \in Layers : screen.layer[l] \in Flat(screen.w, screen.h)
          /\ preferred \in [w : Nat, h : Nat]
      BY DEF ScreenInv, ScreenTypeOK, Screens
    <2> HIDE DEF Arrays
    <2>2. CASE Positions
      <3>1. /\ screen' \in [w : Nat, h : Nat, layer : Arrays, dirty : [Layers -> Rects],
                            x : Int, y : Int, a : Int,
                            mx : BOOLEAN, my : BOOLEAN, ma : BOOLEAN, ml : Nat]
            /\ screen'.w = screen.w /\ screen'.h = screen.h
            /\ screen'.layer = screen.layer /\ screen'.dirty = screen.dirty
        <4>1. \A v \in Xs \union Ys : Twos(v) \in Int
          BY PortsAssumption, WordAssumption DEF Twos
        <4>2. Addresses \subseteq Int
          BY PortsAssumption
        <4> HIDE DEF Rects
        <4>3. CASE \E v \in Xs : screen' = [screen EXCEPT !.x = Twos(v)]
          BY <2>1, <4>1, <4>3
        <4>4. CASE \E v \in Ys : screen' = [screen EXCEPT !.y = Twos(v)]
          BY <2>1, <4>1, <4>4
        <4>5. CASE \E v \in Addresses : screen' = [screen EXCEPT !.a = v]
          BY <2>1, <4>2, <4>5
        <4>6. CASE \E auto \in Autos :
                     screen' = [screen EXCEPT !.mx = auto.mx, !.my = auto.my, !.ma = auto.ma, !.ml = auto.ml]
          <5>1. \A auto \in Autos :
                  auto.mx \in BOOLEAN /\ auto.my \in BOOLEAN /\ auto.ma \in BOOLEAN /\ auto.ml \in Nat
            BY PortsAssumption
          <5>2. QED
            BY <2>1, <4>6, <5>1
        <4>7. QED
          BY <2>2, <4>3, <4>4, <4>5, <4>6, Zenon DEF Positions
      <3>2. UNCHANGED <<preferred, theme, textures, strayed>>
        BY <2>2, Zenon DEF Positions
      <3>3. screen' \in Screens
        BY <2>1, <3>1 DEF Screens, Arrays
      <3>4. QED
        BY <2>1, <3>1, <3>2, <3>3
    <2>3. CASE \E w \in Widths, h \in Heights : Ask(w, h)
      BY <2>3, PortsAssumption DEF Ask, ScreenInv, ScreenTypeOK
    <2>4. QED
      BY <2>2, <2>3
  <1>2. Pixels(screen') = Pixels(screen)
    BY <1>1 DEF Pixels
  <1>3. ASSUME NEW l \in Layers \ strayed
        PROVE  Fresh(screen', textures', theme', l)
    <2>1. Fresh(screen, textures, theme, l)
      BY DEF ScreenInv
    <2>2. \A p \in Pixels(screen) : At(screen', l, p) = At(screen, l, p)
      BY <1>1 DEF At
    <2>3. QED
      BY <1>1, <1>2, <2>1, <2>2 DEF Fresh
  <1>4. QED
    BY <1>1, <1>2, <1>3 DEF ScreenInv, ScreenTypeOK

LEMMA ThemeExact == ScreenInv /\ SetTheme => ScreenInv'
  <1> SUFFICES ASSUME ScreenInv, SetTheme
               PROVE  ScreenInv'
    OBVIOUS
  <1>1. screen \in Screens /\ screen' = AllDirty(screen) /\ strayed' = {} /\ UNCHANGED <<preferred, textures>>
    BY DEF ScreenInv, ScreenTypeOK, SetTheme
  <1>2. Redone(screen', screen.w, screen.h)
    BY <1>1, AllDirtyExact
  <1>3. Pixels(screen') = Pixels(screen)
    BY <1>2 DEF Redone, Pixels
  <1>4. QED
    BY <1>1, <1>2, <1>3 DEF Redone, ScreenInv, ScreenTypeOK, Fresh

\* A frame renders what is dirty, and nothing is then.
LEMMA FrameExact == ScreenInv /\ Frame => ScreenInv'
  <1> SUFFICES ASSUME ScreenInv, Frame
               PROVE  ScreenInv'
    OBVIOUS
  <1>1. screen \in Screens /\ UNCHANGED <<preferred, theme, strayed>>
    BY DEF ScreenInv, ScreenTypeOK, Frame
  <1>2. PICK dirty : dirty = [l \in Layers |-> Rendered(screen, l)]
    OBVIOUS
  <1>3. screen.w \in Nat /\ screen.h \in Nat
    BY <1>1 DEF Screens
  <1>4. ASSUME NEW l \in Layers
        PROVE  Clamped(screen, l) \in Rects
    <2>1. screen.dirty[l] \in Rects
      BY <1>1 DEF Screens
    <2>2. \A v \in Int, extent \in Nat : Within(v, extent) \in Int
      BY DEF Within
    <2>3. QED
      BY <1>3, <2>1, <2>2 DEF Clamped, Rect, Rects
  <1>5. dirty \in [Layers -> Rects]
    <2>1. Rect(screen.w + 1, screen.h + 1, 0, 0) \in Rects
      BY <1>3 DEF Rect, Rects
    <2> HIDE DEF Rects
    <2>2. QED
      BY <1>2, <1>4, <2>1 DEF Rendered
  <1>6. screen' = [screen EXCEPT !.dirty = dirty]
    BY <1>2 DEF Frame
  <1>7. /\ screen' \in Screens /\ screen'.dirty = dirty /\ Pixels(screen') = Pixels(screen)
        /\ \A l \in Layers, p \in Pixels(screen) : At(screen', l, p) = At(screen, l, p)
    BY <1>1, <1>5, <1>6, NotedOnly
  <1>8. /\ DOMAIN textures = Layers /\ \A l \in Layers : DOMAIN textures[l] = Pixels(screen)
        /\ strayed \subseteq Layers
    BY DEF ScreenInv, ScreenTypeOK
  <1>9. /\ DOMAIN textures' = Layers /\ \A l \in Layers : DOMAIN textures'[l] = Pixels(screen')
        /\ \A l \in Layers, p \in Pixels(screen) :
             textures'[l][p] = IF IsDirty(Clamped(screen, l), p) THEN Shown(l, theme, At(screen, l, p))
                               ELSE textures[l][p]
    BY <1>7, <1>8 DEF Frame
  <1>10. ASSUME NEW l \in Layers \ strayed
         PROVE  Fresh(screen', textures', theme', l)
    <2>1. SUFFICES ASSUME NEW p \in Pixels(screen)
                   PROVE  textures'[l][p] = Shown(l, theme, At(screen, l, p))
      BY <1>1, <1>7 DEF Fresh
    <2>2. CASE IsDirty(Clamped(screen, l), p)
      BY <1>9, <2>2
    <2>3. CASE ~IsDirty(Clamped(screen, l), p)
      <3>1. ~IsDirty(screen.dirty[l], p)
        BY <1>1, <2>3, CutOff
      <3>2. textures[l][p] = Shown(l, theme, At(screen, l, p))
        BY <3>1 DEF ScreenInv, Fresh
      <3>3. QED
        BY <1>9, <2>3, <3>2
    <2>4. QED
      BY <2>2, <2>3
  <1>11. QED
    BY <1>1, <1>7, <1>8, <1>9, <1>10 DEF ScreenInv, ScreenTypeOK

-----------------------------------------------------------------------------
(***************************************************************************)
(* The theorem.                                                            *)
(***************************************************************************)

LEMMA ScreenStep == ScreenInv /\ [NextScreen]_screenVars => ScreenInv'
  <1> SUFFICES ASSUME ScreenInv, [NextScreen]_screenVars
               PROVE  ScreenInv'
    OBVIOUS
  <1>1. CASE NextScreen
    BY <1>1, PortsExact, DeiExact, DrawExact, ThemeExact, FrameExact DEF NextScreen
  <1>2. CASE UNCHANGED screenVars
    BY <1>2 DEF screenVars, ScreenInv, ScreenTypeOK
  <1>3. QED
    BY <1>1, <1>2

LEMMA ScreenShown == ScreenInv => TexturesExact
  <1> SUFFICES ASSUME ScreenInv, NEW l \in Layers \ strayed, NEW p \in Pixels(screen),
                      ~IsDirty(Clamped(screen, l), p)
               PROVE  textures[l][p] = Shown(l, theme, At(screen, l, p))
    BY DEF TexturesExact, Pixels
  <1>1. ~IsDirty(screen.dirty[l], p)
    BY CutOff DEF ScreenInv, ScreenTypeOK
  <1>2. QED
    BY <1>1 DEF ScreenInv, Fresh

\* A texture shows what was drawn in its layer, except where the next frame renders it
\* and unless something was drawn where it should not be.
THEOREM ShowsWhatIsDrawn == ScreenSpec => []TexturesExact
  <1>1. ScreenSpec => []ScreenInv
    BY InitExact, ScreenStep, PTL DEF ScreenSpec
  <1>2. QED
    BY <1>1, ScreenShown, PTL

-----------------------------------------------------------------------------
(***************************************************************************)
(* The screen is a picture.                                                *)
(***************************************************************************)

PictureOf(s, l) == [p \in Pixels(s) |-> At(s, l, p)]

\* What is drawn on is the picture that was given the size asked for.
LEMMA Looked ==
  ASSUME ScreenInv, NEW s, s = MaybeResize(screen)
  PROVE  /\ s \in Screens
         /\ Plane!Given = <<s.w, s.h>> /\ Plane!Pixels(Plane!Given) = Pixels(s)
         /\ \A l \in Layers : Plane!Before(l) = PictureOf(s, l)
         /\ s.x = screen.x /\ s.y = screen.y /\ s.a = screen.a
         /\ s.mx = screen.mx /\ s.my = screen.my /\ s.ma = screen.ma /\ s.ml = screen.ml
  <1>1. screen \in Screens /\ preferred.w \in Nat /\ preferred.h \in Nat /\ screen.w \in Nat /\ screen.h \in Nat
    BY DEF ScreenInv, ScreenTypeOK, Screens
  <1>2. \A w, h : Plane!Pixels(<<w, h>>) = (0 .. w - 1) \X (0 .. h - 1)
    BY DEF Plane!Pixels
  <1>3. CASE Resizes
    <2>1. s = Resize(screen, preferred.w, preferred.h)
      BY <1>3 DEF MaybeResize
    <2>2. s \in Screens /\ s.w = preferred.w /\ s.h = preferred.h
      <3>1. Redone(Resize(screen, preferred.w, preferred.h), preferred.w, preferred.h)
        BY <1>1, ResizeExact
      <3>2. QED
        BY <2>1, <3>1 DEF Redone
    <2>3. /\ s.layer = Clean(preferred.w, preferred.h)
          /\ s.x = screen.x /\ s.y = screen.y /\ s.a = screen.a
          /\ s.mx = screen.mx /\ s.my = screen.my /\ s.ma = screen.ma /\ s.ml = screen.ml
      <3> HIDE DEF Clean
      <3> QED
        BY <1>1, <2>1 DEF Resize, AllDirty, Screens
    <2>4. Plane!Given = <<s.w, s.h>> /\ Plane!Given # <<screen.w, screen.h>>
      BY <1>1, <1>3, <2>2 DEF Plane!Given, Resizes
    <2>5. ASSUME NEW l \in Layers
          PROVE  Plane!Before(l) = PictureOf(s, l)
      <3>1. Plane!Before(l) = [p \in Pixels(s) |-> 0]
        BY <1>2, <2>4 DEF Plane!Before, Pixels
      <3>2. ASSUME NEW p \in Pixels(s)
            PROVE  At(s, l, p) = 0
        <4>1. PlaceOf(s, p) \in 0 .. Mar2(s.w) * Mar2(s.h) - 1
          BY <2>2, PixelPlace
        <4>2. s.layer[l] = [i \in 0 .. Mar2(s.w) * Mar2(s.h) - 1 |-> 0]
          BY <2>2, <2>3 DEF Clean
        <4>3. QED
          BY <4>1, <4>2 DEF At, PlaceOf
      <3>3. QED
        BY <3>1, <3>2 DEF PictureOf
    <2>6. QED
      BY <1>2, <2>2, <2>3, <2>4, <2>5 DEF Pixels
  <1>4. CASE ~Resizes
    <2>1. s = screen
      BY <1>4 DEF MaybeResize
    <2>2. Plane!Given = <<screen.w, screen.h>>
      BY <1>1, <1>4 DEF Plane!Given, Resizes
    <2>3. \A l \in Layers : Plane!Before(l) = PictureOf(s, l)
      BY <2>1, <2>2 DEF Plane!Before, Pictures, PictureOf, Pixels
    <2>4. QED
      BY <1>1, <1>2, <2>1, <2>2, <2>3 DEF Pixels
  <1>5. QED
    BY <1>3, <1>4

\* Drawing in a layer of the screen is drawing in a picture.
LEMMA PictureDrawn ==
  ASSUME ScreenInv, NEW s, s = MaybeResize(screen), NEW k \in Layers, NEW f,
         NEW x1, NEW y1, NEW x2, NEW y2, NEW x, NEW y, NEW a,
         screen' = Redrawn(s, k, f, x1, y1, x2, y2, x, y, a), preferred' = preferred,
         NEW picture, picture = [p \in Pixels(s) |-> f[PlaceOf(s, p)]]
  PROVE  /\ Plane!Drawn(k, picture)
         /\ screen'.x = x /\ screen'.y = y /\ screen'.a = a
  <1>1. PICK t : t = screen'
    OBVIOUS
  <1>2. /\ s \in Screens /\ Plane!Given = <<s.w, s.h>>
        /\ \A l \in Layers : Plane!Before(l) = PictureOf(s, l)
        /\ s.mx = screen.mx /\ s.my = screen.my /\ s.ma = screen.ma /\ s.ml = screen.ml
    BY Looked
  <1>3. /\ t.w = s.w /\ t.h = s.h /\ t.layer = [s.layer EXCEPT ![k] = f]
        /\ t.x = x /\ t.y = y /\ t.a = a
        /\ t.mx = s.mx /\ t.my = s.my /\ t.ma = s.ma /\ t.ml = s.ml
    BY <1>1, <1>2 DEF Redrawn, Screens
  <1>4. DOMAIN s.layer = Layers
    BY <1>2 DEF Screens
  <1>5. ASSUME NEW l \in Layers
        PROVE  PictureOf(t, l) = IF l = k THEN picture ELSE Plane!Before(l)
    <2>1. Pixels(t) = Pixels(s) /\ \A p : PlaceOf(t, p) = PlaceOf(s, p)
      BY <1>3 DEF Pixels, PlaceOf
    <2>2. t.layer[l] = IF l = k THEN f ELSE s.layer[l]
      BY <1>3, <1>4
    <2>3. PictureOf(t, l) = [p \in Pixels(s) |-> t.layer[l][PlaceOf(s, p)]]
      BY <2>1 DEF PictureOf, At, PlaceOf
    <2>4. PictureOf(s, l) = [p \in Pixels(s) |-> s.layer[l][PlaceOf(s, p)]]
      BY DEF PictureOf, At, PlaceOf
    <2>5. QED
      BY <1>2, <2>2, <2>3, <2>4
  <1>6. Pictures' = [l \in Layers |-> PictureOf(t, l)]
    BY <1>1 DEF Pictures, PictureOf, Pixels, At
  <1>7. Pictures' = [l \in Layers |-> IF l = k THEN picture ELSE Plane!Before(l)]
    BY <1>5, <1>6
  <1>8. Plane!Drawn(k, picture)
    BY <1>1, <1>2, <1>3, <1>7 DEF Plane!Drawn, Plane!Layers, Layers
  <1>9. QED
    BY <1>1, <1>3, <1>8

\* How far the addresses of tiles go.
AddressInv == screen.a \in 0 .. Word + (32 * Tile) * drawn /\ screen.ml \in 0 .. 15 /\ drawn \in 0 .. MaxDraws

LEMMA AddressSteps ==
  ASSUME NEW s, NEW c, NEW n \in Nat, NEW i \in 0 .. n
  PROVE  i * StepA(s, c) \in Nat /\ i * StepA(s, c) <= (2 * n) * Tile
  <1>1. Tile \in Nat
    BY WordAssumption
  <1>2. i \in Nat /\ n - i \in Nat
    OBVIOUS
  <1>3. i * Tile \in Nat /\ n * Tile \in Nat /\ (n - i) * Tile \in Nat
    BY <1>1, <1>2
  <1>4. (n - i) * Tile = n * Tile - i * Tile
    BY <1>1, <1>2
  <1>5. (2 * n) * Tile = 2 * (n * Tile) /\ i * (2 * Tile) = 2 * (i * Tile) /\ i * (1 * Tile) = i * Tile /\ i * 0 = 0
    BY <1>1, <1>2
  <1>6. StepA(s, c) = 0 \/ StepA(s, c) = 1 * Tile \/ StepA(s, c) = 2 * Tile
    BY DEF StepA
  <1>7. QED
    BY <1>3, <1>4, <1>5, <1>6

\* Draws stay below the last address.
LEMMA AddressRoom ==
  ASSUME AddressInv, drawn < MaxDraws
  PROVE  /\ Word + (32 * Tile) * drawn + 32 * Tile <= LastAddress
         /\ (32 * Tile) * (drawn + 1) = (32 * Tile) * drawn + 32 * Tile /\ (32 * Tile) * drawn \in Nat
         /\ LastAddress \in Nat /\ Tile \in Nat \ {0} /\ Word \in Nat
  <1>1. Tile \in Nat \ {0} /\ Word \in Nat /\ MaxDraws \in Nat /\ drawn \in Nat
    BY WordAssumption, DrawsAssumption DEF AddressInv
  <1>2. PICK u : u = 32 * Tile
    OBVIOUS
  <1>3. u \in Nat /\ MaxDraws - drawn \in Nat
    BY <1>1, <1>2
  <1>4. u * (MaxDraws - drawn) \in Nat /\ u * drawn \in Nat /\ u * MaxDraws \in Nat
    BY <1>1, <1>3
  <1>5. u * (MaxDraws - drawn) = u * MaxDraws - u * drawn
    BY <1>1, <1>3
  <1>6. u * (MaxDraws + 1) = u * MaxDraws + u /\ u * (drawn + 1) = u * drawn + u
    BY <1>1, <1>3
  <1>7. LastAddress = Word + u * (MaxDraws + 1)
    BY <1>2 DEF LastAddress
  <1>8. QED
    BY <1>1, <1>2, <1>3, <1>4, <1>5, <1>6, <1>7

LEMMA AddressStep ==
  ASSUME ScreenInv, AddressInv, [NextScreen]_screenVars
  PROVE  AddressInv'
  <1>1. CASE Draw
    <2>1. PICK s : s = MaybeResize(screen)
      OBVIOUS
    <2>2. s \in Screens /\ s.a = screen.a /\ s.ml = screen.ml
      BY <2>1, Looked
    <2>3. drawn' = drawn + 1 /\ drawn < MaxDraws
      BY <1>1 DEF Draw
    <2>4. CASE \E c \in PixelControls : DeoPixel(c)
      <3>1. screen'.a = s.a /\ screen'.ml = s.ml
        BY <2>1, <2>2, <2>4 DEF DeoPixel, Fill, Dot, Screens
      <3>2. QED
        BY <2>2, <2>3, <3>1, AddressRoom, DrawsAssumption DEF AddressInv
    <2>5. CASE \E c \in TileControls : DeoSprite(c)
      <3>1. PICK c \in TileControls : screen' = Sprites(s, c)
        BY <2>1, <2>5 DEF DeoSprite
      <3>2. screen'.a = s.a + (s.ml + 1) * StepA(s, c) /\ screen'.ml = s.ml
        BY <2>2, <3>1 DEF Sprites, Screens
      <3>3. s.ml + 1 \in 0 .. 16
        BY <2>2 DEF AddressInv
      <3>4. (s.ml + 1) * StepA(s, c) \in Nat /\ (s.ml + 1) * StepA(s, c) <= 32 * Tile
        <4>1. (s.ml + 1) * StepA(s, c) <= (2 * 16) * Tile /\ (s.ml + 1) * StepA(s, c) \in Nat
          BY <3>3, AddressSteps
        <4>2. QED
          BY <4>1, WordAssumption
      <3>5. QED
        BY <2>2, <2>3, <3>2, <3>4, AddressRoom, DrawsAssumption DEF AddressInv
    <2>6. QED
      BY <1>1, <2>4, <2>5 DEF Draw
  <1>2. CASE Positions
    <2> DEFINE Arrays == [Layers -> UNION {Flat(z[1], z[2]) : z \in Sizes}]
    <2>1. screen \in [w : Nat, h : Nat, layer : Arrays, dirty : [Layers -> Rects],
                      x : Int, y : Int, a : Int,
                      mx : BOOLEAN, my : BOOLEAN, ma : BOOLEAN, ml : Nat]
      BY DEF ScreenInv, ScreenTypeOK, Screens
    <2> HIDE DEF Arrays
    <2>2. /\ drawn' = drawn
          /\ \/ screen'.a = screen.a /\ screen'.ml = screen.ml
             \/ screen'.a \in Addresses /\ screen'.ml = screen.ml
             \/ screen'.a = screen.a /\ screen'.ml \in 0 .. 15
      <3> HIDE DEF Rects
      <3>1. UNCHANGED drawn
        BY <1>2, Zenon DEF Positions
      <3>2. CASE \E v \in Xs : screen' = [screen EXCEPT !.x = Twos(v)]
        BY <2>1, <3>1, <3>2
      <3>3. CASE \E v \in Ys : screen' = [screen EXCEPT !.y = Twos(v)]
        BY <2>1, <3>1, <3>3
      <3>4. CASE \E v \in Addresses : screen' = [screen EXCEPT !.a = v]
        BY <2>1, <3>1, <3>4
      <3>5. CASE \E auto \in Autos :
                   screen' = [screen EXCEPT !.mx = auto.mx, !.my = auto.my, !.ma = auto.ma, !.ml = auto.ml]
        <4>1. \A auto \in Autos : auto.ml \in 0 .. 15
          BY PortsAssumption
        <4>2. QED
          BY <2>1, <3>1, <3>5, <4>1
      <3>6. QED
        BY <1>2, <3>2, <3>3, <3>4, <3>5, Zenon DEF Positions
    <2>3. PICK u : u = (32 * Tile) * drawn
      OBVIOUS
    <2>4. u \in Nat /\ Word \in Nat
      <3>1. 32 * Tile \in Nat /\ drawn \in Nat
        BY WordAssumption, DrawsAssumption DEF AddressInv
      <3>2. QED
        BY <2>3, <3>1, WordAssumption
    <2>5. screen.a \in 0 .. Word + u /\ screen.ml \in 0 .. 15 /\ drawn \in 0 .. MaxDraws
      BY <2>3 DEF AddressInv
    <2>6. screen'.a \in 0 .. Word + u /\ screen'.ml \in 0 .. 15 /\ drawn' \in 0 .. MaxDraws
      <3>1. \A v \in Addresses : v \in 0 .. Word + u
        <4>1. Addresses \subseteq 0 .. Word - 1
          BY PortsAssumption
        <4>2. QED
          BY <2>4, <4>1
      <3>2. QED
        BY <2>2, <2>5, <3>1
    <2>7. QED
      BY <2>2, <2>3, <2>6 DEF AddressInv
  <1>3. CASE Dei
    BY <1>3, Looked DEF Dei, AddressInv
  <1>4. CASE SetTheme \/ Frame
    <2>1. screen'.a = screen.a /\ screen'.ml = screen.ml /\ drawn' = drawn
      BY <1>4 DEF SetTheme, Frame, AllDirty, ScreenInv, ScreenTypeOK, Screens
    <2>2. QED
      BY <2>1 DEF AddressInv
  <1>5. CASE UNCHANGED screenVars \/ \E w \in Widths, h \in Heights : Ask(w, h)
    BY <1>5 DEF screenVars, Ask, AddressInv
  <1>6. QED
    BY <1>1, <1>2, <1>3, <1>4, <1>5 DEF NextScreen

\* What a color that paints is blended to.
LEMMA Blendings ==
  ASSUME NEW c, c.blend \in 0 .. 15, NEW color \in {0, 1, 2, 3}
  PROVE  /\ Plane!Paints(c, color) <=> Paints(c, color)
         /\ Paints(c, color) => Plane!Blend(c, color) = Blended(color, c.blend)
  <1>1. PICK q : q = c.blend
    OBVIOUS
  <1>2. Plane!Paints(c, color) <=> Paints(c, color)
    BY DEF Plane!Paints, Paints
  <1>3. CASE color = 0
    <2>1. q \in 0 .. 15 /\ q \notin {5, 10, 15} =>
            <<0, 0, 0, 0, 1, 0, 1, 1, 2, 2, 0, 2, 3, 3, 3, 0>>[q + 1] = q \div 4
      OBVIOUS
    <2>2. Blended(color, c.blend) = <<0, 0, 0, 0, 1, 0, 1, 1, 2, 2, 0, 2, 3, 3, 3, 0>>[q + 1]
      BY <1>1, <1>3 DEF Blended, Blending
    <2>3. Plane!Blend(c, color) = q \div 4
      BY <1>1, <1>3 DEF Plane!Blend
    <2>4. Paints(c, color) => q \in 0 .. 15 /\ q \notin {5, 10, 15}
      BY <1>1, <1>3 DEF Paints
    <2>5. QED
      BY <1>2, <2>1, <2>2, <2>3, <2>4
  <1>4. CASE color = 1
    <2>1. q \in 0 .. 15 => <<0, 1, 2, 3, 0, 1, 2, 3, 0, 1, 2, 3, 0, 1, 2, 3>>[q + 1] = q % 4
      OBVIOUS
    <2>2. Blended(color, c.blend) = <<0, 1, 2, 3, 0, 1, 2, 3, 0, 1, 2, 3, 0, 1, 2, 3>>[q + 1]
      BY <1>1, <1>4 DEF Blended, Blending
    <2>3. Plane!Blend(c, color) = q % 4
      BY <1>1, <1>4 DEF Plane!Blend
    <2>4. QED
      BY <1>1, <1>2, <2>1, <2>2, <2>3
  <1>5. CASE color = 2
    <2>1. q \in 0 .. 15 =>
            <<1, 2, 3, 1, 1, 2, 3, 1, 1, 2, 3, 1, 1, 2, 3, 1>>[q + 1] = <<1, 2, 3, 1>>[(q % 4) + 1]
      OBVIOUS
    <2>2. Blended(color, c.blend) = <<1, 2, 3, 1, 1, 2, 3, 1, 1, 2, 3, 1, 1, 2, 3, 1>>[q + 1]
      BY <1>1, <1>5 DEF Blended, Blending
    <2>3. Plane!Blend(c, color) = <<1, 2, 3, 1>>[(q % 4) + 1]
      BY <1>1, <1>5 DEF Plane!Blend
    <2>4. QED
      BY <1>1, <1>2, <2>1, <2>2, <2>3
  <1>6. CASE color = 3
    <2>1. q \in 0 .. 15 =>
            <<2, 3, 1, 2, 2, 3, 1, 2, 2, 3, 1, 2, 2, 3, 1, 2>>[q + 1] = <<2, 3, 1, 2>>[(q % 4) + 1]
      OBVIOUS
    <2>2. Blended(color, c.blend) = <<2, 3, 1, 2, 2, 3, 1, 2, 2, 3, 1, 2, 2, 3, 1, 2>>[q + 1]
      BY <1>1, <1>6 DEF Blended, Blending
    <2>3. Plane!Blend(c, color) = <<2, 3, 1, 2>>[(q % 4) + 1]
      BY <1>1, <1>6 DEF Plane!Blend
    <2>4. QED
      BY <1>1, <1>2, <2>1, <2>2, <2>3
  <1>7. QED
    BY <1>3, <1>4, <1>5, <1>6

\* The color of a tile at one of its pixels, and what it is blended to.
LEMMA TileColors ==
  ASSUME NEW c \in TileControls, NEW a \in Nat, LastAddress \in Nat, a + 2 * Tile <= LastAddress,
         NEW x \in 0 .. Tile - 1, NEW y \in 0 .. Tile - 1
  PROVE  LET color == ColorIn(c, a, x, y)
         IN  /\ Plane!TileColor(c, a, x, y) = color
             /\ Plane!Paints(c, color) <=> Paints(c, color)
             /\ Paints(c, color) => Plane!Blend(c, color) = Blended(color, c.blend)
  <1>1. Tile \in Nat \ {0} /\ c.blend \in 0 .. 15
    BY WordAssumption, ControlsAssumption
  <1>2. PICK b, at, color : /\ b = (IF c.fx THEN x ELSE Tile - 1 - x)
                            /\ at = a + (IF c.fy THEN Tile - 1 - y ELSE y)
                            /\ color = ColorIn(c, a, x, y)
    OBVIOUS
  <1>3. b \in 0 .. Tile - 1 /\ at \in 0 .. LastAddress /\ at + Tile \in 0 .. LastAddress
    BY <1>1, <1>2
  <1>4. Bit(Memory[at], b) \in {0, 1} /\ Bit(Memory[at + Tile], b) \in {0, 1}
    BY <1>3, MemoryAssumption
  <1>5. color = Bit(Memory[at], b) + (IF c.deep THEN 2 * Bit(Memory[at + Tile], b) ELSE 0)
    BY <1>2 DEF ColorIn
  <1>6. Plane!TileColor(c, a, x, y) = color
    <2>1. /\ Tile - 1 - (IF c.fx THEN Tile - 1 - x ELSE x) = b
          /\ a + (IF c.fy THEN Tile - 1 - y ELSE y) = at
          /\ (a + Tile) + (IF c.fy THEN Tile - 1 - y ELSE y) = at + Tile
      BY <1>1, <1>2
    <2>2. QED
      BY <1>5, <2>1, Zenon DEF Plane!TileColor, Bit
  <1>7. color \in {0, 1, 2, 3}
    BY <1>4, <1>5
  <1>8. /\ Plane!Paints(c, color) <=> Paints(c, color)
        /\ Paints(c, color) => Plane!Blend(c, color) = Blended(color, c.blend)
    BY <1>1, <1>7, Blendings
  <1>9. QED
    BY <1>2, <1>6, <1>8

\* Where a pixel is in a tile of a run, what color it has there, and what it is blended to.
LEMMA TilesAreTheirs ==
  ASSUME ScreenInv, AddressInv, drawn < MaxDraws, NEW s, s = MaybeResize(screen), NEW c \in TileControls,
         NEW p \in Pixels(s), NEW i \in 0 .. s.ml
  PROVE  /\ OverPixel(s, c, p, i) <=> Plane!InTile(c, p, i) \in (0 .. Tile - 1) \X (0 .. Tile - 1)
         /\ OverPixel(s, c, p, i) =>
              /\ Plane!Paints(c, Plane!Color(c, p, i)) <=> Paints(c, ColorAt(s, c, p, i))
              /\ Paints(c, ColorAt(s, c, p, i)) =>
                   Plane!Blend(c, Plane!Color(c, p, i)) = Blended(ColorAt(s, c, p, i), c.blend)
  <1>1. /\ s \in Screens /\ s.x = screen.x /\ s.y = screen.y /\ s.a = screen.a
        /\ s.mx = screen.mx /\ s.my = screen.my /\ s.ma = screen.ma /\ s.ml = screen.ml
    BY Looked
  <1>2. s.x \in Int /\ s.y \in Int /\ Tile \in Nat \ {0} /\ i \in Nat /\ s.ml \in 0 .. 15
    BY <1>1, WordAssumption DEF Screens, AddressInv
  <1>3. p[1] \in Int /\ p[2] \in Int
    BY <1>1, PixelPlace
  <1>4. PICK x, y : x = p[1] - TileX(s, c, i) /\ y = p[2] - TileY(s, c, i)
    OBVIOUS
  <1>5. Plane!InTile(c, p, i) = <<x, y>>
    <2>1. /\ i * (-Tile) \in Int /\ i * Tile \in Int /\ i * 0 = 0
          /\ -1 * Tile = -Tile /\ 1 * Tile = Tile
      BY <1>2
    <2>2. /\ i * StepX(s, c) = IF screen.my THEN i * Plane!ToX(c) ELSE 0
          /\ i * StepY(s, c) = IF screen.mx THEN i * Plane!ToY(c) ELSE 0
      <3>1. /\ Toward(c.fx) * Tile = Plane!ToX(c) /\ Toward(c.fy) * Tile = Plane!ToY(c)
        BY <1>2, <2>1 DEF Toward, Plane!ToX, Plane!ToY
      <3>2. QED
        BY <1>1, <2>1, <3>1 DEF StepX, StepY
    <2>3. i * StepX(s, c) \in Int /\ i * StepY(s, c) \in Int
      BY <2>1, <2>2 DEF Plane!ToX, Plane!ToY
    <2>4. /\ p[1] - screen.x - i * StepX(s, c) = x
          /\ p[2] - screen.y - i * StepY(s, c) = y
      BY <1>1, <1>2, <1>3, <1>4, <2>3 DEF TileX, TileY
    <2>5. QED
      BY <2>2, <2>4 DEF Plane!InTile
  <1>6. Plane!Bytes(c) = StepA(s, c)
    BY <1>1, <1>2 DEF Plane!Bytes, StepA
  <1>7. PICK a : a = s.a + i * StepA(s, c)
    OBVIOUS
  <1>8. Plane!Color(c, p, i) = Plane!TileColor(c, a, x, y) /\ ColorAt(s, c, p, i) = ColorIn(c, a, x, y)
    BY <1>1, <1>4, <1>5, <1>6, <1>7 DEF Plane!Color, ColorAt
  <1>9. a \in Nat /\ LastAddress \in Nat /\ a + 2 * Tile <= LastAddress
    <2>1. i \in 0 .. 15
      BY <1>2
    <2>2. i * StepA(s, c) \in Nat /\ i * StepA(s, c) <= (2 * 15) * Tile
      BY <2>1, AddressSteps
    <2>3. /\ Word + (32 * Tile) * drawn + 32 * Tile <= LastAddress
          /\ (32 * Tile) * drawn \in Nat /\ LastAddress \in Nat /\ Word \in Nat
      BY AddressRoom
    <2>4. s.a \in 0 .. Word + (32 * Tile) * drawn
      BY <1>1 DEF AddressInv
    <2>5. QED
      BY <1>2, <1>7, <2>2, <2>3, <2>4
  <1>10. OverPixel(s, c, p, i) <=> x \in 0 .. Tile - 1 /\ y \in 0 .. Tile - 1
    BY <1>4 DEF OverPixel
  <1>11. QED
    BY <1>5, <1>8, <1>9, <1>10, TileColors

\* What a run leaves at a pixel.
LEMMA LastIsLast ==
  ASSUME ScreenInv, AddressInv, drawn < MaxDraws, NEW s, s = MaybeResize(screen), NEW c \in TileControls,
         NEW p \in Pixels(s), NEW old, NEW color, LastPainted(s, c, p, s.ml + 1, old, color)
  PROVE  color = IF Plane!Painting(c, p) = {} THEN old
                 ELSE Plane!Blend(c, Plane!Color(c, p, Plane!Last(Plane!Painting(c, p))))
  <1>1. PICK painting : painting = Plane!Painting(c, p)
    OBVIOUS
  <1>2. s.ml = screen.ml /\ s.ml \in 0 .. 15
    BY Looked DEF AddressInv
  <1>3. 0 .. (s.ml + 1) - 1 = 0 .. s.ml
    <2>1. (s.ml + 1) - 1 = s.ml
      BY <1>2
    <2>2. QED
      BY <2>1
  <1>4. painting = Painters(s, c, p, s.ml + 1)
    BY <1>1, <1>2, <1>3, TilesAreTheirs DEF Plane!Painting, Painters
  <1>5. CASE painting = {}
    BY <1>1, <1>4, <1>5 DEF LastPainted
  <1>6. CASE painting # {}
    <2>1. PICK i \in painting :
            (\A j \in painting : j <= i) /\ color = Blended(ColorAt(s, c, p, i), c.blend)
      BY <1>4, <1>6 DEF LastPainted
    <2>2. i \in 0 .. s.ml /\ OverPixel(s, c, p, i) /\ Paints(c, ColorAt(s, c, p, i))
      BY <1>3, <1>4, <2>1 DEF Painters
    <2>3. \A j \in painting : j \in Int
      BY <1>3, <1>4 DEF Painters
    <2>4. Plane!Last(painting) = i
      <3>1. \A k \in painting : (\A j \in painting : j <= k) => k = i
        BY <2>1, <2>3
      <3>2. QED
        BY <2>1, <3>1 DEF Plane!Last
    <2>5. color = Plane!Blend(c, Plane!Color(c, p, i))
      BY <2>1, <2>2, TilesAreTheirs
    <2>6. QED
      BY <1>1, <1>6, <2>4, <2>5
  <1>7. QED
    BY <1>5, <1>6

\* The three ways to draw.
LEMMA RunIsDrawn ==
  ASSUME ScreenInv, AddressInv, drawn < MaxDraws, preferred' = preferred, NEW c \in TileControls,
         NEW s, s = MaybeResize(screen), screen' = Sprites(s, c), ~RunStrays(s, c)
  PROVE  Plane!Tiles(c)
  <1>1. /\ s \in Screens /\ Plane!Pixels(Plane!Given) = Pixels(s)
        /\ \A l \in Layers : Plane!Before(l) = PictureOf(s, l)
        /\ s.x = screen.x /\ s.y = screen.y /\ s.a = screen.a
        /\ s.mx = screen.mx /\ s.my = screen.my /\ s.ma = screen.ma /\ s.ml = screen.ml
    BY Looked
  <1>2. PICK k, xs, ys, x, y, a :
          /\ k = c.layer
          /\ xs = Reach(c.fx, s.x, TileX(s, c, s.ml + 1)) /\ ys = Reach(c.fy, s.y, TileY(s, c, s.ml + 1))
          /\ x = (IF s.mx THEN s.x + Toward(c.fx) * Tile ELSE s.x)
          /\ y = (IF s.my THEN s.y + Toward(c.fy) * Tile ELSE s.y)
          /\ a = s.a + (s.ml + 1) * StepA(s, c)
    OBVIOUS
  <1>3. PICK f \in Flat(s.w, s.h) :
          /\ screen' = Redrawn(s, k, f, xs[1], ys[1], xs[2], ys[2], x, y, a)
          /\ \A p \in Pixels(s) :
               LastPainted(s, c, p, s.ml + 1, s.layer[k][PlaceOf(s, p)], f[PlaceOf(s, p)])
    BY <1>1, <1>2, RunShows
  <1>4. k \in Layers
    BY <1>2, ControlsAssumption DEF Layers
  <1>5. PICK picture : picture = [p \in Pixels(s) |-> f[PlaceOf(s, p)]]
    OBVIOUS
  <1>6. Plane!Drawn(k, picture) /\ screen'.x = x /\ screen'.y = y /\ screen'.a = a
    BY <1>3, <1>4, <1>5, PictureDrawn
  <1>7. ASSUME NEW p \in Pixels(s)
        PROVE  picture[p] = IF Plane!Painting(c, p) = {} THEN Plane!Before(k)[p]
                            ELSE Plane!Blend(c, Plane!Color(c, p, Plane!Last(Plane!Painting(c, p))))
    <2>1. Plane!Before(k)[p] = s.layer[k][PlaceOf(s, p)] /\ picture[p] = f[PlaceOf(s, p)]
      BY <1>1, <1>4, <1>5 DEF PictureOf, At, PlaceOf
    <2>2. LastPainted(s, c, p, s.ml + 1, Plane!Before(k)[p], picture[p])
      BY <1>3, <2>1
    <2>3. QED
      BY <2>2, LastIsLast
  <1>8. picture = [p \in Plane!Pixels(Plane!Given) |->
                     IF Plane!Painting(c, p) = {} THEN Plane!Before(k)[p]
                     ELSE Plane!Blend(c, Plane!Color(c, p, Plane!Last(Plane!Painting(c, p))))]
    BY <1>1, <1>5, <1>7
  <1>9. /\ x = screen.x + (IF screen.mx THEN Plane!ToX(c) ELSE 0)
        /\ y = screen.y + (IF screen.my THEN Plane!ToY(c) ELSE 0)
        /\ a = screen.a + (screen.ml + 1) * Plane!Bytes(c)
    <2>1. screen.x \in Int /\ screen.y \in Int /\ Tile \in Nat
      BY <1>1, WordAssumption DEF Screens
    <2>2. Toward(c.fx) * Tile = Plane!ToX(c) /\ Toward(c.fy) * Tile = Plane!ToY(c)
      BY <2>1 DEF Toward, Plane!ToX, Plane!ToY
    <2>3. StepA(s, c) = Plane!Bytes(c)
      BY <1>1, <2>1 DEF StepA, Plane!Bytes
    <2>4. QED
      BY <1>1, <1>2, <2>1, <2>2, <2>3
  <1>10. QED
    BY <1>2, <1>6, <1>8, <1>9 DEF Plane!Tiles

LEMMA DotIsDrawn ==
  ASSUME ScreenInv, preferred' = preferred, NEW c \in PixelControls,
         NEW s, s = MaybeResize(screen), screen' = Dot(s, c)
  PROVE  Plane!Dot(c)
  <1>1. /\ s \in Screens /\ Plane!Pixels(Plane!Given) = Pixels(s)
        /\ \A l \in Layers : Plane!Before(l) = PictureOf(s, l)
        /\ s.x = screen.x /\ s.y = screen.y /\ s.a = screen.a
        /\ s.mx = screen.mx /\ s.my = screen.my
    BY Looked
  <1>2. PICK k, bx, by, x, y : /\ k = c.layer /\ bx = s.x + 1 /\ by = s.y + 1
                               /\ x = (IF s.mx THEN s.x + 1 ELSE s.x) /\ y = (IF s.my THEN s.y + 1 ELSE s.y)
    OBVIOUS
  <1>3. PICK f \in Flat(s.w, s.h) :
          /\ screen' = Redrawn(s, k, f, s.x, s.y, bx, by, x, y, s.a)
          /\ \A p \in Pixels(s) :
               f[PlaceOf(s, p)] = IF p = <<s.x, s.y>> THEN c.color ELSE s.layer[k][PlaceOf(s, p)]
    BY <1>1, <1>2, DotShows
  <1>4. k \in Layers
    BY <1>2, ControlsAssumption DEF Layers
  <1>5. PICK picture : picture = [p \in Pixels(s) |-> f[PlaceOf(s, p)]]
    OBVIOUS
  <1>6. Plane!Drawn(k, picture) /\ screen'.x = x /\ screen'.y = y /\ screen'.a = s.a
    BY <1>3, <1>4, <1>5, PictureDrawn
  <1>7. ASSUME NEW p \in Pixels(s)
        PROVE  picture[p] = IF p = <<screen.x, screen.y>> THEN c.color ELSE Plane!Before(k)[p]
    BY <1>1, <1>3, <1>4, <1>5 DEF PictureOf, At, PlaceOf
  <1>8. picture = [p \in Plane!Pixels(Plane!Given) |->
                     IF p = <<screen.x, screen.y>> THEN c.color ELSE Plane!Before(k)[p]]
    BY <1>1, <1>5, <1>7
  <1>9. /\ x = screen.x + (IF screen.mx THEN 1 ELSE 0) /\ y = screen.y + (IF screen.my THEN 1 ELSE 0)
    BY <1>1, <1>2 DEF Screens
  <1>10. QED
    BY <1>1, <1>2, <1>6, <1>8, <1>9 DEF Plane!Dot

LEMMA FillIsDrawn ==
  ASSUME ScreenInv, preferred' = preferred, NEW c \in PixelControls, c.fill,
         NEW s, s = MaybeResize(screen), screen' = Fill(s, c), ~FillStrays(s, c)
  PROVE  Plane!Fill(c)
  <1>1. /\ s \in Screens /\ Plane!Pixels(Plane!Given) = Pixels(s)
        /\ \A l \in Layers : Plane!Before(l) = PictureOf(s, l)
        /\ s.x = screen.x /\ s.y = screen.y /\ s.a = screen.a
    BY Looked
  <1>2. PICK k, xs, ys : k = c.layer /\ xs = Span(c.left, s.x, s.w) /\ ys = Span(c.up, s.y, s.h)
    OBVIOUS
  <1>3. PICK ax, bx, ay, by : /\ ax = xs[1] - Tile /\ bx = xs[2] - Tile
                              /\ ay = ys[1] - Tile /\ by = ys[2] - Tile
    OBVIOUS
  <1>4. PICK f \in Flat(s.w, s.h) :
          /\ screen' = Redrawn(s, k, f, ax, ay, bx, by, s.x, s.y, s.a)
          /\ \A p \in Pixels(s) :
               f[PlaceOf(s, p)] = IF Besides(p[1], c.left, s.x) /\ Besides(p[2], c.up, s.y)
                                  THEN c.color ELSE s.layer[k][PlaceOf(s, p)]
    BY <1>1, <1>2, <1>3, FillShows
  <1>5. k \in Layers
    BY <1>2, ControlsAssumption DEF Layers
  <1>6. PICK picture : picture = [p \in Pixels(s) |-> f[PlaceOf(s, p)]]
    OBVIOUS
  <1>7. Plane!Drawn(k, picture) /\ screen'.x = s.x /\ screen'.y = s.y /\ screen'.a = s.a
    BY <1>4, <1>5, <1>6, PictureDrawn
  <1>8. ASSUME NEW p \in Pixels(s)
        PROVE  picture[p] = IF Plane!Beside(p[1], c.left, screen.x) /\ Plane!Beside(p[2], c.up, screen.y)
                            THEN c.color ELSE Plane!Before(k)[p]
    <2>1. Plane!Before(k)[p] = s.layer[k][PlaceOf(s, p)] /\ picture[p] = f[PlaceOf(s, p)]
      BY <1>1, <1>5, <1>6 DEF PictureOf, At, PlaceOf
    <2>2. QED
      BY <1>1, <1>4, <2>1 DEF Besides, Plane!Beside
  <1>9. picture = [p \in Plane!Pixels(Plane!Given) |->
                     IF Plane!Beside(p[1], c.left, screen.x) /\ Plane!Beside(p[2], c.up, screen.y)
                     THEN c.color ELSE Plane!Before(k)[p]]
    BY <1>1, <1>6, <1>8
  <1>10. QED
    BY <1>1, <1>2, <1>7, <1>9 DEF Plane!Fill

\* The layers make the pictures.
LEMMA SamePictures ==
  ASSUME screen'.w = screen.w, screen'.h = screen.h, screen'.layer = screen.layer
  PROVE  Pictures' = Pictures
  BY DEF Pictures, At

LEMMA PlacesAreSet ==
  ASSUME ScreenInv, Positions
  PROVE  Plane!Place
  <1> DEFINE Arrays == [Layers -> UNION {Flat(z[1], z[2]) : z \in Sizes}]
             Placed(x, y, a) == screen'.x = x /\ screen'.y = y /\ screen'.a = a
             Going(mx, my, ma, ml) ==
               screen'.mx = mx /\ screen'.my = my /\ screen'.ma = ma /\ screen'.ml = ml
             Same == screen'.w = screen.w /\ screen'.h = screen.h /\ screen'.layer = screen.layer
             SameGoing == Going(screen.mx, screen.my, screen.ma, screen.ml)
  <1>1. screen \in [w : Nat, h : Nat, layer : Arrays, dirty : [Layers -> Rects],
                    x : Int, y : Int, a : Int,
                    mx : BOOLEAN, my : BOOLEAN, ma : BOOLEAN, ml : Nat]
    BY DEF ScreenInv, ScreenTypeOK, Screens
  <1> HIDE DEF Arrays, Rects
  <1>2. UNCHANGED preferred
    BY Zenon DEF Positions
  <1>3. ASSUME NEW v \in Xs \union Ys
        PROVE  Twos(v) = Plane!Signed(v)
    <2>1. v \in Int /\ Word \div 2 \in Int
      BY WordAssumption, PortsAssumption
    <2>2. QED
      BY <2>1 DEF Twos, Plane!Signed
  <1>4. CASE \E v \in Xs : screen' = [screen EXCEPT !.x = Twos(v)]
    <2>1. \E v \in Xs : Same /\ SameGoing /\ Placed(Twos(v), screen.y, screen.a)
      BY <1>1, <1>4
    <2>2. Pictures' = Pictures
      BY <2>1, SamePictures
    <2>3. QED
      BY <1>2, <1>3, <2>1, <2>2 DEF Plane!Place
  <1>5. CASE \E v \in Ys : screen' = [screen EXCEPT !.y = Twos(v)]
    <2>1. \E v \in Ys : Same /\ SameGoing /\ Placed(screen.x, Twos(v), screen.a)
      BY <1>1, <1>5
    <2>2. Pictures' = Pictures
      BY <2>1, SamePictures
    <2>3. QED
      BY <1>2, <1>3, <2>1, <2>2 DEF Plane!Place
  <1>6. CASE \E v \in Addresses : screen' = [screen EXCEPT !.a = v]
    <2>1. \E v \in Addresses : Same /\ SameGoing /\ Placed(screen.x, screen.y, v)
      BY <1>1, <1>6
    <2>2. Pictures' = Pictures
      BY <2>1, SamePictures
    <2>3. QED
      BY <1>2, <2>1, <2>2 DEF Plane!Place
  <1>7. CASE \E auto \in Autos :
               screen' = [screen EXCEPT !.mx = auto.mx, !.my = auto.my, !.ma = auto.ma, !.ml = auto.ml]
    <2>1. \E auto \in Autos :
            Same /\ Placed(screen.x, screen.y, screen.a) /\ Going(auto.mx, auto.my, auto.ma, auto.ml)
      BY <1>1, <1>7
    <2>2. Pictures' = Pictures
      BY <2>1, SamePictures
    <2>3. \A auto \in Autos :
            auto = [mx |-> auto.mx, my |-> auto.my, ma |-> auto.ma, ml |-> auto.ml]
      BY PortsAssumption
    <2>4. [mx |-> screen'.mx, my |-> screen'.my, ma |-> screen'.ma, ml |-> screen'.ml] \in Autos
      BY <2>1, <2>3
    <2>5. QED
      BY <1>2, <2>1, <2>2, <2>4 DEF Plane!Place
  <1>8. QED
    BY <1>4, <1>5, <1>6, <1>7, Zenon DEF Positions

\* What a step of the screen is to its pictures.
LEMMA PictureStep ==
  ASSUME ScreenInv, AddressInv, [NextScreen]_screenVars, strayed' = {}
  PROVE  Plane!Next \/ UNCHANGED Plane!vars
  <1>1. CASE Draw
    <2>1. PICK s : s = MaybeResize(screen)
      OBVIOUS
    <2>2. drawn < MaxDraws /\ preferred' = preferred
      BY <1>1 DEF Draw
    <2>3. CASE \E c \in PixelControls : DeoPixel(c)
      <3>1. PICK c \in PixelControls : DeoPixel(c)
        BY <2>3
      <3>2. screen' = (IF c.fill THEN Fill(s, c) ELSE Dot(s, c)) /\ ~FillStrays(s, c)
        BY <2>1, <3>1 DEF DeoPixel
      <3>3. IF c.fill THEN Plane!Fill(c) ELSE Plane!Dot(c)
        BY <2>1, <2>2, <3>2, FillIsDrawn, DotIsDrawn
      <3>4. QED
        BY <3>3 DEF Plane!Next
    <2>4. CASE \E c \in TileControls : DeoSprite(c)
      <3>1. PICK c \in TileControls : DeoSprite(c)
        BY <2>4
      <3>2. screen' = Sprites(s, c) /\ ~RunStrays(s, c)
        BY <2>1, <3>1 DEF DeoSprite
      <3>3. Plane!Tiles(c)
        BY <2>1, <2>2, <3>2, RunIsDrawn
      <3>4. QED
        BY <3>3 DEF Plane!Next
    <2>5. QED
      BY <1>1, <2>3, <2>4 DEF Draw
  <1>2. CASE Positions
    BY <1>2, PlacesAreSet DEF Plane!Next
  <1>3. CASE Dei
    <2>1. PICK s : s = MaybeResize(screen)
      OBVIOUS
    <2>2. /\ Plane!Given = <<s.w, s.h>> /\ \A l \in Layers : Plane!Before(l) = PictureOf(s, l)
          /\ s.x = screen.x /\ s.y = screen.y /\ s.a = screen.a
          /\ s.mx = screen.mx /\ s.my = screen.my /\ s.ma = screen.ma /\ s.ml = screen.ml
      BY <2>1, Looked
    <2>3. screen' = s /\ preferred' = preferred
      BY <1>3, <2>1 DEF Dei
    <2>4. Pictures' = [l \in Layers |-> Plane!Before(l)]
      <3>1. Pictures' = [l \in Layers |-> PictureOf(s, l)]
        BY <2>3 DEF Pictures, PictureOf, Pixels, At
      <3>2. QED
        BY <2>2, <3>1
    <2>5. Plane!Look
      BY <2>2, <2>3, <2>4 DEF Plane!Look, Plane!Layers, Layers
    <2>6. QED
      BY <2>5 DEF Plane!Next
  <1>4. CASE \E w \in Widths, h \in Heights : Ask(w, h)
    <2>1. /\ \E w \in Widths, h \in Heights : preferred' = [w |-> w, h |-> h]
          /\ screen' = screen
      BY <1>4 DEF Ask
    <2>2. Pictures' = Pictures
      BY <2>1, SamePictures
    <2>3. Plane!Ask
      BY <2>1, <2>2 DEF Plane!Ask
    <2>4. QED
      BY <2>3 DEF Plane!Next
  <1>5. CASE SetTheme \/ Frame \/ UNCHANGED screenVars
    <2>1. /\ screen'.w = screen.w /\ screen'.h = screen.h /\ screen'.layer = screen.layer
          /\ screen'.x = screen.x /\ screen'.y = screen.y /\ screen'.a = screen.a
          /\ screen'.mx = screen.mx /\ screen'.my = screen.my
          /\ screen'.ma = screen.ma /\ screen'.ml = screen.ml
          /\ preferred' = preferred
      BY <1>5 DEF SetTheme, Frame, AllDirty, screenVars, ScreenInv, ScreenTypeOK, Screens
    <2>2. Pictures' = Pictures
      BY <2>1, SamePictures
    <2>3. QED
      BY <2>1, <2>2 DEF Plane!vars
  <1>6. QED
    BY <1>1, <1>2, <1>3, <1>4, <1>5 DEF NextScreen

LEMMA PictureInit == InitScreen => Plane!Init /\ AddressInv
  <1> SUFFICES ASSUME InitScreen
               PROVE  Plane!Init /\ AddressInv
    OBVIOUS
  <1>1. PICK none, layer, dirty : /\ layer = Clean(0, 0) /\ dirty = [l \in Layers |-> Rect(0, 0, 0, 0)]
                                  /\ none = [w |-> 0, h |-> 0, layer |-> layer, dirty |-> dirty,
                                             x |-> 0, y |-> 0, a |-> 0,
                                             mx |-> FALSE, my |-> FALSE, ma |-> FALSE, ml |-> 0]
    OBVIOUS
  <1>2. screen = Resize(none, DefaultWidth, DefaultHeight)
    BY <1>1 DEF InitScreen
  <1>3. /\ screen.w = DefaultWidth /\ screen.h = DefaultHeight
        /\ screen.layer = Clean(DefaultWidth, DefaultHeight)
        /\ screen.x = 0 /\ screen.y = 0 /\ screen.a = 0
        /\ screen.mx = FALSE /\ screen.my = FALSE /\ screen.ma = FALSE /\ screen.ml = 0
    <2> HIDE DEF Clean
    <2> QED
      BY <1>1, <1>2 DEF Resize, AllDirty
  <1>4. screen \in Screens
    BY InitExact DEF ScreenInv, ScreenTypeOK
  <1>5. ASSUME NEW l \in Layers, NEW p \in Pixels(screen)
        PROVE  At(screen, l, p) = 0
    <2>1. PlaceOf(screen, p) \in 0 .. Mar2(screen.w) * Mar2(screen.h) - 1
      BY <1>4, PixelPlace
    <2>2. screen.layer[l] = [i \in 0 .. Mar2(screen.w) * Mar2(screen.h) - 1 |-> 0]
      BY <1>3 DEF Clean
    <2>3. QED
      BY <2>1, <2>2 DEF At, PlaceOf
  <1>6. Pictures = [l \in Layers |-> [p \in Pixels(screen) |-> 0]]
    BY <1>5 DEF Pictures, Pixels
  <1>7. Plane!Pixels(<<screen.w, screen.h>>) = Pixels(screen)
    BY DEF Plane!Pixels, Pixels
  <1>8. Plane!Init
    BY <1>3, <1>6, <1>7 DEF Plane!Init, InitScreen, Plane!Layers, Layers
  <1>9. AddressInv
    BY <1>3, DrawsAssumption, WordAssumption DEF AddressInv, InitScreen
  <1>10. QED
    BY <1>8, <1>9

\* To a program the screen is two pictures without margins: what is drawn or looked at
\* is what the picture promises, until something is drawn where it should not be.
THEOREM IsAPicture == ScreenSpec => IsPicture
  <1> DEFINE Inv == ScreenInv /\ AddressInv
  <1>1. InitScreen => Inv /\ Plane!Init
    BY InitExact, PictureInit
  <1>2. Inv /\ [NextScreen]_screenVars => Inv'
    BY ScreenStep, AddressStep
  <1>3. Inv /\ [NextScreen]_screenVars => [strayed' = {} => Plane!Next]_(Plane!vars)
    BY PictureStep
  <1>4. QED
    BY <1>1, <1>2, <1>3, PTL DEF ScreenSpec, IsPicture

-----------------------------------------------------------------------------
(***************************************************************************)
(* The file devices.                                                       *)
(***************************************************************************)

\* What the variables range over.  An entry of a directory is its number.
Entries == Dirs \X Nat
Kinds == {"FREE", "REGULAR", "DIRECTORY"}

FileTypeOK ==
  /\ handle \in [Devices -> Handles \union {NULL, Invalid}]
  /\ mode \in [Devices -> Modes]
  /\ stat \in [Devices -> Types]
  /\ path \in [Devices -> Paths]
  /\ dirPos \in [Devices -> Nat] /\ dirLen \in [Devices -> Nat]
  /\ dirEntry \in [Devices -> Entries \union {<<>>}]
  /\ success \in Nat
  /\ host \in [Handles -> [kind : Kinds, of : Paths \union {NULL, Gone}, pos : Nat]]
  /\ size \in [Files -> Nat \union {NULL}]
  /\ reader \in Devices \union {NULL} /\ writer \in Devices \union {NULL}
  /\ left \in Nat /\ asked \in Nat
  /\ got \in [Devices -> Seq((Entries \union {<<>>}) \X Nat)]
  /\ fresh \in [Devices -> BOOLEAN]

\* What is open of the host is a file that is there or that has gone, or a
\* directory read up to one of its lines.
HostOK ==
  \A h \in Handles :
    /\ host[h].kind = "FREE" => host[h] = Free
    /\ host[h].kind = "REGULAR" =>
         host[h].of = Gone \/ (host[h].of \in Files /\ size[host[h].of] # NULL)
    /\ host[h].kind = "DIRECTORY" =>
         host[h].of \in Dirs /\ host[h].pos \in 0 .. Len(Listing[host[h].of])

\* One request at a time, of which no more is left than was asked for.
RequestOK == (reader = NULL \/ writer = NULL) /\ left <= asked

\* HandlesOwned without the count of the directory buffers, which follows.
Owned ==
  /\ \A d \in Devices :
       /\ handle[d] \in Handles => host[handle[d]].kind = stat[d]
       /\ handle[d] = Invalid => stat[d] = "INVALID"
  /\ \A d, e \in Devices : handle[d] = handle[e] /\ handle[d] \in Handles => d = e
  /\ \A h \in Handles : host[h] # Free => \E d \in Devices : handle[d] = h

IInv == FileTypeOK /\ HostOK /\ RequestOK /\ Owned

\* What a device that reads a directory has read of it: the lines before that of
\* the host, but for the part of one still in the buffer.
ReadSoFar(d) ==
  LET dir == host[handle[d]]
  IN  IF dirPos[d] < dirLen[d]
      THEN /\ dir.pos > 0 /\ dirEntry[d] = <<dir.of, dir.pos>>
           /\ dirLen[d] = Listing[dir.of][dir.pos] /\ dirLen[d] # TooLong
           /\ got[d] = Texts(dir.of)[dir.pos - 1] \o Part(dir.of, dir.pos, dirPos[d])
      ELSE got[d] = Texts(dir.of)[dir.pos]

\* So it is with each, if its buffer was empty at first.
Reading ==
  \A d \in Devices : handle[d] \in Handles /\ stat[d] = "DIRECTORY" /\ fresh[d] => ReadSoFar(d)

-----------------------------------------------------------------------------
(***************************************************************************)
(* Handles.                                                                *)
(***************************************************************************)

\* The values of a function at all but one of its arguments are fewer than the
\* arguments.
LEMMA FewerOthers ==
  ASSUME NEW f, NEW d \in Devices,
         NEW T, \A h \in T : \E e \in Devices \ {d} : f[e] = h
  PROVE  /\ Cardinality(Devices) \in Nat
         /\ IsFiniteSet(T) /\ Cardinality(T) \in Nat
         /\ Cardinality(T) < Cardinality(Devices)
  <1> DEFINE others == Devices \ {d}
             values == {f[e] : e \in others}
             g == [e \in others |-> f[e]]
  <1>1. /\ IsFiniteSet(others) /\ Cardinality(others) = Cardinality(Devices) - 1
        /\ Cardinality(Devices) \in Nat
    BY DevicesAssumption, FS_RemoveElement, FS_CardinalityType
  <1>2. g \in Surjection(others, values)
    BY DEF Surjection
  <1>3. IsFiniteSet(values) /\ Cardinality(values) <= Cardinality(others)
    <2> HIDE DEF others, values, g
    <2> QED
      BY <1>1, <1>2, FS_Surjection
  <1>4. T \in SUBSET values
    OBVIOUS
  <1>5. IsFiniteSet(T) /\ Cardinality(T) <= Cardinality(values)
    <2> HIDE DEF values
    <2> QED
      BY <1>3, <1>4, FS_Subset
  <1>6. Cardinality(T) \in Nat /\ Cardinality(values) \in Nat
    BY <1>3, <1>5, FS_CardinalityType
  <1> HIDE DEF others, values
  <1>7. QED
    BY <1>1, <1>3, <1>5, <1>6

\* When every handle in use is that of a device other than d, one is free, and
\* so is a buffer.
LEMMA OneIsFree ==
  ASSUME NEW d \in Devices, NEW f, NEW open,
         \A h \in Handles : open[h] # Free => \E e \in Devices \ {d} : f[e] = h
  PROVE  /\ FreeHandle(open) \in Handles /\ open[FreeHandle(open)] = Free
         /\ DirBufFree(open)
  <1> DEFINE Used == {h \in Handles : open[h] # Free}
             Read == {h \in Handles : open[h].kind = "DIRECTORY"}
  <1>1. \A h \in Used : \E e \in Devices \ {d} : f[e] = h
    OBVIOUS
  <1>2. \A h \in Read : \E e \in Devices \ {d} : f[e] = h
    BY DEF Free
  <1>3. /\ Cardinality(Devices) \in Nat
        /\ IsFiniteSet(Used) /\ Cardinality(Used) \in Nat
        /\ Cardinality(Used) < Cardinality(Devices)
    <2> HIDE DEF Used
    <2> QED
      BY <1>1, FewerOthers
  <1>4. Cardinality(Read) \in Nat /\ Cardinality(Read) < Cardinality(Devices)
    <2> HIDE DEF Read
    <2> QED
      BY <1>2, FewerOthers
  <1>5. Cardinality(Handles) = Cardinality(Devices) + 1
    <2> DEFINE n == Cardinality(Devices)
    <2>1. Cardinality(1 .. n + 1) = n + 1
      <3> HIDE DEF n
      <3>1. n \in Nat
        BY <1>3 DEF n
      <3>2. 1 \in Int /\ n + 1 \in Int /\ ~(1 > n + 1) /\ (n + 1) - 1 + 1 = n + 1
        BY <3>1
      <3>3. QED
        BY <3>2, FS_Interval
    <2>2. QED
      BY <2>1 DEF Handles
  <1>6. \E h \in Handles : open[h] = Free
    <2>1. SUFFICES ASSUME \A h \in Handles : open[h] # Free
                   PROVE  FALSE
      OBVIOUS
    <2>2. Handles = Used
      BY <2>1
    <2> HIDE DEF Used
    <2>3. QED
      BY <1>3, <1>5, <2>2
  <1>7. FreeHandle(open) \in Handles /\ open[FreeHandle(open)] = Free
    BY <1>6 DEF FreeHandle
  <1>8. Cardinality(Read) < NumDirBufs
    <2> HIDE DEF Read
    <2> QED
      BY <1>3, <1>4, NumDirBufsAssumption
  <1>9. QED
    BY <1>7, <1>8 DEF DirBufFree

\* Closing frees the handle of the device, and nothing else.
LEMMA ClosedExact ==
  ASSUME FileTypeOK, HostOK, Owned, NEW d \in Devices
  PROVE  /\ DOMAIN Closed(d) = Handles
         /\ Closed(d) = [h \in Handles |-> IF h = handle[d] THEN Free ELSE host[h]]
         /\ \A h \in Handles :
              Closed(d)[h] # Free => \E e \in Devices \ {d} : handle[e] = h
  <1>1. Closed(d) = [h \in Handles |-> IF h = handle[d] THEN Free ELSE host[h]]
    <2>1. CASE handle[d] \in Handles
      <3>1. host[handle[d]].kind = stat[d]
        BY <2>1 DEF Owned
      <3>2. QED
        BY <2>1, <3>1 DEF Closed, FileTypeOK
    <2>2. CASE handle[d] \notin Handles
      BY <2>2 DEF Closed, FileTypeOK
    <2>3. QED
      BY <2>1, <2>2
  <1>2. ASSUME NEW h \in Handles, Closed(d)[h] # Free
        PROVE  \E e \in Devices \ {d} : handle[e] = h
    <2>1. h # handle[d] /\ host[h] # Free
      BY <1>1, <1>2
    <2>2. QED
      BY <2>1 DEF Owned
  <1>3. QED
    BY <1>1, <1>2

\* So a handle, and a buffer, is free for whatever the device opens next.
LEMMA ClosedLeavesRoom ==
  ASSUME FileTypeOK, HostOK, Owned, NEW d \in Devices
  PROVE  /\ FreeHandle(Closed(d)) \in Handles /\ Closed(d)[FreeHandle(Closed(d))] = Free
         /\ DirBufFree(Closed(d))
  <1> DEFINE open == Closed(d)
  <1>1. \A h \in Handles : open[h] # Free => \E e \in Devices \ {d} : handle[e] = h
    BY ClosedExact
  <1> HIDE DEF open
  <1>2. FreeHandle(open) \in Handles /\ open[FreeHandle(open)] = Free /\ DirBufFree(open)
    BY <1>1, OneIsFree
  <1>3. QED
    BY <1>2 DEF open

\* A device that holds no handle leaves a buffer free for it.
LEMMA HandlesCounted ==
  ASSUME FileTypeOK, HostOK, Owned
  PROVE  HandlesOwned
  <1>1. ASSUME NEW d \in Devices, handle[d] \notin Handles
        PROVE  DirBufFree(host)
    <2>1. \A h \in Handles : host[h] # Free => \E e \in Devices \ {d} : handle[e] = h
      BY <1>1 DEF Owned
    <2>2. QED
      BY <2>1, OneIsFree
  <1>2. QED
    BY <1>1 DEF HandlesOwned, Owned

-----------------------------------------------------------------------------
(***************************************************************************)
(* Types, and what the host has open.                                      *)
(***************************************************************************)
HostEntry == [kind : Kinds, of : Paths \union {NULL, Gone}, pos : Nat]

\* The lengths that a request is clamped to are natural numbers.
LEMMA LengthsType == Lengths \subseteq Nat
  <1>1. ASSUME NEW length \in 0 .. MaxLength, NEW addr \in 0 .. MemSize - 1
        PROVE  Clamp(length, addr) \in Nat
    <2>1. length \in Nat /\ MemSize - addr \in Int /\ MemSize \in Nat /\ MemSize > 0
      BY LengthsAssumption
    <2>2. (MemSize - addr) % MemSize \in Nat
      BY <2>1
    <2>3. QED
      BY <2>1, <2>2 DEF Clamp
  <1>2. QED
    BY <1>1 DEF Lengths

\* The size of a directory's listing, and what is in it.
LEMMA ListingType ==
  ASSUME NEW dir \in Dirs
  PROVE  /\ Listing[dir] \in Seq((Nat \ {0}) \union {TooLong})
         /\ Len(Listing[dir]) \in Nat
  BY ListingAssumption

\* A file that is open has a size, unless it has gone.
LEMMA FileIsThere ==
  ASSUME FileTypeOK, HostOK, NEW h \in Handles, host[h].kind = "REGULAR", host[h].of # Gone
  PROVE  host[h].of \in Files /\ size[host[h].of] \in Nat
  BY DEF FileTypeOK, HostOK

\* A request is served a number of bytes.
LEMMA ServedType ==
  ASSUME NEW file, file.pos \in Nat, NEW limit, file.of # Gone => limit \in Nat, left \in Nat,
         NEW n \in Served(file, limit)
  PROVE  n \in Nat
  BY DEF Served, Least

\* A device that has a handle of the host.
LEMMA Holds ==
  ASSUME FileTypeOK, Owned, NEW d \in Devices, handle[d] # NULL, stat[d] # "INVALID"
  PROVE  handle[d] \in Handles /\ host[handle[d]].kind = stat[d]
  BY DEF FileTypeOK, Owned

\* The initial states have the types, and own nothing.
LEMMA IInvInit == Init => IInv
  <1> SUFFICES ASSUME Init
               PROVE  IInv
    OBVIOUS
  <1>1. Handles \subseteq Int /\ NULL \notin Handles /\ NULL \notin Devices
    BY HandlesAssumption, DevicesAssumption DEF Handles
  <1>2. Free \in HostEntry
    BY DEF Free, HostEntry, Kinds
  <1>3. /\ handle \in [Devices -> Handles \union {NULL, Invalid}]
        /\ mode \in [Devices -> Modes]
        /\ stat \in [Devices -> Types]
        /\ path \in [Devices -> Paths]
    BY DEF Init, Modes, Types, Paths
  <1>4. /\ dirPos \in [Devices -> Nat] /\ dirLen \in [Devices -> Nat]
        /\ dirEntry \in [Devices -> Entries \union {<<>>}]
        /\ fresh \in [Devices -> BOOLEAN]
        /\ success \in Nat /\ left \in Nat /\ asked \in Nat
        /\ reader \in Devices \union {NULL} /\ writer \in Devices \union {NULL}
    BY DEF Init
  <1>5. host \in [Handles -> HostEntry] /\ size \in [Files -> Nat \union {NULL}]
    BY <1>2 DEF Init
  <1>6. got \in [Devices -> Seq((Entries \union {<<>>}) \X Nat)]
    BY DEF Init
  <1>7. FileTypeOK
    BY <1>3, <1>4, <1>5, <1>6 DEF FileTypeOK, HostEntry
  <1>8. HostOK
    BY DEF Init, HostOK, Free
  <1>9. RequestOK
    BY DEF Init, RequestOK
  <1>10. Owned
    BY <1>1, HandlesAssumption DEF Init, Owned
  <1>11. QED
    BY <1>7, <1>8, <1>9, <1>10 DEF IInv

\* What closing leaves open has its type.
LEMMA ClosedType ==
  ASSUME FileTypeOK, HostOK, Owned, NEW d \in Devices
  PROVE  Closed(d) \in [Handles -> HostEntry]
  <1>1. Free \in HostEntry
    BY DEF Free, HostEntry, Kinds
  <1>2. host \in [Handles -> HostEntry]
    BY DEF FileTypeOK, HostEntry
  <1>3. QED
    BY <1>1, <1>2, ClosedExact

\* How opening ends: the device holds a handle that was free, of what it was
\* opened as, or none.
LEMMA Opened ==
  ASSUME FileTypeOK, HostOK, Owned, NEW d \in Devices, NEW m \in Modes, Open(d, m)
  PROVE  /\ size' \in [Files -> Nat \union {NULL}]
         /\ \A f \in Files : size[f] # NULL => size'[f] # NULL
         /\ \/ \E h \in Handles, entry \in HostEntry :
                 /\ Closed(d)[h] = Free
                 /\ handle' = [handle EXCEPT ![d] = h]
                 /\ host' = [Closed(d) EXCEPT ![h] = entry]
                 /\ stat' = [stat EXCEPT ![d] = entry.kind]
                 /\ \/ /\ entry.kind = "DIRECTORY"
                       /\ entry.of \in Dirs /\ entry.pos = 0
                    \/ /\ entry.kind = "REGULAR"
                       /\ entry.of \in Files /\ size'[entry.of] # NULL
            \/ \E t \in Types :
                 /\ \/ handle' = [handle EXCEPT ![d] = NULL]
                    \/ handle' = [handle EXCEPT ![d] = Invalid]
                 /\ handle'[d] = Invalid => t = "INVALID"
                 /\ stat' = [stat EXCEPT ![d] = t]
                 /\ host' = Closed(d)
  <1> DEFINE open == Closed(d)
             h == FreeHandle(open)
  <1>1. h \in Handles /\ open[h] = Free /\ DirBufFree(open)
    BY ClosedLeavesRoom
  <1>2. path[d] \in Paths /\ size \in [Files -> Nat \union {NULL}]
    BY DEF FileTypeOK
  <1>3. CASE TypeOf(path[d]) = "DIRECTORY" /\ OpenDir(d, open) /\ UNCHANGED size
             /\ stat' = [stat EXCEPT ![d] = "DIRECTORY"]
    <2> DEFINE entry == [kind |-> "DIRECTORY", of |-> path[d], pos |-> 0]
    <2>1. path[d] \in Dirs
      BY <1>3 DEF TypeOf
    <2>2. entry \in HostEntry
      BY <1>2 DEF HostEntry, Kinds
    <2>3. handle' = [handle EXCEPT ![d] = h] /\ host' = [open EXCEPT ![h] = entry]
      BY <1>1, <1>3 DEF OpenDir
    <2>4. stat' = [stat EXCEPT ![d] = entry.kind] /\ entry.kind = "DIRECTORY"
          /\ entry.of \in Dirs /\ entry.pos = 0
      BY <1>3, <2>1
    <2> HIDE DEF open, h, entry
    <2>5. QED
      BY <1>1, <1>2, <1>3, <2>2, <2>3, <2>4 DEF open
  <1>4. CASE path[d] \in Files /\ FOpen(d, open, m) /\ stat' = [stat EXCEPT ![d] = "REGULAR"]
    <2>1. CASE /\ handle' = [handle EXCEPT ![d] = NULL]
               /\ host' = open
               /\ UNCHANGED size
      BY <1>2, <1>4, <2>1, HandlesAssumption DEF Types, FileTypeOK
    <2>2. CASE /\ handle' = [handle EXCEPT ![d] = h]
               /\ size' = [size EXCEPT ![path[d]] = IF @ = NULL \/ m = "WRITE" THEN 0 ELSE @]
               /\ host' = [open EXCEPT ![h] =
                    [kind |-> "REGULAR", of |-> path[d],
                     pos |-> IF m = "APPEND" THEN size'[path[d]] ELSE 0]]
      <3> DEFINE entry == [kind |-> "REGULAR", of |-> path[d],
                           pos |-> IF m = "APPEND" THEN size'[path[d]] ELSE 0]
      <3>1. /\ size' \in [Files -> Nat \union {NULL}] /\ size'[path[d]] \in Nat
            /\ \A f \in Files : size[f] # NULL => size'[f] # NULL
        BY <1>2, <1>4, <2>2, PathsAssumption
      <3>2. entry \in HostEntry
        BY <1>2, <3>1 DEF HostEntry, Kinds
      <3>3. stat' = [stat EXCEPT ![d] = entry.kind] /\ entry.kind = "REGULAR"
            /\ entry.of \in Files /\ size'[entry.of] # NULL
            /\ host' = [open EXCEPT ![h] = entry]
        BY <1>4, <2>2, <3>1, PathsAssumption
      <3> HIDE DEF open, h, entry
      <3>4. QED
        BY <1>1, <2>2, <3>1, <3>2, <3>3 DEF open
    <2>3. QED
      BY <1>4, <2>1, <2>2 DEF FOpen
  <1>5. CASE handle' = [handle EXCEPT ![d] = Invalid] /\ host' = open
             /\ stat' = [stat EXCEPT ![d] = "INVALID"] /\ UNCHANGED size
    BY <1>2, <1>5 DEF Types
  <1>6. QED
    BY <1>3, <1>4, <1>5 DEF Open, OpenedAs

-----------------------------------------------------------------------------
(***************************************************************************)
(* Opening and closing keep what is open owned.                            *)
(***************************************************************************)

\* What is said of the device and of the host together.
Devs ==
  /\ handle \in [Devices -> Handles \union {NULL, Invalid}]
  /\ stat \in [Devices -> Types]
  /\ host \in [Handles -> HostEntry]
  /\ size \in [Files -> Nat \union {NULL}]
  /\ HostOK /\ Owned

\* A device that is left without a handle of the host owns none.
LEMMA LeftWithout ==
  ASSUME FileTypeOK, HostOK, Owned, NEW d \in Devices, NEW t \in Types,
         handle' = [handle EXCEPT ![d] = NULL] \/ handle' = [handle EXCEPT ![d] = Invalid],
         handle'[d] = Invalid => t = "INVALID",
         stat' = [stat EXCEPT ![d] = t],
         host' = Closed(d),
         size' \in [Files -> Nat \union {NULL}],
         \A f \in Files : size[f] # NULL => size'[f] # NULL
  PROVE  Devs'
  <1>1. /\ handle \in [Devices -> Handles \union {NULL, Invalid}] /\ stat \in [Devices -> Types]
        /\ NULL \notin Handles /\ Invalid \notin Handles /\ NULL # Invalid
    BY HandlesAssumption DEF FileTypeOK
  <1>2. host' \in [Handles -> HostEntry]
    BY ClosedType
  <1>3. \A h \in Handles : host'[h] = IF h = handle[d] THEN Free ELSE host[h]
    BY ClosedExact
  <1>4. HostOK'
    BY <1>3 DEF HostOK, Free
  <1>5. handle'[d] \notin Handles
    BY <1>1
  <1>6. \A e \in Devices : e # d => handle'[e] = handle[e] /\ stat'[e] = stat[e]
    BY <1>1
  <1>7. ASSUME NEW e \in Devices
        PROVE  /\ handle'[e] \in Handles => host'[handle'[e]].kind = stat'[e]
               /\ handle'[e] = Invalid => stat'[e] = "INVALID"
    <2>1. CASE e = d
      BY <1>1, <1>5, <2>1
    <2>2. CASE e # d
      <3>1. handle[e] \in Handles => handle[e] # handle[d]
        BY <2>2 DEF Owned
      <3>2. QED
        BY <1>3, <1>6, <2>2, <3>1 DEF Owned
    <2>3. QED
      BY <2>1, <2>2
  <1>8. \A e, g \in Devices : handle'[e] = handle'[g] /\ handle'[e] \in Handles => e = g
    BY <1>5, <1>6 DEF Owned
  <1>9. ASSUME NEW h \in Handles, host'[h] # Free
        PROVE  \E e \in Devices : handle'[e] = h
    <2>1. PICK e \in Devices \ {d} : handle[e] = h
      BY <1>9, ClosedExact
    <2>2. QED
      BY <1>6, <2>1
  <1>10. Owned'
    BY <1>7, <1>8, <1>9 DEF Owned
  <1>11. QED
    BY <1>1, <1>2, <1>4, <1>10 DEF Devs

\* A device that was given a handle that was free owns it.
LEMMA LeftWith ==
  ASSUME FileTypeOK, HostOK, Owned, NEW d \in Devices, NEW h \in Handles, NEW entry \in HostEntry,
         Closed(d)[h] = Free,
         handle' = [handle EXCEPT ![d] = h],
         host' = [Closed(d) EXCEPT ![h] = entry],
         stat' = [stat EXCEPT ![d] = entry.kind],
         \/ entry.kind = "DIRECTORY" /\ entry.of \in Dirs /\ entry.pos = 0
         \/ entry.kind = "REGULAR" /\ entry.of \in Files /\ size'[entry.of] # NULL,
         size' \in [Files -> Nat \union {NULL}],
         \A f \in Files : size[f] # NULL => size'[f] # NULL
  PROVE  Devs'
  <1>1. /\ handle \in [Devices -> Handles \union {NULL, Invalid}] /\ stat \in [Devices -> Types]
        /\ NULL \notin Handles /\ Invalid \notin Handles /\ entry.kind \in Types
    BY HandlesAssumption DEF FileTypeOK, Types
  <1>2. host' \in [Handles -> HostEntry]
    BY ClosedType
  <1>3. \A k \in Handles :
          host'[k] = IF k = h THEN entry ELSE IF k = handle[d] THEN Free ELSE host[k]
    BY ClosedExact
  <1>4. HostOK'
    <2>1. ASSUME NEW k \in Handles
          PROVE  /\ host'[k].kind = "FREE" => host'[k] = Free
                 /\ host'[k].kind = "REGULAR" =>
                      \/ host'[k].of = Gone
                      \/ host'[k].of \in Files /\ size'[host'[k].of] # NULL
                 /\ host'[k].kind = "DIRECTORY" =>
                      host'[k].of \in Dirs /\ host'[k].pos \in 0 .. Len(Listing[host'[k].of])
      <3>1. CASE k = h
        BY <1>3, <3>1, ListingType
      <3>2. CASE k # h
        BY <1>3, <3>2 DEF HostOK, Free
      <3>3. QED
        BY <3>1, <3>2
    <2>2. QED
      BY <2>1 DEF HostOK
  <1>5. \A e \in Devices : e # d => handle'[e] = handle[e] /\ stat'[e] = stat[e]
    BY <1>1
  <1>6. ASSUME NEW e \in Devices, e # d, handle[e] \in Handles
        PROVE  handle[e] # h /\ handle[e] # handle[d]
    <2>1. handle[e] # handle[d]
      BY <1>6 DEF Owned
    <2>2. Closed(d)[handle[e]].kind = stat[e] /\ stat[e] \in Types
      BY <1>1, <1>6, <2>1, ClosedExact DEF Owned
    <2>3. QED
      BY <2>1, <2>2 DEF Free, Types
  <1>7. ASSUME NEW e \in Devices
        PROVE  /\ handle'[e] \in Handles => host'[handle'[e]].kind = stat'[e]
               /\ handle'[e] = Invalid => stat'[e] = "INVALID"
    <2>1. CASE e = d
      BY <1>1, <1>3, <2>1
    <2>2. CASE e # d
      BY <1>3, <1>5, <1>6, <2>2 DEF Owned
    <2>3. QED
      BY <2>1, <2>2
  <1>8. ASSUME NEW e \in Devices, NEW g \in Devices,
               handle'[e] = handle'[g], handle'[e] \in Handles
        PROVE  e = g
    <2>1. handle'[d] = h
      BY <1>1
    <2>2. QED
      BY <1>5, <1>6, <1>8, <2>1 DEF Owned
  <1>9. ASSUME NEW k \in Handles, host'[k] # Free
        PROVE  \E e \in Devices : handle'[e] = k
    <2>1. CASE k = h
      BY <1>1, <2>1
    <2>2. CASE k # h
      <3>1. Closed(d)[k] # Free
        BY <1>3, <1>9, <2>2, ClosedExact
      <3>2. PICK e \in Devices \ {d} : handle[e] = k
        BY <3>1, ClosedExact
      <3>3. QED
        BY <1>5, <3>2
    <2>3. QED
      BY <2>1, <2>2
  <1>10. Owned'
    BY <1>7, <1>8, <1>9 DEF Owned
  <1>11. QED
    BY <1>1, <1>2, <1>4, <1>10 DEF Devs

\* So opening keeps what is open owned.
LEMMA OpenKeeps ==
  ASSUME FileTypeOK, HostOK, Owned, NEW d \in Devices, NEW m \in Modes, Open(d, m)
  PROVE  Devs'
  <1>1. /\ size' \in [Files -> Nat \union {NULL}]
        /\ \A f \in Files : size[f] # NULL => size'[f] # NULL
    BY Opened
  <1>2. CASE \E h \in Handles, entry \in HostEntry :
               /\ Closed(d)[h] = Free
               /\ handle' = [handle EXCEPT ![d] = h]
               /\ host' = [Closed(d) EXCEPT ![h] = entry]
               /\ stat' = [stat EXCEPT ![d] = entry.kind]
               /\ \/ /\ entry.kind = "DIRECTORY"
                     /\ entry.of \in Dirs /\ entry.pos = 0
                  \/ /\ entry.kind = "REGULAR"
                     /\ entry.of \in Files /\ size'[entry.of] # NULL
    BY <1>1, <1>2, LeftWith
  <1>3. CASE \E t \in Types :
               /\ \/ handle' = [handle EXCEPT ![d] = NULL]
                  \/ handle' = [handle EXCEPT ![d] = Invalid]
               /\ handle'[d] = Invalid => t = "INVALID"
               /\ stat' = [stat EXCEPT ![d] = t]
               /\ host' = Closed(d)
    BY <1>1, <1>3, LeftWithout
  <1>4. QED
    BY <1>2, <1>3, Opened

\* And so does closing.
LEMMA CloseKeeps ==
  ASSUME FileTypeOK, HostOK, Owned, NEW d \in Devices, Close(d), UNCHANGED <<stat, size>>
  PROVE  Devs'
  <1>1. /\ handle' = [handle EXCEPT ![d] = NULL] /\ host' = Closed(d)
        /\ stat' = [stat EXCEPT ![d] = stat[d]] /\ stat[d] \in Types
        /\ size' \in [Files -> Nat \union {NULL}]
    BY DEF Close, FileTypeOK
  <1>2. handle'[d] # Invalid
    BY <1>1, HandlesAssumption DEF FileTypeOK
  <1>3. QED
    BY <1>1, <1>2, LeftWithout

\* A step that leaves the devices alone, and of what is open changes neither
\* what it is nor whether it is.
LEMMA DevsSame ==
  ASSUME FileTypeOK, HostOK, Owned, UNCHANGED <<handle, stat>>,
         host' \in [Handles -> HostEntry], size' \in [Files -> Nat \union {NULL}], HostOK',
         \A h \in Handles : host'[h].kind = host[h].kind
  PROVE  Devs'
  <1>1. \A h \in Handles : host'[h] # Free => host[h] # Free
    BY DEF HostOK, Free
  <1>2. Owned'
    BY <1>1 DEF Owned
  <1>3. QED
    BY <1>2 DEF Devs, FileTypeOK

-----------------------------------------------------------------------------
(***************************************************************************)
(* Every step.                                                             *)
(***************************************************************************)

\* The types of the rest, and the request that is going on.
Others ==
  /\ mode \in [Devices -> Modes]
  /\ path \in [Devices -> Paths]
  /\ dirPos \in [Devices -> Nat] /\ dirLen \in [Devices -> Nat]
  /\ dirEntry \in [Devices -> Entries \union {<<>>}]
  /\ success \in Nat
  /\ reader \in Devices \union {NULL} /\ writer \in Devices \union {NULL}
  /\ left \in Nat /\ asked \in Nat
  /\ got \in [Devices -> Seq((Entries \union {<<>>}) \X Nat)]
  /\ fresh \in [Devices -> BOOLEAN]
  /\ RequestOK

\* The invariant has these two parts.
LEMMA FileParts == IInv <=> Devs /\ Others
  BY DEF IInv, Devs, Others, FileTypeOK, HostEntry

\* So it does in the next state.
LEMMA FilePartsNext == IInv' <=> Devs' /\ Others'
  BY DEF IInv, Devs, Others, FileTypeOK, HostEntry

\* A request ends.
LEMMA EndKeeps ==
  ASSUME IInv, NEW n \in Nat, End(n),
         UNCHANGED <<mode, path, got, fresh>>,
         dirPos' \in [Devices -> Nat], dirLen' \in [Devices -> Nat],
         dirEntry' \in [Devices -> Entries \union {<<>>}]
  PROVE  Others'
  BY FileParts DEF Others, End, RequestOK

\* A request begins, with its handle closed and opened as its mode asks for.
LEMMA BeginKeeps ==
  ASSUME IInv, NEW d \in Devices, NEW m \in Modes, Begin(d, m),
         \/ reader' = d /\ UNCHANGED writer
         \/ writer' = d /\ UNCHANGED reader
  PROVE  IInv'
  <1>1. Devs /\ Others /\ FileTypeOK /\ HostOK /\ Owned
    BY FileParts DEF IInv
  <1>2. Devs'
    <2>1. CASE Open(d, m)
      BY <1>1, <2>1, OpenKeeps
    <2>2. CASE Close(d) /\ UNCHANGED <<stat, size>>
      BY <1>1, <2>2, CloseKeeps
    <2>3. CASE UNCHANGED <<handle, stat, host, size>>
      BY <1>1, <2>3 DEF Devs, HostOK, Owned
    <2>4. QED
      BY <2>1, <2>2, <2>3 DEF Begin, SetMode, device, disk
  <1>3. /\ mode' \in [Devices -> Modes] /\ success' \in Nat
        /\ got' \in [Devices -> Seq((Entries \union {<<>>}) \X Nat)]
        /\ fresh' \in [Devices -> BOOLEAN]
    <2>1. CASE Open(d, m) /\ success' \in {0, success}
      <3>1. (TypeOf(path[d]) = "DIRECTORY" => dirPos[d] >= dirLen[d]) \in BOOLEAN
        BY Zenon
      <3>2. mode' \in [Devices -> Modes] /\ fresh' \in [Devices -> BOOLEAN]
        BY <1>1, <2>1, <3>1 DEF Open, Others
      <3>3. got' \in [Devices -> Seq((Entries \union {<<>>}) \X Nat)]
        BY <1>1, <2>1 DEF Open, Others
      <3>4. QED
        BY <1>1, <2>1, <3>2, <3>3 DEF Others
    <2>2. CASE Close(d) /\ UNCHANGED mode /\ success' \in {0, success}
      BY <1>1, <2>2 DEF Close, Others
    <2>3. CASE UNCHANGED <<mode, success, got, fresh>>
      BY <1>1, <2>3 DEF Others
    <2>4. QED
      BY <2>1, <2>2, <2>3 DEF Begin, SetMode, device, opening
  <1>4. left' \in Nat /\ asked' = left'
    BY LengthsType DEF Begin
  <1>5. RequestOK' /\ reader' \in Devices \union {NULL} /\ writer' \in Devices \union {NULL}
    BY <1>1, <1>4 DEF Begin, Idle, RequestOK, Others
  <1>6. Others'
    BY <1>1, <1>3, <1>4, <1>5 DEF Begin, buffer, Others
  <1>7. QED
    BY <1>2, <1>6, FilePartsNext

\* A file that is read or written goes on, in the handle of its device.
LEMMA AdvanceKeeps ==
  ASSUME IInv, NEW d \in Devices, handle[d] # NULL, stat[d] = "REGULAR",
         NEW n \in Nat, Advance(d, n), UNCHANGED <<handle, stat>>,
         size' \in [Files -> Nat \union {NULL}],
         \A f \in Files : size[f] # NULL => size'[f] # NULL
  PROVE  Devs'
  <1>1. FileTypeOK /\ HostOK /\ Owned
    BY DEF IInv
  <1>2. handle[d] \in Handles /\ host[handle[d]].kind = "REGULAR"
    BY <1>1, Holds
  <1>3. host \in [Handles -> HostEntry]
    BY <1>1 DEF FileTypeOK, HostEntry
  <1>4. host' \in [Handles -> HostEntry]
    BY <1>2, <1>3 DEF Advance, HostEntry
  <1>5. \A h \in Handles : /\ host'[h].kind = host[h].kind /\ host'[h].of = host[h].of
                           /\ host[h].kind # "REGULAR" => host'[h] = host[h]
    BY <1>2, <1>3 DEF Advance, HostEntry
  <1>6. HostOK'
    BY <1>1, <1>5 DEF HostOK, Free
  <1>7. QED
    BY <1>1, <1>4, <1>5, <1>6, DevsSame

\* A deleted file that is open is gone from its path.
LEMMA DeleteKeeps ==
  ASSUME IInv, NEW d \in Devices, Delete(d)
  PROVE  IInv'
  <1>1. Devs /\ Others /\ FileTypeOK /\ HostOK /\ Owned
    BY FileParts DEF IInv
  <1>2. /\ UNCHANGED <<handle, stat, mode, dirPos, dirLen, dirEntry, path, reader, writer, left,
                      got, fresh, asked>>
        /\ success' \in Nat
    <2>1. UNCHANGED <<device, buffer, path, request, history>> /\ success' \in {0, 1}
      BY Zenon DEF Delete
    <2>2. QED
      BY <2>1 DEF device, buffer, request, history, opening
  <1>3. Others'
    BY <1>1, <1>2 DEF Others, RequestOK
  <1>4. CASE UNCHANGED disk
    <2>1. HostOK' /\ Owned'
      BY <1>1, <1>2, <1>4 DEF disk, HostOK, Owned
    <2>2. Devs'
      BY <1>1, <1>2, <1>4, <2>1 DEF disk, Devs
    <2>3. QED
      BY <1>3, <2>2, FilePartsNext
  <1>5. CASE /\ path[d] \in Files
             /\ size' = [size EXCEPT ![path[d]] = NULL]
             /\ host' = [h \in Handles |->
                           IF host[h].of = path[d] THEN [host[h] EXCEPT !.of = Gone, !.pos = 0]
                           ELSE host[h]]
    <2>1. host \in [Handles -> HostEntry] /\ size \in [Files -> Nat \union {NULL}]
      BY <1>1 DEF Devs
    <2>2. host' \in [Handles -> HostEntry] /\ size' \in [Files -> Nat \union {NULL}]
      BY <1>5, <2>1 DEF HostEntry
    <2>3. \A h \in Handles : host'[h].kind = host[h].kind
      BY <1>5, <2>1 DEF HostEntry
    <2>4. HostOK'
      <3>1. ASSUME NEW h \in Handles
            PROVE  /\ host'[h].kind = "FREE" => host'[h] = Free
                   /\ host'[h].kind = "REGULAR" =>
                        \/ host'[h].of = Gone
                        \/ host'[h].of \in Files /\ size'[host'[h].of] # NULL
                   /\ host'[h].kind = "DIRECTORY" =>
                        host'[h].of \in Dirs /\ host'[h].pos \in 0 .. Len(Listing[host'[h].of])
        <4>1. CASE host[h].of = path[d]
          <5>1. host[h].of \notin Dirs /\ host[h].of # NULL
            BY <1>5, <4>1, PathsAssumption DEF Paths
          <5>2. host[h].kind = "REGULAR"
            <6>1. host[h].kind \in Kinds
              BY <2>1 DEF HostEntry
            <6>2. host[h].kind # "FREE"
              BY <1>1, <5>1 DEF HostOK, Free
            <6>3. host[h].kind # "DIRECTORY"
              BY <1>1, <5>1 DEF HostOK
            <6>4. QED
              BY <6>1, <6>2, <6>3 DEF Kinds
          <5>3. host'[h].of = Gone
            BY <1>5, <2>1, <4>1 DEF HostEntry
          <5>4. QED
            BY <2>3, <5>2, <5>3
        <4>2. CASE host[h].of # path[d]
          BY <1>1, <1>5, <2>1, <4>2 DEF HostOK
        <4>3. QED
          BY <4>1, <4>2
      <3>2. QED
        BY <3>1 DEF HostOK
    <2>5. Devs'
      BY <1>1, <1>2, <2>2, <2>3, <2>4, DevsSame
    <2>6. QED
      BY <1>3, <2>5, FilePartsNext
  <1>6. QED
    BY <1>4, <1>5 DEF Delete

\* A line is read of a directory that is open, or passed over.
LEMMA RefillKeeps ==
  ASSUME IInv, NEW d \in Devices, Refill(d)
  PROVE  IInv'
  <1> DEFINE dir == host[handle[d]]
  <1>1. Devs /\ Others /\ FileTypeOK /\ HostOK /\ Owned
    BY FileParts DEF IInv
  <1>2. /\ handle[d] \in Handles /\ dir.kind = "DIRECTORY"
        /\ dir.of \in Dirs /\ dir.pos \in Nat /\ dir.pos < Len(Listing[dir.of])
    <2>1. handle[d] \in Handles /\ dir.kind = "DIRECTORY"
      BY <1>1, Holds DEF Refill, ReadsDir
    <2>2. QED
      BY <1>1, <2>1 DEF Refill, HostOK, FileTypeOK
  <1>3. host \in [Handles -> HostEntry] /\ host' = [host EXCEPT ![handle[d]].pos = @ + 1]
        /\ UNCHANGED <<handle, stat, size>>
    BY <1>1 DEF Devs, Refill, device
  <1>4. host' \in [Handles -> HostEntry]
    BY <1>2, <1>3 DEF HostEntry
  <1>5. \A h \in Handles :
          /\ host'[h].kind = host[h].kind /\ host'[h].of = host[h].of
          /\ h # handle[d] => host'[h] = host[h]
          /\ h = handle[d] => host'[h].pos = dir.pos + 1
    BY <1>2, <1>3 DEF HostEntry
  <1>6. HostOK'
    <2>1. ASSUME NEW h \in Handles
          PROVE  /\ host'[h].kind = "FREE" => host'[h] = Free
                 /\ host'[h].kind = "REGULAR" =>
                      \/ host'[h].of = Gone
                      \/ host'[h].of \in Files /\ size'[host'[h].of] # NULL
                 /\ host'[h].kind = "DIRECTORY" =>
                      host'[h].of \in Dirs /\ host'[h].pos \in 0 .. Len(Listing[host'[h].of])
      <3>1. CASE h = handle[d]
        <4>1. Len(Listing[dir.of]) \in Nat
          BY <1>2, ListingType
        <4>2. host'[h].pos \in 0 .. Len(Listing[dir.of])
          BY <1>2, <1>5, <3>1, <4>1
        <4>3. QED
          BY <1>2, <1>5, <3>1, <4>2
      <3>2. CASE h # handle[d]
        BY <1>1, <1>3, <1>5, <3>2 DEF HostOK
      <3>3. QED
        BY <3>1, <3>2
    <2>2. QED
      BY <2>1 DEF HostOK
  <1>7. Devs'
    BY <1>1, <1>3, <1>4, <1>5, <1>6, DevsSame DEF Devs
  <1>8. Others'
    <2> DEFINE line == Listing[dir.of][dir.pos + 1]
    <2>1. dirPos' \in [Devices -> Nat]
      BY <1>1 DEF Refill, Others
    <2>2. CASE /\ line # TooLong
               /\ dirLen' = [dirLen EXCEPT ![d] = line]
               /\ dirEntry' = [dirEntry EXCEPT ![d] = <<dir.of, dir.pos + 1>>]
               /\ UNCHANGED <<success, request, asked>>
      <3>1. line \in Nat
        <4> DEFINE listing == Listing[dir.of]
        <4>1. listing \in Seq((Nat \ {0}) \union {TooLong}) /\ dir.pos + 1 \in 1 .. Len(listing)
          BY <1>2, ListingType
        <4>2. listing[dir.pos + 1] \in (Nat \ {0}) \union {TooLong}
          <5> HIDE DEF listing
          <5> QED
            BY <4>1, ElementOfSeq
        <4>3. QED
          BY <2>2, <4>2
      <3>2. dirLen' \in [Devices -> Nat]
        BY <1>1, <2>2, <3>1 DEF Others
      <3>3. dirEntry' \in [Devices -> Entries \union {<<>>}]
        <4>1. <<dir.of, dir.pos + 1>> \in Entries
          BY <1>2 DEF Entries
        <4>2. dirEntry \in [Devices -> Entries \union {<<>>}]
          BY <1>1 DEF Others
        <4>3. QED
          BY <2>2, <4>1, <4>2
      <3>4. UNCHANGED <<mode, path, got, fresh, success, reader, writer, left, asked>>
        BY <2>2 DEF Refill, request, device, opening
      <3>5. QED
        BY <1>1, <2>1, <3>2, <3>3, <3>4 DEF Others, RequestOK
    <2>3. CASE /\ dirLen' = [dirLen EXCEPT ![d] = 0]
               /\ End(asked - left)
               /\ UNCHANGED dirEntry
      <3>1. asked - left \in Nat
        BY <1>1 DEF Others, RequestOK
      <3>2. dirLen' \in [Devices -> Nat] /\ dirEntry' \in [Devices -> Entries \union {<<>>}]
        BY <1>1, <2>3 DEF Others
      <3>3. UNCHANGED <<mode, path, got, fresh>>
        BY DEF Refill, device, opening
      <3>4. QED
        BY <2>1, <2>3, <3>1, <3>2, <3>3, EndKeeps
    <2>4. QED
      BY <2>2, <2>3 DEF Refill
  <1>9. QED
    BY <1>7, <1>8, FilePartsNext

\* A part of a line is taken from the buffer.
LEMMA TakeKeeps ==
  ASSUME IInv, NEW d \in Devices, Take(d)
  PROVE  IInv'
  <1> DEFINE n == Least(left, dirLen[d] - dirPos[d])
             Read == (Entries \union {<<>>}) \X Nat
             taken == [k \in 1 .. n |-> <<dirEntry[d], dirPos[d] + k>>]
  <1>1. Devs /\ Others /\ FileTypeOK /\ HostOK /\ Owned
    BY FileParts DEF IInv
  <1>2. n \in Nat /\ n <= left
    BY <1>1 DEF Take, Others, Least
  <1>3. UNCHANGED <<handle, stat, host, size, mode, path, dirLen, dirEntry, success, reader,
                    writer, fresh, asked>>
    BY DEF Take, device, disk
  <1>4. dirPos' \in [Devices -> Nat] /\ left' \in Nat /\ left' <= left
    <2>1. /\ dirPos' = [dirPos EXCEPT ![d] = @ + n] /\ left' = left - n
          /\ dirPos \in [Devices -> Nat] /\ left \in Nat
      BY <1>1 DEF Take, Others
    <2> HIDE DEF n
    <2>2. QED
      BY <1>2, <2>1
  <1>5. got' \in [Devices -> Seq(Read)]
    <2>1. taken \in [1 .. n -> Read]
      <3>1. dirEntry[d] \in Entries \union {<<>>} /\ dirPos[d] \in Nat
        BY <1>1 DEF Others
      <3> HIDE DEF n
      <3>2. QED
        BY <1>2, <3>1
    <2>2. taken \in Seq(Read)
      <3> HIDE DEF n, taken
      <3> QED
        BY <1>2, <2>1, SeqDef
    <2>3. got[d] \in Seq(Read) /\ got \in [Devices -> Seq(Read)]
      BY <1>1 DEF Others
    <2>4. got[d] \o taken \in Seq(Read)
      <3> HIDE DEF taken, Read
      <3> QED
        BY <2>2, <2>3, ConcatProperties
    <2>5. got' = [got EXCEPT ![d] = got[d] \o taken]
      BY DEF Take
    <2> HIDE DEF taken, Read
    <2>6. QED
      BY <2>3, <2>4, <2>5
  <1>6. Devs'
    BY <1>1, <1>3 DEF Devs, HostOK, Owned
  <1>7. Others'
    <2> HIDE DEF n
    <2> QED
      BY <1>1, <1>3, <1>4, <1>5 DEF Others, RequestOK
  <1>8. QED
    BY <1>6, <1>7, FilePartsNext

\* A step of a device keeps the invariant.
LEMMA DeviceStep ==
  ASSUME IInv, NEW d \in Devices,
         \/ Rename(d) \/ Name(d) \/ Stat(d) \/ Delete(d)
         \/ BeginRead(d) \/ BeginWrite(d)
         \/ Nothing(d) \/ ReadFile(d) \/ WriteFile(d)
         \/ Refill(d) \/ Take(d) \/ EndOfListing(d) \/ EndReadDir(d)
  PROVE  IInv'
  <1>1. Devs /\ Others /\ FileTypeOK /\ HostOK /\ Owned
    BY FileParts DEF IInv
  <1>2. /\ dirPos \in [Devices -> Nat] /\ dirLen \in [Devices -> Nat]
        /\ dirEntry \in [Devices -> Entries \union {<<>>}]
        /\ asked - left \in Nat
    BY <1>1 DEF Others, RequestOK
  <1>3. ASSUME UNCHANGED <<handle, stat, host, size>>
        PROVE  Devs'
    BY <1>1, <1>3 DEF Devs, HostOK, Owned
  <1> USE DEF device, buffer, disk, request, opening, history
  <1>4. CASE Rename(d)
    <2>1. path' \in [Devices -> Paths]
      BY <1>1, <1>4 DEF Rename, Others
    <2>2. Others'
      BY <1>1, <1>4, <2>1 DEF Rename, Others, RequestOK
    <2>3. QED
      BY <1>3, <1>4, <2>2, FilePartsNext DEF Rename
  <1>5. CASE Name(d)
    <2>1. /\ got' \in [Devices -> Seq((Entries \union {<<>>}) \X Nat)]
          /\ fresh' \in [Devices -> BOOLEAN]
      BY <1>1, <1>5 DEF Name, Close, Others
    <2>2. Others'
      BY <1>1, <1>5, <2>1 DEF Name, Others, RequestOK
    <2>3. Devs'
      BY <1>1, <1>5, CloseKeeps DEF Name
    <2>4. QED
      BY <2>2, <2>3, FilePartsNext
  <1>6. CASE Stat(d)
    <2>1. success' \in Nat
      BY <1>6, LengthsType DEF Stat
    <2>2. Others'
      BY <1>1, <1>6, <2>1 DEF Stat, Others, RequestOK
    <2>3. QED
      BY <1>3, <1>6, <2>2, FilePartsNext DEF Stat
  <1>7. CASE Delete(d)
    BY <1>7, DeleteKeeps
  <1>8. CASE BeginRead(d) \/ BeginWrite(d)
    <2>1. PICK m \in Modes : Begin(d, m)
      BY <1>8 DEF BeginRead, BeginWrite, Modes
    <2>2. \/ reader' = d /\ UNCHANGED writer
          \/ writer' = d /\ UNCHANGED reader
      BY <1>8 DEF BeginRead, BeginWrite
    <2>3. QED
      BY <2>1, <2>2, BeginKeeps
  <1>9. CASE Nothing(d)
    <2>1. Others'
      BY <1>2, <1>9, EndKeeps DEF Nothing
    <2>2. QED
      BY <1>3, <1>9, <2>1, FilePartsNext DEF Nothing
  <1>10. CASE ReadFile(d)
    <2> DEFINE file == host[handle[d]]
    <2>1. handle[d] # NULL /\ stat[d] = "REGULAR" /\ UNCHANGED <<handle, stat, mode, size>>
      BY <1>10 DEF ReadFile
    <2>2. handle[d] \in Handles /\ file.kind = "REGULAR"
      BY <1>1, <2>1, Holds
    <2>3. file.pos \in Nat /\ left \in Nat
      BY <1>1, <2>2 DEF FileTypeOK
    <2>4. file.of # Gone => size[file.of] \in Nat
      BY <1>1, <2>2, FileIsThere
    <2>5. PICK n \in Served(file, size[file.of]) : Advance(d, n) /\ End(n)
      BY <1>10 DEF ReadFile
    <2>6. n \in Nat
      BY <2>3, <2>4, ServedType
    <2>7. Devs'
      BY <1>1, <2>1, <2>5, <2>6, AdvanceKeeps DEF FileTypeOK
    <2>8. Others'
      BY <1>2, <1>10, <2>5, <2>6, EndKeeps DEF ReadFile
    <2>9. QED
      BY <2>7, <2>8, FilePartsNext
  <1>11. CASE WriteFile(d)
    <2> DEFINE file == host[handle[d]]
    <2>1. handle[d] # NULL /\ stat[d] = "REGULAR" /\ UNCHANGED <<handle, stat, mode>>
      BY <1>11 DEF WriteFile
    <2>2. handle[d] \in Handles /\ file.kind = "REGULAR"
      BY <1>1, <2>1, Holds
    <2>3. file.pos \in Nat /\ left \in Nat /\ size \in [Files -> Nat \union {NULL}]
      BY <1>1, <2>2 DEF FileTypeOK
    <2>4. file.of # Gone => file.of \in Files /\ size[file.of] \in Nat
      BY <1>1, <2>2, FileIsThere
    <2>5. PICK n \in Served(file, MaxSize) :
            /\ size' = IF file.of # Gone /\ file.pos + n > size[file.of]
                       THEN [size EXCEPT ![file.of] = file.pos + n] ELSE size
            /\ Advance(d, n)
            /\ End(n)
      BY <1>11 DEF WriteFile
    <2>6. n \in Nat
      BY <2>3, ServedType, LengthsAssumption
    <2>7. /\ size' \in [Files -> Nat \union {NULL}]
          /\ \A f \in Files : size[f] # NULL => size'[f] # NULL
      <3> HIDE DEF file
      <3>1. file.pos + n \in Nat
        BY <2>3, <2>6
      <3>2. QED
        BY <2>3, <2>4, <2>5, <3>1, PathsAssumption
    <2>8. Devs'
      BY <2>1, <2>5, <2>6, <2>7, AdvanceKeeps
    <2>9. Others'
      BY <1>2, <1>11, <2>5, <2>6, EndKeeps DEF WriteFile
    <2>10. QED
      BY <2>8, <2>9, FilePartsNext
  <1>12. CASE Refill(d)
    BY <1>12, RefillKeeps
  <1>13. CASE Take(d)
    BY <1>13, TakeKeeps
  <1>14. CASE EndOfListing(d)
    <2>1. dirPos' \in [Devices -> Nat] /\ dirLen' \in [Devices -> Nat]
          /\ dirEntry' \in [Devices -> Entries \union {<<>>}]
      BY <1>2, <1>14 DEF EndOfListing
    <2>2. Others'
      BY <1>2, <1>14, <2>1, EndKeeps DEF EndOfListing
    <2>3. QED
      BY <1>3, <1>14, <2>2, FilePartsNext DEF EndOfListing
  <1>15. CASE EndReadDir(d)
    <2>1. Others'
      BY <1>2, <1>15, EndKeeps DEF EndReadDir
    <2>2. QED
      BY <1>3, <1>15, <2>1, FilePartsNext DEF EndReadDir
  <1>16. QED
    BY <1>4, <1>5, <1>6, <1>7, <1>8, <1>9, <1>10, <1>11, <1>12, <1>13, <1>14, <1>15

\* Every step keeps the invariant.
LEMMA IInvStep == IInv /\ [Next]_vars => IInv'
  <1> SUFFICES ASSUME IInv, [Next]_vars
               PROVE  IInv'
    OBVIOUS
  <1>1. CASE Next
    BY <1>1, DeviceStep, Zenon DEF Next
  <1>2. CASE UNCHANGED vars
    BY <1>2 DEF vars, device, buffer, disk, request, history, opening,
                IInv, FileTypeOK, HostOK, RequestOK, Owned
  <1>3. QED
    BY <1>1, <1>2

-----------------------------------------------------------------------------
(***************************************************************************)
(* Reads that come up short.                                               *)
(***************************************************************************)

\* What MetEnd looks at, by the position of the host in the listing.
LEMMA RestOfListing ==
  ASSUME IInv, NEW d \in Devices, ReadsDir(d), dirPos[d] >= dirLen[d],
         LET dir == host[handle[d]]
         IN  \/ dir.pos = Len(Listing[dir.of])
             \/ dir.pos < Len(Listing[dir.of]) /\ Listing[dir.of][dir.pos + 1] = TooLong
  PROVE  MetEnd(d)
  <1> DEFINE dir == host[handle[d]]
             listing == Listing[dir.of]
             rest == SubSeq(listing, dir.pos + 1, Len(listing))
             Line0 == (Nat \ {0}) \union {TooLong}
  <1>1. handle[d] \in Handles /\ dir.kind = "DIRECTORY"
    BY Holds DEF IInv, ReadsDir
  <1>2. dir.of \in Dirs /\ dir.pos \in Nat
    BY <1>1 DEF IInv, HostOK, FileTypeOK
  <1>3. listing \in Seq(Line0) /\ Len(listing) \in Nat
    BY <1>2, ListingType
  <1>4. rest = <<>> \/ Head(rest) = TooLong
    <2> DEFINE p == dir.pos
    <2>1. CASE p = Len(listing)
      <3> HIDE DEF listing, p, Line0
      <3>1. SubSeq(listing, p + 1, Len(listing)) = <<>>
        BY <1>2, <1>3, <2>1, SubSeqProperties, EmptySeq DEF p
      <3> USE DEF p
      <3>2. QED
        BY <3>1
    <2>2. CASE p < Len(listing) /\ listing[p + 1] = TooLong
      <3> HIDE DEF listing, p, Line0
      <3>1. p \in Nat
        BY <1>2 DEF p
      <3>2. Head(SubSeq(listing, p + 1, Len(listing))) = listing[p + 1]
        BY <1>3, <2>2, <3>1, HeadTailOfSubSeq
      <3> USE DEF p
      <3>3. QED
        BY <2>2, <3>2
    <2>3. QED
      BY <2>1, <2>2
  <1>5. QED
    BY <1>4 DEF MetEnd

\* Only the end of the listing and a line too long end a read short of what was
\* asked for.
LEMMA ShortReadStep ==
  ASSUME IInv, Next, NEW d \in Devices, ShortRead(d)
  PROVE  MetEnd(d)
  <1>1. /\ reader = d /\ writer = NULL /\ d # NULL
        /\ handle[d] # NULL /\ stat[d] = "DIRECTORY" /\ ReadsDir(d)
        /\ reader' = NULL /\ success' < asked /\ asked \in Nat
    BY DevicesAssumption DEF ShortRead, ReadsDir, IInv, RequestOK, FileTypeOK
  <1>2. PICK e \in Devices :
          \/ Rename(e) \/ Name(e) \/ Stat(e) \/ Delete(e)
          \/ BeginRead(e) \/ BeginWrite(e)
          \/ Nothing(e) \/ ReadFile(e) \/ WriteFile(e)
          \/ Refill(e) \/ Take(e) \/ EndOfListing(e) \/ EndReadDir(e)
    BY DEF Next
  <1>3. CASE \/ Rename(e) \/ Name(e) \/ Stat(e) \/ Delete(e)
             \/ BeginRead(e) \/ BeginWrite(e)
    BY <1>1, <1>3 DEF Rename, Name, Stat, Delete, BeginRead, BeginWrite, Begin, Idle
  <1>4. CASE Nothing(e) \/ ReadFile(e) \/ WriteFile(e)
    BY <1>1, <1>4, DevicesAssumption DEF Nothing, ReadFile, WriteFile
  <1>5. CASE Refill(e)
    <2>1. e = d
      BY <1>1, <1>5 DEF Refill, ReadsDir
    <2>2. Listing[host[handle[d]].of][host[handle[d]].pos + 1] = TooLong
      BY <1>1, <1>5, <2>1 DEF Refill, request
    <2>3. /\ dirPos[d] >= dirLen[d]
          /\ host[handle[d]].pos < Len(Listing[host[handle[d]].of])
      BY <1>5, <2>1 DEF Refill
    <2>4. QED
      BY <1>1, <2>2, <2>3, RestOfListing
  <1>6. CASE Take(e)
    BY <1>1, <1>6 DEF Take
  <1>7. CASE EndOfListing(e)
    <2>1. e = d
      BY <1>1, <1>7 DEF EndOfListing, ReadsDir
    <2>2. /\ dirPos[d] >= dirLen[d]
          /\ host[handle[d]].pos = Len(Listing[host[handle[d]].of])
      BY <1>7, <2>1 DEF EndOfListing
    <2>3. QED
      BY <1>1, <2>2, RestOfListing
  <1>8. CASE EndReadDir(e)
    BY <1>1, <1>8 DEF EndReadDir, End
  <1>9. QED
    BY <1>2, <1>3, <1>4, <1>5, <1>6, <1>7, <1>8

-----------------------------------------------------------------------------
(***************************************************************************)
(* The text of a directory.                                                *)
(***************************************************************************)
Bytes == (Entries \union {<<>>}) \X Nat

IsPrefixOf(s, t) == Len(s) <= Len(t) /\ \A i \in 1 .. Len(s) : s[i] = t[i]

\* A prefix of what goes on is a prefix of the whole.
LEMMA PrefixOfConcat ==
  ASSUME NEW S, NEW s \in Seq(S), NEW t \in Seq(S), NEW u \in Seq(S), IsPrefixOf(s, t)
  PROVE  IsPrefixOf(s, t \o u)
  <1>1. /\ Len(t \o u) = Len(t) + Len(u)
        /\ \A i \in 1 .. Len(t) + Len(u) : (t \o u)[i] = IF i <= Len(t) THEN t[i] ELSE u[i - Len(t)]
    BY ConcatProperties
  <1>2. Len(s) \in Nat /\ Len(t) \in Nat /\ Len(u) \in Nat
    BY LenProperties
  <1>3. Len(s) <= Len(t) /\ \A i \in 1 .. Len(s) : s[i] = t[i]
    BY DEF IsPrefixOf
  <1>4. ASSUME NEW i \in 1 .. Len(s)
        PROVE  s[i] = (t \o u)[i]
    BY <1>1, <1>2, <1>3
  <1>5. QED
    BY <1>1, <1>2, <1>3, <1>4 DEF IsPrefixOf

\* The first bytes of a line.
LEMMA PartType ==
  ASSUME NEW dir \in Dirs, NEW i \in Nat, NEW n \in Nat
  PROVE  Part(dir, i, n) \in Seq(Bytes) /\ Len(Part(dir, i, n)) = n
  <1>1. \A k \in 1 .. n : <<<<dir, i>>, k>> \in Bytes
    BY DEF Bytes, Entries
  <1>2. Part(dir, i, n) \in [1 .. n -> Bytes]
    BY <1>1 DEF Part
  <1> HIDE DEF Bytes
  <1>3. QED
    BY <1>2, SeqDef, LenProperties

\* More of a line is what was of it, and the rest.
LEMMA PartGrows ==
  ASSUME NEW dir \in Dirs, NEW i \in Nat, NEW n \in Nat, NEW m \in Nat
  PROVE  /\ [k \in 1 .. m |-> <<<<dir, i>>, n + k>>] \in Seq(Bytes)
         /\ Part(dir, i, n) \o [k \in 1 .. m |-> <<<<dir, i>>, n + k>>] = Part(dir, i, n + m)
  <1> DEFINE s == Part(dir, i, n)
             t == [k \in 1 .. m |-> <<<<dir, i>>, n + k>>]
             u == Part(dir, i, n + m)
  <1>1. s \in Seq(Bytes) /\ Len(s) = n /\ u \in Seq(Bytes) /\ Len(u) = n + m
    BY PartType
  <1>2. t \in Seq(Bytes) /\ Len(t) = m
    <2>1. \A k \in 1 .. m : <<<<dir, i>>, n + k>> \in Bytes
      BY DEF Bytes, Entries
    <2>2. t \in [1 .. m -> Bytes]
      BY <2>1
    <2> HIDE DEF Bytes, t
    <2>3. QED
      BY <2>2, SeqDef, LenProperties
  <1>3. s \o t \in Seq(Bytes) /\ Len(s \o t) = n + m
        /\ \A j \in 1 .. n + m : (s \o t)[j] = IF j <= n THEN s[j] ELSE t[j - n]
    <2> HIDE DEF s, t
    <2> QED
      BY <1>1, <1>2, ConcatProperties
  <1>4. ASSUME NEW j \in 1 .. n + m
        PROVE  (s \o t)[j] = u[j]
    <2>1. u[j] = <<<<dir, i>>, j>>
      BY DEF Part
    <2> HIDE DEF s, t, u
    <2>2. CASE j <= n
      <3>1. s[j] = <<<<dir, i>>, j>>
        BY <2>2 DEF s, Part
      <3>2. QED
        BY <1>3, <2>1, <2>2, <3>1
    <2>3. CASE j > n
      <3>1. j - n \in 1 .. m /\ n + (j - n) = j
        BY <2>3
      <3>2. t[j - n] = <<<<dir, i>>, j>>
        BY <3>1 DEF t
      <3>3. QED
        BY <1>3, <2>1, <2>3, <3>2
    <2>4. j <= n \/ j > n
      OBVIOUS
    <2>5. QED
      BY <2>2, <2>3, <2>4
  <1>5. s \o t = u
    <2> HIDE DEF s, t, u
    <2> QED
      BY <1>1, <1>3, <1>4, SeqEqual
  <1>6. QED
    BY <1>2, <1>5

\* A line of the listing is a number of bytes, if it is not too long.
LEMMA LineType ==
  ASSUME NEW dir \in Dirs, NEW n \in 1 .. Len(Listing[dir])
  PROVE  /\ Listing[dir][n] \in (Nat \ {0}) \union {TooLong}
         /\ Line(dir, n) \in Seq(Bytes)
         /\ Listing[dir][n] # TooLong => Line(dir, n) = Part(dir, n, Listing[dir][n])
         /\ Listing[dir][n] = TooLong => Line(dir, n) = <<>>
  <1> DEFINE listing == Listing[dir]
             Lens == (Nat \ {0}) \union {TooLong}
  <1>1. listing \in Seq(Lens)
    BY ListingType
  <1>2. listing[n] \in Lens /\ n \in Nat
    <2> HIDE DEF listing, Lens
    <2>1. Len(listing) \in Nat
      BY <1>1
    <2>2. QED
      BY <1>1, <2>1, ElementOfSeq DEF listing
  <1>3. listing[n] # TooLong => Part(dir, n, listing[n]) \in Seq(Bytes)
    BY <1>2, PartType
  <1>4. <<>> \in Seq(Bytes)
    BY EmptySeq
  <1>5. QED
    BY <1>2, <1>3, <1>4 DEF Line

\* The texts of the first lines: each is the one before it and a line.
LEMMA TextsExact ==
  ASSUME NEW dir \in Dirs
  PROVE  /\ Texts(dir) \in [0 .. Len(Listing[dir]) -> Seq(Bytes)]
         /\ Texts(dir)[0] = <<>>
         /\ \A n \in 1 .. Len(Listing[dir]) : Texts(dir)[n] = Texts(dir)[n - 1] \o Line(dir, n)
  <1> DEFINE N == Len(Listing[dir])
             X == Seq(Bytes)
             step == [p \in (1 .. N) \X X |-> p[2] \o Line(dir, p[1])]
             IsTexts(f) == f = [n \in 0 .. N |-> IF n = 0 THEN <<>> ELSE f[n - 1] \o Line(dir, n)]
  <1>1. N \in Nat /\ \A n \in 1 .. N : Line(dir, n) \in X
    BY ListingType, LineType
  <1>2. step \in [(1 .. N) \X X -> X]
    <2>1. ASSUME NEW p \in (1 .. N) \X X
          PROVE  p[2] \o Line(dir, p[1]) \in X
      <3>1. p[2] \in Seq(Bytes) /\ Line(dir, p[1]) \in Seq(Bytes)
        BY <1>1
      <3>2. QED
        BY <3>1, ConcatProperties
    <2> HIDE DEF X, N
    <2>2. QED
      BY <2>1
  <1>3. <<>> \in X
    BY EmptySeq
  <1>4. PICK f \in [0 .. N -> X] : Follows(f, N, <<>>, step)
    <2> HIDE DEF N, X, step
    <2> QED
      BY <1>1, <1>2, <1>3, Recursion
  <1>5. ASSUME NEW n \in 1 .. N
        PROVE  f[n] = f[n - 1] \o Line(dir, n)
    <2> HIDE DEF X, N
    <2>1. n - 1 \in 0 .. N /\ <<n, f[n - 1]>> \in (1 .. N) \X X
      BY <1>1, <1>4
    <2>2. step[<<n, f[n - 1]>>] = f[n - 1] \o Line(dir, n)
      BY <2>1
    <2>3. QED
      BY <1>4, <2>2 DEF Follows
  <1>6. IsTexts(f)
    <2> HIDE DEF X, N
    <2>1. f = [n \in 0 .. N |-> f[n]]
      BY <1>4
    <2>2. \A n \in 0 .. N : f[n] = IF n = 0 THEN <<>> ELSE f[n - 1] \o Line(dir, n)
      BY <1>1, <1>4, <1>5 DEF Follows
    <2>3. QED
      BY <2>1, <2>2
  <1>7. Texts(dir) = CHOOSE g : IsTexts(g)
    BY DEF Texts
  <1>8. IsTexts(Texts(dir))
    <2> HIDE DEF IsTexts
    <2> QED
      BY <1>6, <1>7
  <1> DEFINE text == Texts(dir)
  <1>9. /\ DOMAIN text = 0 .. N /\ text[0] = <<>>
        /\ text = [n \in 0 .. N |-> text[n]]
        /\ \A n \in 1 .. N : text[n] = text[n - 1] \o Line(dir, n)
    <2> HIDE DEF N, text
    <2>1. text = [n \in 0 .. N |-> IF n = 0 THEN <<>> ELSE text[n - 1] \o Line(dir, n)]
      BY <1>8 DEF text
    <2>2. 0 \in 0 .. N /\ \A n \in 1 .. N : n \in 0 .. N /\ n # 0
      BY <1>1
    <2>3. QED
      BY <2>1, <2>2
  <1>10. 0 .. N \subseteq {n \in 0 .. N : text[n] \in X}
    <2> DEFINE S == {n \in 0 .. N : text[n] \in X}
    <2>1. 0 \in S
      <3> HIDE DEF N, X, text
      <3> QED
        BY <1>1, <1>3, <1>9
    <2>2. ASSUME NEW n \in 0 .. N, n \in S, n + 1 <= N
          PROVE  n + 1 \in S
      <3> HIDE DEF N, text
      <3>1. n + 1 \in 1 .. N /\ (n + 1) - 1 = n /\ n + 1 \in 0 .. N
        BY <1>1, <2>2
      <3>2. text[n + 1] = text[n] \o Line(dir, n + 1)
        BY <1>9, <3>1
      <3>3. text[n] \in Seq(Bytes) /\ Line(dir, n + 1) \in Seq(Bytes)
        BY <1>1, <2>2, <3>1
      <3>4. text[n + 1] \in X
        BY <3>2, <3>3, ConcatProperties
      <3>5. QED
        BY <3>1, <3>4
    <2>3. 0 \in Int /\ N \in Int
      BY <1>1
    <2>4. 0 .. N \subseteq S
      <3> HIDE DEF N, S
      <3> QED
        BY <2>1, <2>2, <2>3, Upwards
    <2>5. QED
      BY <2>4
  <1>11. text \in [0 .. N -> X]
    <2> HIDE DEF N, X, text
    <2> QED
      BY <1>9, <1>10
  <1>12. QED
    BY <1>9, <1>11

\* The text of the first lines begins the text of all.
LEMMA TextBegins ==
  ASSUME NEW dir \in Dirs, NEW n \in 0 .. Len(Listing[dir])
  PROVE  IsPrefixOf(Texts(dir)[n], Text(dir))
  <1> DEFINE N == Len(Listing[dir])
             text == Texts(dir)
             S == {m \in n .. N : IsPrefixOf(text[n], text[m])}
  <1>1. N \in Nat
    BY ListingType
  <1>2. /\ text \in [0 .. N -> Seq(Bytes)]
        /\ \A m \in 1 .. N : text[m] = text[m - 1] \o Line(dir, m) /\ Line(dir, m) \in Seq(Bytes)
    BY TextsExact, LineType
  <1>3. n \in 0 .. N
    OBVIOUS
  <1> HIDE DEF N, text
  <1>4. text[n] \in Seq(Bytes) /\ Len(text[n]) \in Nat
    BY <1>2, <1>3, LenProperties
  <1>5. n <= N => n \in S
    BY <1>1, <1>3, <1>4 DEF IsPrefixOf
  <1>6. ASSUME NEW m \in n .. N, m \in S, m + 1 <= N
        PROVE  m + 1 \in S
    <2>1. m \in 0 .. N /\ m + 1 \in 1 .. N /\ (m + 1) - 1 = m /\ m + 1 \in n .. N
      BY <1>1, <1>3, <1>6
    <2>2. text[m + 1] = text[m] \o Line(dir, m + 1) /\ Line(dir, m + 1) \in Seq(Bytes)
      BY <1>2, <2>1
    <2>3. IsPrefixOf(text[n], text[m]) /\ text[m] \in Seq(Bytes)
      BY <1>2, <1>6, <2>1
    <2>4. IsPrefixOf(text[n], text[m + 1])
      BY <1>4, <2>2, <2>3, PrefixOfConcat
    <2>5. QED
      BY <2>1, <2>4
  <1>7. n \in Int /\ N \in Int
    BY <1>1, <1>3
  <1>8. n .. N \subseteq S
    <2> HIDE DEF S
    <2> QED
      BY <1>5, <1>6, <1>7, Upwards
  <1>9. N \in S
    BY <1>1, <1>3, <1>8
  <1>10. QED
    BY <1>9 DEF Text, N, text

-----------------------------------------------------------------------------
(***************************************************************************)
(* Reading a directory, line by line.                                      *)
(***************************************************************************)

\* A device that reads a directory: what it holds, and where the host is in it.
ReadsOn(d) == handle[d] \in Handles /\ stat[d] = "DIRECTORY" /\ fresh[d]

\* A device that reads a directory holds the handle of one, somewhere in its listing.
LEMMA HeldDirectory ==
  ASSUME IInv, NEW d \in Devices, handle[d] \in Handles, stat[d] = "DIRECTORY"
  PROVE  LET dir == host[handle[d]]
         IN  /\ dir.kind = "DIRECTORY" /\ dir.of \in Dirs
             /\ Len(Listing[dir.of]) \in Nat /\ dir.pos \in 0 .. Len(Listing[dir.of])
  <1>1. host[handle[d]].kind = "DIRECTORY"
    BY DEF IInv, Owned
  <1>2. host[handle[d]].of \in Dirs
    BY <1>1 DEF IInv, HostOK
  <1>3. QED
    BY <1>1, <1>2, ListingType DEF IInv, HostOK

\* What was read is the beginning of the text.
LEMMA ReadingInOrder == IInv /\ Reading => ListingInOrder
  <1> SUFFICES ASSUME IInv, Reading, NEW d \in Devices, ReadsOn(d)
               PROVE  IsPrefixOf(got[d], Text(host[handle[d]].of))
    BY DEF ListingInOrder, IsPrefixOf, ReadsOn
  <1> DEFINE of == host[handle[d]].of
             pos == host[handle[d]].pos
             text == Texts(of)
             N == Len(Listing[of])
  <1>1. of \in Dirs /\ N \in Nat /\ pos \in 0 .. N
    BY HeldDirectory DEF ReadsOn
  <1>2. dirPos[d] \in Nat /\ dirLen[d] \in Nat
    BY DEF IInv, FileTypeOK
  <1>3. IF dirPos[d] < dirLen[d]
        THEN /\ pos > 0
             /\ dirLen[d] = Listing[of][pos] /\ dirLen[d] # TooLong
             /\ got[d] = text[pos - 1] \o Part(of, pos, dirPos[d])
        ELSE got[d] = text[pos]
    <2>1. ReadSoFar(d)
      BY DEF Reading, ReadsOn
    <2>2. QED
      BY <2>1 DEF ReadSoFar
  <1>4. CASE ~(dirPos[d] < dirLen[d])
    <2>1. got[d] = text[pos]
      BY <1>3, <1>4
    <2>2. QED
      BY <1>1, <2>1, TextBegins
  <1>5. CASE dirPos[d] < dirLen[d]
    <2> DEFINE n == dirPos[d]
               line == dirLen[d]
               rest == [k \in 1 .. line - n |-> <<<<of, pos>>, n + k>>]
    <2>1. /\ pos \in 1 .. N /\ line = Listing[of][pos] /\ line # TooLong
          /\ got[d] = text[pos - 1] \o Part(of, pos, n)
      <3> HIDE DEF of, pos, text, N
      <3>1. /\ pos > 0 /\ line = Listing[of][pos] /\ line # TooLong
            /\ got[d] = text[pos - 1] \o Part(of, pos, n)
        BY <1>3, <1>5, Zenon
      <3>2. QED
        BY <1>1, <3>1
    <2>2. n \in Nat /\ line \in Nat /\ line - n \in Nat /\ n + (line - n) = line
      BY <1>2, <1>5
    <2>3. /\ text \in [0 .. N -> Seq(Bytes)]
          /\ text[pos] = text[pos - 1] \o Line(of, pos) /\ text[pos - 1] \in Seq(Bytes)
      <3>1. /\ text \in [0 .. N -> Seq(Bytes)]
            /\ \A k \in 1 .. N : text[k] = text[k - 1] \o Line(of, k)
        BY <1>1, TextsExact, Zenon
      <3> HIDE DEF of, pos, text, N
      <3>2. pos - 1 \in 0 .. N
        BY <1>1, <2>1
      <3>3. QED
        BY <2>1, <3>1, <3>2
    <2>4. Line(of, pos) = Part(of, pos, line)
      BY <1>1, <2>1, LineType, Zenon
    <2>5. Part(of, pos, n) \in Seq(Bytes) /\ rest \in Seq(Bytes)
          /\ Part(of, pos, line) = Part(of, pos, n) \o rest
      <3>1. of \in Dirs /\ pos \in Nat
        BY <1>1
      <3> HIDE DEF n, line, of, pos
      <3>2. Part(of, pos, n) \in Seq(Bytes)
        BY <2>2, <3>1, PartType
      <3>3. rest \in Seq(Bytes) /\ Part(of, pos, n) \o rest = Part(of, pos, n + (line - n))
        BY <2>2, <3>1, PartGrows
      <3>4. QED
        BY <2>2, <3>2, <3>3
    <2>6. text[pos] = got[d] \o rest /\ got[d] \in Seq(Bytes)
      <3> DEFINE s == text[pos - 1]
                 t == Part(of, pos, n)
      <3>1. s \in Seq(Bytes) /\ t \in Seq(Bytes) /\ rest \in Seq(Bytes)
        BY <2>3, <2>5, Zenon
      <3>2. (s \o t) \o rest = s \o (t \o rest) /\ s \o t \in Seq(Bytes)
        <4> HIDE DEF s, t, rest
        <4> QED
          BY <3>1, ConcatAssociative, ConcatProperties
      <3> HIDE DEF n, line, of, pos, text, rest
      <3>3. QED
        BY <2>1, <2>3, <2>4, <2>5, <3>2
    <2>7. IsPrefixOf(got[d], text[pos]) /\ IsPrefixOf(text[pos], Text(of))
      <3>1. IsPrefixOf(got[d], got[d]) /\ Len(got[d]) \in Nat
        BY <2>6, LenProperties DEF IsPrefixOf
      <3>2. IsPrefixOf(got[d], got[d] \o rest)
        <4> HIDE DEF rest
        <4> QED
          BY <2>5, <2>6, <3>1, PrefixOfConcat
      <3>3. IsPrefixOf(text[pos], Text(of))
        BY <1>1, TextBegins
      <3>4. QED
        BY <2>6, <3>2, <3>3
    <2>8. Len(got[d]) \in Nat /\ Len(text[pos]) \in Nat /\ Len(Text(of)) \in Nat
      <3>1. Text(of) \in Seq(Bytes) /\ text[pos] \in Seq(Bytes)
        BY <1>1, TextsExact DEF Text
      <3>2. QED
        BY <2>6, <3>1, LenProperties
    <2>9. QED
      BY <2>7, <2>8 DEF IsPrefixOf
  <1>6. QED
    BY <1>4, <1>5

\* A device of which a step changes nothing, and what it holds as little.
LEMMA Undisturbed ==
  ASSUME Reading, NEW e \in Devices,
         handle'[e] = handle[e], stat'[e] = stat[e], fresh'[e] = fresh[e],
         dirPos'[e] = dirPos[e], dirLen'[e] = dirLen[e], dirEntry'[e] = dirEntry[e],
         got'[e] = got[e],
         ReadsOn(e) => host'[handle[e]] = host[handle[e]],
         ReadsOn(e)'
  PROVE  ReadSoFar(e)'
  <1>1. ReadsOn(e)
    BY DEF ReadsOn
  <1>2. ReadSoFar(e)
    BY <1>1 DEF Reading, ReadsOn
  <1>3. QED
    BY <1>1, <1>2 DEF ReadSoFar

\* Opening and closing disturbs nothing of another device, and a device that
\* opens a directory has read nothing of it.
LEMMA OpeningReads ==
  ASSUME IInv, NEW d \in Devices, NEW m \in Modes,
         \/ Open(d, m)
         \/ Close(d) /\ UNCHANGED stat,
         UNCHANGED buffer, Reading
  PROVE  Reading'
  <1> USE DEF buffer
  <1>1. FileTypeOK /\ HostOK /\ Owned
    BY DEF IInv
  <1>2. ASSUME NEW e \in Devices, e # d
        PROVE  /\ handle'[e] = handle[e] /\ stat'[e] = stat[e]
               /\ fresh'[e] = fresh[e] /\ got'[e] = got[e]
               /\ ReadsOn(e) => host'[handle[e]] = host[handle[e]]
    <2>1. fresh'[e] = fresh[e] /\ got'[e] = got[e]
      BY <1>1, <1>2 DEF Open, Close, FileTypeOK
    <2>2. ReadsOn(e) => /\ handle[e] # handle[d]
                        /\ Closed(d)[handle[e]] = host[handle[e]]
                        /\ Closed(d)[handle[e]] # Free
      <3>1. SUFFICES ASSUME ReadsOn(e)
                     PROVE  /\ handle[e] # handle[d]
                            /\ Closed(d)[handle[e]] = host[handle[e]]
                            /\ Closed(d)[handle[e]] # Free
        OBVIOUS
      <3>2. handle[e] # handle[d]
        BY <1>1, <1>2, <3>1 DEF Owned, ReadsOn
      <3>3. Closed(d)[handle[e]] = host[handle[e]]
        BY <1>1, <3>1, <3>2, ClosedExact DEF ReadsOn
      <3>4. host[handle[e]].kind = "DIRECTORY"
        BY <3>1, HeldDirectory DEF ReadsOn
      <3>5. QED
        BY <3>2, <3>3, <3>4 DEF Free
    <2>3. CASE Open(d, m)
      <3>1. CASE \E h \in Handles, entry \in HostEntry :
                   /\ Closed(d)[h] = Free
                   /\ handle' = [handle EXCEPT ![d] = h]
                   /\ host' = [Closed(d) EXCEPT ![h] = entry]
                   /\ stat' = [stat EXCEPT ![d] = entry.kind]
                   /\ \/ /\ entry.kind = "DIRECTORY"
                         /\ entry.of \in Dirs /\ entry.pos = 0
                      \/ /\ entry.kind = "REGULAR"
                         /\ entry.of \in Files /\ size'[entry.of] # NULL
        <4>1. PICK h \in Handles, entry \in HostEntry :
                   /\ Closed(d)[h] = Free
                   /\ handle' = [handle EXCEPT ![d] = h]
                   /\ host' = [Closed(d) EXCEPT ![h] = entry]
                   /\ stat' = [stat EXCEPT ![d] = entry.kind]
          BY <3>1
        <4>2. Closed(d) \in [Handles -> HostEntry]
          BY <1>1, ClosedType
        <4>3. handle'[e] = handle[e] /\ stat'[e] = stat[e]
          BY <1>1, <1>2, <4>1 DEF FileTypeOK
        <4>4. ReadsOn(e) => host'[handle[e]] = host[handle[e]]
          BY <2>2, <4>1, <4>2 DEF ReadsOn
        <4>5. QED
          BY <2>1, <4>3, <4>4
      <3>2. CASE \E t \in Types :
                   /\ \/ handle' = [handle EXCEPT ![d] = NULL]
                      \/ handle' = [handle EXCEPT ![d] = Invalid]
                   /\ handle'[d] = Invalid => t = "INVALID"
                   /\ stat' = [stat EXCEPT ![d] = t]
                   /\ host' = Closed(d)
        BY <1>1, <1>2, <2>1, <2>2, <3>2 DEF FileTypeOK
      <3>3. QED
        BY <1>1, <2>3, <3>1, <3>2, Opened
    <2>4. CASE Close(d) /\ UNCHANGED stat
      BY <1>1, <1>2, <2>1, <2>2, <2>4 DEF Close, FileTypeOK
    <2>5. QED
      BY <2>3, <2>4
  <1>3. ASSUME ReadsOn(d)'
        PROVE  ReadSoFar(d)'
    <2>1. CASE Open(d, m)
      <3>1. stat'[d] = "DIRECTORY" /\ fresh'[d] /\ handle'[d] \in Handles
        BY <1>3 DEF ReadsOn
      <3>2. /\ TypeOf(path[d]) = "DIRECTORY"
            /\ OpenDir(d, Closed(d))
        BY <1>1, <2>1, <3>1 DEF Open, OpenedAs, FileTypeOK
      <3>3. fresh' = [fresh EXCEPT ![d] = TypeOf(path[d]) = "DIRECTORY" => dirPos[d] >= dirLen[d]]
            /\ got' = [got EXCEPT ![d] = <<>>]
        BY <2>1 DEF Open
      <3>4. ~(dirPos[d] < dirLen[d])
        <4>1. dirPos[d] >= dirLen[d]
          BY <1>1, <3>1, <3>2, <3>3 DEF FileTypeOK
        <4>2. QED
          BY <1>1, <4>1 DEF FileTypeOK
      <3>5. got'[d] = <<>>
        BY <1>1, <3>3 DEF FileTypeOK
      <3>6. path[d] \in Dirs
        BY <3>2 DEF TypeOf
      <3>7. host'[handle'[d]] = [kind |-> "DIRECTORY", of |-> path[d], pos |-> 0]
        <4> DEFINE open == Closed(d)
                   h == FreeHandle(open)
        <4>1. h \in Handles /\ DirBufFree(open) /\ DOMAIN open = Handles
          BY <1>1, ClosedLeavesRoom, ClosedExact
        <4>2. /\ handle' = [handle EXCEPT ![d] = h]
              /\ host' = [open EXCEPT ![h] = [kind |-> "DIRECTORY", of |-> path[d], pos |-> 0]]
          BY <3>2, <4>1 DEF OpenDir
        <4>3. handle'[d] = h
          BY <1>1, <4>2 DEF FileTypeOK
        <4> HIDE DEF open, h
        <4>4. QED
          BY <4>1, <4>2, <4>3
      <3>8. Texts(path[d])[0] = <<>>
        BY <3>6, TextsExact
      <3>9. QED
        BY <3>4, <3>5, <3>7, <3>8 DEF ReadSoFar
    <2>2. CASE Close(d)
      BY <1>1, <1>3, <2>2, HandlesAssumption DEF Close, FileTypeOK, ReadsOn
    <2>3. QED
      BY <2>1, <2>2
  <1>4. ASSUME NEW e \in Devices, e # d, ReadsOn(e)'
        PROVE  ReadSoFar(e)'
    BY <1>2, <1>4, Undisturbed
  <1>5. QED
    BY <1>3, <1>4 DEF Reading, ReadsOn

\* Another device that reads a directory holds another handle.
LEMMA OthersHandle ==
  ASSUME IInv, NEW d \in Devices, NEW e \in Devices, e # d, ReadsOn(e)
  PROVE  handle[e] # handle[d] /\ handle[e] \in Handles
  BY DEF IInv, Owned, ReadsOn

\* A device with nothing in its buffer gets the next line into it.
LEMMA RefillReads ==
  ASSUME IInv, Reading, NEW d \in Devices, Refill(d)
  PROVE  Reading'
  <1> DEFINE dir == host[handle[d]]
             of == dir.of
             pos == dir.pos
             text == Texts(of)
             line == Listing[of][pos + 1]
  <1>1. /\ UNCHANGED <<handle, stat, got, fresh>>
        /\ host' = [host EXCEPT ![handle[d]].pos = @ + 1]
        /\ dirPos' = [dirPos EXCEPT ![d] = 0]
        /\ ~(dirPos[d] < dirLen[d]) /\ pos < Len(Listing[of])
        /\ handle[d] \in Handles /\ stat[d] = "DIRECTORY"
    BY Holds DEF Refill, ReadsDir, device, opening, IInv, FileTypeOK
  <1>2. /\ of \in Dirs /\ pos \in Nat /\ pos + 1 \in 1 .. Len(Listing[of])
    BY <1>1, HeldDirectory
  <1>3. \/ /\ line # TooLong
           /\ dirLen' = [dirLen EXCEPT ![d] = line]
           /\ dirEntry' = [dirEntry EXCEPT ![d] = <<of, pos + 1>>]
        \/ /\ line = TooLong
           /\ dirLen' = [dirLen EXCEPT ![d] = 0]
           /\ UNCHANGED dirEntry
    BY DEF Refill
  <1>4. host \in [Handles -> HostEntry] /\ handle[d] \in Handles
    BY <1>1 DEF IInv, FileTypeOK, HostEntry
  <1>5. /\ host'[handle[d]].of = of /\ host'[handle[d]].pos = pos + 1
        /\ \A h \in Handles : h # handle[d] => host'[h] = host[h]
    BY <1>1, <1>4 DEF HostEntry
  <1>6. dirPos'[d] = 0 /\ \A e \in Devices : e # d => dirPos'[e] = dirPos[e]
    BY <1>1 DEF IInv, FileTypeOK
  <1>7. \A e \in Devices : e # d => dirLen'[e] = dirLen[e] /\ dirEntry'[e] = dirEntry[e]
    BY <1>3 DEF IInv, FileTypeOK
  <1>8. ASSUME NEW e \in Devices, e # d, ReadsOn(e)'
        PROVE  ReadSoFar(e)'
    <2>1. ReadsOn(e)
      BY <1>1, <1>8 DEF ReadsOn
    <2>2. host'[handle[e]] = host[handle[e]]
      BY <1>5, <1>8, <2>1, OthersHandle
    <2>3. QED
      BY <1>1, <1>6, <1>7, <1>8, <2>2, Undisturbed
  <1>9. ASSUME ReadsOn(d)'
        PROVE  ReadSoFar(d)'
    <2>1. got[d] = text[pos]
      <3>1. ReadsOn(d)
        BY <1>1, <1>9 DEF ReadsOn
      <3>2. QED
        BY <1>1, <3>1 DEF Reading, ReadsOn, ReadSoFar
    <2>2. /\ text[pos] \in Seq(Bytes)
          /\ text[pos + 1] = text[pos] \o Line(of, pos + 1)
      <3> DEFINE N == Len(Listing[of])
      <3>1. /\ text \in [0 .. N -> Seq(Bytes)]
            /\ \A k \in 1 .. N : text[k] = text[k - 1] \o Line(of, k)
        BY <1>2, TextsExact
      <3>2. pos \in 0 .. N /\ pos + 1 \in 1 .. N /\ (pos + 1) - 1 = pos
        BY <1>2, ListingType
      <3> HIDE DEF text, of, pos, N
      <3>3. QED
        BY <3>1, <3>2
    <2>3. CASE line = TooLong
      <3>1. dirLen'[d] = 0
        BY <1>3, <2>3 DEF IInv, FileTypeOK
      <3>2. Line(of, pos + 1) = <<>>
        BY <1>2, <2>3, LineType
      <3>3. text[pos + 1] = text[pos]
        <4> HIDE DEF text, of, pos
        <4> QED
          BY <2>2, <3>2, ConcatEmptySeq, Zenon
      <3>4. /\ ~(dirPos'[d] < dirLen'[d])
            /\ got'[d] = Texts(host'[handle'[d]].of)[host'[handle'[d]].pos]
        BY <1>1, <1>5, <1>6, <2>1, <3>1, <3>3
      <3>5. QED
        BY <3>4 DEF ReadSoFar
    <2>4. CASE line # TooLong
      <3>1. dirLen'[d] = line /\ dirEntry'[d] = <<of, pos + 1>>
        BY <1>3, <2>4 DEF IInv, FileTypeOK
      <3>2. line \in Nat \ {0}
        BY <1>2, <2>4, LineType
      <3>3. Part(of, pos + 1, 0) = <<>>
        <4>1. Part(of, pos + 1, 0) \in Seq(Bytes) /\ Len(Part(of, pos + 1, 0)) = 0
          <5>1. of \in Dirs /\ pos + 1 \in Nat
            BY <1>2
          <5> HIDE DEF of, pos
          <5>2. QED
            BY <5>1, PartType
        <4>2. QED
          BY <4>1, EmptySeq
      <3>4. text[pos] = text[(pos + 1) - 1] \o Part(of, pos + 1, 0)
        <4> HIDE DEF text, of, pos
        <4>1. (pos + 1) - 1 = pos
          BY <1>2
        <4>2. QED
          BY <2>2, <3>3, <4>1, ConcatEmptySeq
      <3>5. dirPos'[d] < dirLen'[d] /\ host'[handle'[d]].pos > 0
        BY <1>1, <1>2, <1>5, <1>6, <3>1, <3>2
      <3>6. dirEntry'[d] = <<host'[handle'[d]].of, host'[handle'[d]].pos>>
        BY <1>1, <1>5, <3>1
      <3>7. /\ dirLen'[d] = Listing[host'[handle'[d]].of][host'[handle'[d]].pos]
            /\ dirLen'[d] # TooLong
        BY <1>1, <1>5, <2>4, <3>1
      <3>8. got'[d] = Texts(host'[handle'[d]].of)[host'[handle'[d]].pos - 1]
                        \o Part(host'[handle'[d]].of, host'[handle'[d]].pos, dirPos'[d])
        BY <1>1, <1>5, <1>6, <2>1, <3>4, Zenon
      <3>9. QED
        BY <3>5, <3>6, <3>7, <3>8, Zenon DEF ReadSoFar
    <2>5. QED
      BY <2>3, <2>4
  <1>10. QED
    BY <1>8, <1>9 DEF Reading, ReadsOn

\* What is taken from the buffer goes on where the device was in the line.
LEMMA TakeReads ==
  ASSUME IInv, Reading, NEW d \in Devices, Take(d)
  PROVE  Reading'
  <1> DEFINE dir == host[handle[d]]
             of == dir.of
             pos == dir.pos
             text == Texts(of)
             n == Least(left, dirLen[d] - dirPos[d])
             was == dirPos[d]
             taken == [k \in 1 .. n |-> <<dirEntry[d], was + k>>]
  <1>1. /\ UNCHANGED <<handle, stat, host, dirLen, dirEntry, fresh>>
        /\ got' = [got EXCEPT ![d] = got[d] \o taken]
        /\ dirPos' = [dirPos EXCEPT ![d] = was + n]
        /\ was < dirLen[d]
        /\ handle[d] \in Handles /\ stat[d] = "DIRECTORY"
    BY Holds DEF Take, ReadsDir, device, disk, IInv, FileTypeOK
  <1>2. of \in Dirs /\ Len(Listing[of]) \in Nat /\ pos \in 0 .. Len(Listing[of])
    BY <1>1, HeldDirectory
  <1>3. was \in Nat /\ dirLen[d] \in Nat /\ left \in Nat
    BY DEF IInv, FileTypeOK
  <1>4. n \in Nat /\ was + n <= dirLen[d]
    BY <1>1, <1>3 DEF Least
  <1>5. /\ got'[d] = got[d] \o taken /\ dirPos'[d] = was + n
        /\ \A e \in Devices : e # d => dirPos'[e] = dirPos[e] /\ got'[e] = got[e]
    <2> HIDE DEF n, taken
    <2>1. dirPos \in [Devices -> Nat] /\ DOMAIN got = Devices
      BY DEF IInv, FileTypeOK
    <2>2. QED
      BY <1>1, <2>1
  <1>6. ASSUME NEW e \in Devices, e # d, ReadsOn(e)'
        PROVE  ReadSoFar(e)'
    BY <1>1, <1>5, <1>6, Undisturbed, Zenon
  <1>7. ASSUME ReadsOn(d)'
        PROVE  ReadSoFar(d)'
    <2>1. /\ pos > 0 /\ dirEntry[d] = <<of, pos>>
          /\ dirLen[d] = Listing[of][pos] /\ dirLen[d] # TooLong
          /\ got[d] = text[pos - 1] \o Part(of, pos, was)
      <3>1. ReadsOn(d)
        BY <1>1, <1>7 DEF ReadsOn
      <3>2. ReadSoFar(d)
        BY <3>1 DEF Reading, ReadsOn
      <3>3. QED
        BY <1>1, <3>2, Zenon DEF ReadSoFar
    <2>2. /\ text[pos - 1] \in Seq(Bytes)
          /\ text[pos] = text[pos - 1] \o Line(of, pos)
      <3> DEFINE N == Len(Listing[of])
      <3>1. /\ text \in [0 .. N -> Seq(Bytes)]
            /\ \A k \in 1 .. N : text[k] = text[k - 1] \o Line(of, k)
        BY <1>2, TextsExact, Zenon
      <3>2. pos > 0
        BY <2>1, Zenon
      <3> HIDE DEF text, of, pos, N
      <3>3. pos \in 1 .. N /\ pos - 1 \in 0 .. N
        BY <1>2, <3>2 DEF N
      <3>4. QED
        BY <3>1, <3>3, Zenon
    <2>3. /\ Part(of, pos, was) \in Seq(Bytes) /\ taken \in Seq(Bytes)
          /\ Part(of, pos, was) \o taken = Part(of, pos, was + n)
      <3>1. of \in Dirs /\ pos \in Nat /\ was \in Nat /\ n \in Nat
        BY <1>2, <1>3, <1>4
      <3>2. taken = [k \in 1 .. n |-> <<<<of, pos>>, was + k>>]
        BY <2>1
      <3> HIDE DEF of, pos, was, n, taken
      <3>3. Part(of, pos, was) \in Seq(Bytes)
        BY <3>1, PartType
      <3>4. LET more == [k \in 1 .. n |-> <<<<of, pos>>, was + k>>]
            IN  more \in Seq(Bytes) /\ Part(of, pos, was) \o more = Part(of, pos, was + n)
        BY <3>1, PartGrows, Zenon
      <3>5. QED
        BY <3>2, <3>3, <3>4, Zenon
    <2>4. got'[d] = text[pos - 1] \o Part(of, pos, was + n)
      <3> DEFINE s == text[pos - 1]
                 t == Part(of, pos, was)
      <3>1. (s \o t) \o taken = s \o (t \o taken)
        <4>1. s \in Seq(Bytes) /\ t \in Seq(Bytes) /\ taken \in Seq(Bytes)
          BY <2>2, <2>3, Zenon
        <4> HIDE DEF s, t, taken
        <4>2. QED
          BY <4>1, ConcatAssociative
      <3> HIDE DEF of, pos, was, n, taken, text
      <3>2. QED
        BY <1>5, <2>1, <2>3, <3>1
    <2>5. /\ host'[handle'[d]].of = of /\ host'[handle'[d]].pos = pos
          /\ dirLen'[d] = dirLen[d] /\ dirEntry'[d] = dirEntry[d]
      <3>1. host' = host /\ handle' = handle /\ dirLen' = dirLen /\ dirEntry' = dirEntry
        BY <1>1
      <3>2. QED
        BY <3>1, Zenon
    <2>6. CASE was + n < dirLen[d]
      <3>1. dirPos'[d] < dirLen'[d]
        BY <1>5, <2>5, <2>6
      <3>2. got'[d] = Texts(host'[handle'[d]].of)[host'[handle'[d]].pos - 1]
                        \o Part(host'[handle'[d]].of, host'[handle'[d]].pos, dirPos'[d])
        <4> HIDE DEF of, pos, was, n
        <4> QED
          BY <1>5, <2>4, <2>5 DEF text
      <3>3. /\ host'[handle'[d]].pos > 0
            /\ dirEntry'[d] = <<host'[handle'[d]].of, host'[handle'[d]].pos>>
            /\ dirLen'[d] = Listing[host'[handle'[d]].of][host'[handle'[d]].pos]
            /\ dirLen'[d] # TooLong
        <4> HIDE DEF of, pos
        <4> QED
          BY <2>1, <2>5
      <3>4. QED
        BY <3>1, <3>2, <3>3, Zenon DEF ReadSoFar
    <2>7. CASE was + n = dirLen[d]
      <3>1. ~(dirPos'[d] < dirLen'[d])
        <4> HIDE DEF was, n
        <4> QED
          BY <1>3, <1>5, <2>5, <2>7
      <3>2. Line(of, pos) = Part(of, pos, was + n)
        <4>1. pos \in 1 .. Len(Listing[of])
          <5>1. pos > 0
            BY <2>1, Zenon
          <5> HIDE DEF of, pos
          <5>2. QED
            BY <1>2, <5>1
        <4>2. Line(of, pos) = Part(of, pos, Listing[of][pos])
          BY <1>2, <2>1, <4>1, LineType, Zenon
        <4> HIDE DEF of, pos, was, n
        <4>3. QED
          BY <2>1, <2>7, <4>2
      <3>3. got'[d] = Texts(host'[handle'[d]].of)[host'[handle'[d]].pos]
        <4>1. got'[d] = text[pos]
          BY <2>2, <2>4, <3>2, Zenon
        <4> HIDE DEF of, pos
        <4>2. QED
          BY <2>5, <4>1, Zenon DEF text
      <3>4. QED
        BY <3>1, <3>3 DEF ReadSoFar
    <2>8. was + n < dirLen[d] \/ was + n = dirLen[d]
      <3> HIDE DEF was, n
      <3> QED
        BY <1>3, <1>4
    <2>9. QED
      BY <2>6, <2>7, <2>8
  <1>8. QED
    BY <1>6, <1>7 DEF Reading, ReadsOn

\* A step that leaves the buffers alone, and the directories that are open.
LEMMA SameReads ==
  ASSUME IInv, Reading,
         UNCHANGED <<handle, stat, fresh, got, buffer>>,
         \A h \in Handles : host[h].kind = "DIRECTORY" => host'[h] = host[h]
  PROVE  Reading'
  <1>1. ASSUME NEW e \in Devices, ReadsOn(e)'
        PROVE  ReadSoFar(e)'
    <2>1. ReadsOn(e)
      BY <1>1 DEF ReadsOn
    <2>2. host'[handle[e]] = host[handle[e]]
      BY <2>1, HeldDirectory DEF ReadsOn
    <2>3. QED
      BY <1>1, <2>2, Undisturbed DEF buffer
  <1>2. QED
    BY <1>1 DEF Reading, ReadsOn

\* A step of a device keeps what each has read in order.
LEMMA ReadingDeviceStep ==
  ASSUME IInv, Reading, NEW d \in Devices,
         \/ Rename(d) \/ Name(d) \/ Stat(d) \/ Delete(d)
         \/ BeginRead(d) \/ BeginWrite(d)
         \/ Nothing(d) \/ ReadFile(d) \/ WriteFile(d)
         \/ Refill(d) \/ Take(d) \/ EndOfListing(d) \/ EndReadDir(d)
  PROVE  Reading'
  <1> USE DEF device, disk, request, opening, history
  <1>1. CASE Rename(d) \/ Stat(d) \/ Nothing(d) \/ EndReadDir(d)
    <2>1. UNCHANGED <<handle, stat, fresh, got, buffer, host>>
      BY <1>1 DEF Rename, Stat, Nothing, EndReadDir
    <2>2. QED
      BY <2>1, SameReads
  <1>2. CASE Name(d)
    BY <1>2, OpeningReads DEF Name, Modes
  <1>3. CASE Delete(d)
    <2>1. UNCHANGED <<handle, stat, fresh, got, buffer>>
      BY <1>3 DEF Delete
    <2>2. ASSUME NEW h \in Handles, host[h].kind = "DIRECTORY"
          PROVE  host'[h] = host[h]
      <3>1. host[h].of \notin Files
        BY <2>2, PathsAssumption DEF IInv, HostOK
      <3>2. QED
        BY <1>3, <3>1 DEF Delete
    <2>3. QED
      BY <2>1, <2>2, SameReads
  <1>4. CASE BeginRead(d) \/ BeginWrite(d)
    <2>1. PICK m \in Modes : SetMode(d, m) /\ UNCHANGED buffer
      BY <1>4 DEF BeginRead, BeginWrite, Begin, Modes
    <2>2. CASE Open(d, m) \/ (Close(d) /\ UNCHANGED stat)
      BY <2>1, <2>2, OpeningReads
    <2>3. CASE UNCHANGED <<handle, stat, host, got, fresh>>
      BY <2>1, <2>3, SameReads
    <2>4. QED
      BY <2>1, <2>2, <2>3 DEF SetMode
  <1>5. CASE ReadFile(d) \/ WriteFile(d)
    <2>1. /\ UNCHANGED <<handle, stat, fresh, got, buffer>>
          /\ handle[d] # NULL /\ stat[d] = "REGULAR"
          /\ \E n : Advance(d, n)
      BY <1>5 DEF ReadFile, WriteFile
    <2>2. handle[d] \in Handles /\ host[handle[d]].kind = "REGULAR"
      BY <2>1, Holds DEF IInv
    <2>3. host \in [Handles -> HostEntry]
      BY DEF IInv, FileTypeOK, HostEntry
    <2>4. \A h \in Handles : host[h].kind = "DIRECTORY" => host'[h] = host[h]
      BY <2>1, <2>2, <2>3 DEF Advance
    <2>5. QED
      BY <2>1, <2>4, SameReads
  <1>6. CASE Refill(d)
    BY <1>6, RefillReads
  <1>7. CASE Take(d)
    BY <1>7, TakeReads
  <1>8. CASE EndOfListing(d)
    <2>1. /\ UNCHANGED <<handle, stat, fresh, got, host, dirEntry>>
          /\ dirPos' = [dirPos EXCEPT ![d] = 0] /\ dirLen' = [dirLen EXCEPT ![d] = 0]
          /\ dirPos[d] >= dirLen[d]
      BY <1>8 DEF EndOfListing
    <2>2. /\ dirPos \in [Devices -> Nat] /\ dirLen \in [Devices -> Nat]
      BY DEF IInv, FileTypeOK
    <2>3. ASSUME NEW e \in Devices, e # d, ReadsOn(e)'
          PROVE  ReadSoFar(e)'
      BY <2>1, <2>2, <2>3, Undisturbed
    <2>4. ASSUME ReadsOn(d)'
          PROVE  ReadSoFar(d)'
      <3>1. ReadsOn(d)
        BY <2>1, <2>4 DEF ReadsOn
      <3>2. ReadSoFar(d)
        BY <3>1 DEF Reading, ReadsOn
      <3>3. got[d] = Texts(host[handle[d]].of)[host[handle[d]].pos]
        <4>1. ~(dirPos[d] < dirLen[d])
          BY <2>1, <2>2
        <4>2. QED
          BY <3>2, <4>1 DEF ReadSoFar
      <3>4. ~(dirPos'[d] < dirLen'[d])
        BY <2>1, <2>2
      <3>5. QED
        BY <2>1, <3>3, <3>4 DEF ReadSoFar
    <2>5. QED
      BY <2>3, <2>4 DEF Reading, ReadsOn
  <1>9. QED
    BY <1>1, <1>2, <1>3, <1>4, <1>5, <1>6, <1>7, <1>8

\* So does every step; and at first no device has read anything.
LEMMA ReadingStep == IInv /\ Reading /\ [Next]_vars => Reading'
  <1> SUFFICES ASSUME IInv, Reading, [Next]_vars
               PROVE  Reading'
    OBVIOUS
  <1>1. CASE Next
    BY <1>1, ReadingDeviceStep, Zenon DEF Next
  <1>2. CASE UNCHANGED vars
    BY <1>2, SameReads DEF vars, device, disk, history, opening
  <1>3. QED
    BY <1>1, <1>2

\* At first no device reads.
LEMMA ReadingInit == Init => Reading
  BY HandlesAssumption DEF Init, Reading

-----------------------------------------------------------------------------
(***************************************************************************)
(* The theorems.                                                           *)
(***************************************************************************)

\* The invariant that they rest on.
THEOREM Inductive == Spec => []IInv
  BY IInvInit, IInvStep, PTL DEF Spec

\* What a device holds it closes as it opened it, it shares with no other, and
\* the host forgets nothing that is open.
THEOREM OwnsWhatItHolds == Spec => []HandlesOwned
  <1>1. IInv => HandlesOwned
    BY HandlesCounted DEF IInv
  <1>2. QED
    BY <1>1, Inductive, PTL

\* A program that reads a directory until a read comes up short has read all of
\* it, but for lines too long.
THEOREM ReadsToTheEnd == Spec => ShortReadMeansEnd
  <1>1. IInv /\ [Next]_vars => [\A d \in Devices : ShortRead(d) => MetEnd(d)]_vars
    BY ShortReadStep
  <1>2. QED
    BY <1>1, Inductive, PTL DEF Spec, ShortReadMeansEnd

\* What a program reads of a directory is the text of its listing, from its
\* beginning and in order, however its reads divide it.
THEOREM ReadsInOrder == Spec => []ListingInOrder
  <1>1. Init => IInv /\ Reading
    BY IInvInit, ReadingInit
  <1>2. IInv /\ Reading /\ [Next]_vars => (IInv /\ Reading)'
    BY IInvStep, ReadingStep
  <1>3. QED
    BY <1>1, <1>2, ReadingInOrder, PTL DEF Spec
=============================================================================
