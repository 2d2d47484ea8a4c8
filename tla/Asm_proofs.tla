----------------------------- MODULE Asm_proofs -----------------------------
(***************************************************************************)
(* Proofs about Asm: every variable keeps its type; no reference that was  *)
(* allocated is lost, or given out while something waits in it; every byte *)
(* has a symbol; and the numbers of labels and references agree.           *)
(***************************************************************************)
EXTENDS Asm, NumberFacts, SequenceTheorems, FiniteSetTheorems, TLAPS

-----------------------------------------------------------------------------
(***************************************************************************)
(* The inductive invariant.                                                *)
(***************************************************************************)

\* A sequence, of whatever it has.
Sequence(s) == s \in Seq({s[i] : i \in DOMAIN s})

IsText(b) == Sequence(b) /\ \A i \in DOMAIN b : IsToken(b[i])

\* What is read: a file that there is, or the body of a macro that was defined.
IsUnit(u) ==
  /\ u = [kind |-> u.kind, of |-> u.of, pos |-> u.pos, arg |-> u.arg]
  /\ u.kind \in {"file", "macro"} /\ u.pos \in Nat \ {0} /\ IsToken(u.arg)
  /\ u.kind = "file" => u.of \in DOMAIN files
  /\ u.kind = "macro" => u.of \in DOMAIN symtab

\* What is written later is within the memory and not in the zero page.
Placed == {r \in Pending : r.addr >= Page /\ r.addr + Size(r.rune) <= MemSize}

\* What is written for it is at these addresses.
Within(r, addresses) == r.addr .. r.addr + Size(r.rune) - 1 \subseteq addresses

\* Of the symbols only those of forward references have any that wait.
IsEntry(e) ==
  /\ e \in [type : {"unknown", "macro", "label", "forward"}, id : Nat, addr : 0 .. MemSize - 1,
            refs : Seq(Placed), body : {e.body}, referenced : BOOLEAN]
  /\ IsText(e.body)
  /\ e.type \in {"label", "forward"} => e.id # 0
  /\ e.type # "forward" => e.refs = <<>>

Phases ==
  phase \in {"pass", "resolve", "done"} /\ {success} \subseteq BOOLEAN /\ comment \in Nat

Units ==
  files \in Programs /\ Sequence(units) /\ \A i \in DOMAIN units : IsUnit(units[i])

Table ==
  symtab = [name \in DOMAIN symtab |-> symtab[name]]
    /\ \A name \in DOMAIN symtab : IsEntry(symtab[name])

\* A macro is defined under a name that nothing waits for.
Defining ==
  /\ defining = [name |-> defining.name, depth |-> defining.depth]
  /\ defining # NoMacro => Entry(defining.name).type # "forward"

Layout ==
  /\ writeAddr \in 0 .. MemSize - 1 /\ numLabels \in Nat
  /\ rom = [a \in DOMAIN rom |-> rom[a]] /\ DOMAIN rom \subseteq Page .. MemSize - 1

Waits ==
  /\ lambdas \in Seq(Placed) /\ atLabels \in Seq(Pending)
  /\ pool \in Seq(Nat \ {0}) /\ nodes \in Nat

\* Comments and definitions end before what they are read from.
Inside == comment > 0 \/ defining # NoMacro => units # <<>>

Typing == Phases /\ Units /\ Table /\ Defining /\ Inside /\ Layout /\ Waits

\* The lists of nodes, by what they are for, of the symbols those in D.
Keys(D) == {<<"lambda">>, <<"at">>, <<"pool">>} \union {<<"refs", name>> : name \in D}
RefsIn(table, name) == IF name \in DOMAIN table THEN table[name].refs ELSE <<>>
NodesIn(D, ls, ats, free, table) ==
  [k \in Keys(D) |->
     IF k = <<"lambda">> THEN In(ls) ELSE IF k = <<"at">> THEN In(ats)
     ELSE IF k = <<"pool">> THEN free ELSE In(RefsIn(table, k[2]))]

\* In these lists is each of the first n nodes once, and no other.
Owned(held, n) ==
  /\ \A k \in DOMAIN held : held[k] \in Seq(1 .. n)
  /\ \A m \in 1 .. n : \E k \in DOMAIN held : \E i \in DOMAIN held[k] : held[k][i] = m
  /\ \A k, l \in DOMAIN held : \A i \in DOMAIN held[k], j \in DOMAIN held[l] :
       held[k][i] = held[l][j] => k = l /\ i = j

Ownership == Owned(NodesIn(DOMAIN symtab, lambdas, atLabels, pool, symtab), nodes)

IInv == Typing /\ Ownership

-----------------------------------------------------------------------------
(***************************************************************************)
(* Sequences, units and tokens.                                            *)
(***************************************************************************)

\* What is in a sequence is in any set that it is a sequence of.
LEMMA Sequences ==
  ASSUME NEW T, NEW s \in Seq(T)
  PROVE  Sequence(s) /\ DOMAIN s = 1 .. Len(s) /\ \A i \in DOMAIN s : s[i] \in T
  <1>1. DOMAIN s = 1 .. Len(s) /\ Len(s) \in Nat /\ \A i \in 1 .. Len(s) : s[i] \in T
    OBVIOUS
  <1> DEFINE R == {s[i] : i \in DOMAIN s}
  <1>2. s \in [1 .. Len(s) -> R]
    BY <1>1
  <1>3. s \in Seq(R)
    BY <1>1, <1>2, SMTT(30)
  <1>4. QED
    BY <1>1, <1>3 DEF Sequence

\* A sequence of what it has, in a larger set.
LEMMA Widened ==
  ASSUME NEW s, Sequence(s), NEW T, {s[i] : i \in DOMAIN s} \subseteq T
  PROVE  s \in Seq(T)
  <1> DEFINE R == {s[i] : i \in DOMAIN s}
  <1>1. s \in Seq(R) /\ R \subseteq T
    BY DEF Sequence
  <1> HIDE DEF R
  <1>2. QED
    BY <1>1

\* A text stays one with another token.
LEMMA TextGrows ==
  ASSUME NEW b, IsText(b), NEW t, IsToken(t)
  PROVE  IsText(Append(b, t))
  <1> DEFINE T == {b[i] : i \in DOMAIN b} \union {t}
  <1>1. b \in Seq(T)
    BY Widened DEF IsText
  <1>2. \A x \in T : IsToken(x)
    BY DEF IsText
  <1> HIDE DEF T
  <1>3. t \in T
    BY DEF T
  <1>4. Append(b, t) \in Seq(T)
    BY <1>1, <1>3
  <1>5. QED
    BY <1>2, <1>4, Sequences DEF IsText

\* A unit stays one while files stay and symbols are only added.
LEMMA KeepsUnit ==
  ASSUME NEW u, IsUnit(u), files' = files, DOMAIN symtab \subseteq DOMAIN symtab'
  PROVE  IsUnit(u)'
  BY DEF IsUnit

\* Units that are from a set of units.
LEMMA UnitsFrom ==
  ASSUME NEW T, units' \in Seq(T), \A u \in T : IsUnit(u)', files' = files, files \in Programs
  PROVE  Units'
  <1>1. Sequence(units') /\ \A i \in DOMAIN units' : units'[i] \in T
    BY Sequences
  <1>2. QED
    BY <1>1 DEF Units, Sequence

\* The units while symbols are only added.
LEMMA KeepsUnits ==
  ASSUME Units, files' = files, units' = units, DOMAIN symtab \subseteq DOMAIN symtab'
  PROVE  Units'
  <1>1. \A i \in DOMAIN units : IsUnit(units[i])'
    BY KeepsUnit DEF Units
  <1>2. QED
    BY <1>1 DEF Units, Sequence, IsUnit

\* The unit read from goes on after one or two tokens.
LEMMA GoesOn ==
  ASSUME Units, units # <<>>, NEW n \in {1, 2}
  PROVE  /\ Head(units) = units[1] /\ IsUnit(Head(units))
         /\ IsUnit([Head(units) EXCEPT !.pos = @ + n])
         /\ Past(n) \in Seq({units[i] : i \in DOMAIN units} \union {[Head(units) EXCEPT !.pos = @ + n]})
         /\ Tail(units) \in Seq({units[i] : i \in DOMAIN units})
  <1> DEFINE R == {units[i] : i \in DOMAIN units}
             u == Head(units)
             v == [u EXCEPT !.pos = @ + n]
             T == R \union {v}
  <1>1. units \in Seq(R)
    BY DEF Units, Sequence
  <1>2. u = units[1] /\ IsUnit(u)
    BY <1>1 DEF Units
  <1>3. IsUnit(v)
    <2> HIDE DEF u
    <2>1. v = [kind |-> u.kind, of |-> u.of, pos |-> u.pos + n, arg |-> u.arg]
      BY <1>2 DEF IsUnit
    <2>2. u.pos + n \in Nat \ {0}
      BY <1>2 DEF IsUnit
    <2> HIDE DEF v
    <2>3. QED
      BY <1>2, <2>1, <2>2 DEF IsUnit
  <1>4. Tail(units) \in Seq(R)
    <2> HIDE DEF R
    <2> QED
      BY <1>1
  <1>5. Past(n) \in Seq(T)
    <2>1. v \in T /\ Tail(units) \in Seq(T)
      <3>1. R \subseteq T
        OBVIOUS
      <3> HIDE DEF R, T
      <3>2. QED
        BY <1>4, <3>1 DEF T
    <2> HIDE DEF T, v
    <2>2. <<v>> \o Tail(units) \in Seq(T)
      BY <2>1
    <2>3. QED
      BY <2>2 DEF Past, v, u
  <1>6. QED
    BY <1>2, <1>3, <1>4, <1>5

\* After a token.
LEMMA PastUnits ==
  ASSUME Units, units # <<>>, files' = files, DOMAIN symtab \subseteq DOMAIN symtab',
         NEW n \in {1, 2}, units' = Past(n)
  PROVE  Units' /\ units' # <<>>
  <1> DEFINE v == [Head(units) EXCEPT !.pos = @ + n]
             T == {units[i] : i \in DOMAIN units} \union {v}
  <1>1. IsUnit(v) /\ Past(n) \in Seq(T)
    BY GoesOn
  <1>2. \A u \in T : IsUnit(u)
    BY <1>1 DEF Units
  <1> HIDE DEF T, v
  <1>3. \A u \in T : IsUnit(u)'
    BY <1>2, KeepsUnit
  <1>4. units' # <<>>
    <2>1. Tail(units) \in Seq({units[i] : i \in DOMAIN units})
      BY GoesOn
    <2>2. \A x : <<x>> \o Tail(units) # <<>>
      BY <2>1
    <2>3. QED
      BY <2>2 DEF Past
  <1>5. QED
    BY <1>1, <1>3, <1>4, UnitsFrom DEF Units

\* A token of a macro with its argument.
LEMMA FilledTyped ==
  ASSUME NEW t, IsToken(t), NEW arg, IsToken(arg)
  PROVE  IsToken(Filled(t, arg))
  <1> DEFINE x == Named(IF arg.kind = "word" THEN arg.name ELSE <<>>)
  <1>1. CASE arg = NoArg \/ t = Word(Arg)
    BY <1>1 DEF Filled
  <1>2. CASE t.kind = "ref"
    <2>1. [t EXCEPT !.to = x] = Ref(t.rune, x)
      BY <1>2 DEF IsToken, Ref
    <2>2. IsToken([t EXCEPT !.to = x])
      <3> HIDE DEF x
      <3> QED
        BY <1>2, <2>1 DEF IsToken, Ref, Label
    <2>3. QED
      BY <2>2 DEF Filled
  <1>3. CASE t.kind = "label"
    <2>1. [t EXCEPT !.to = x] = Label(x)
      BY <1>3 DEF IsToken, Label
    <2>2. IsToken([t EXCEPT !.to = x])
      <3> HIDE DEF x
      <3> QED
        BY <1>3, <2>1 DEF IsToken, Ref, Label
    <2>3. QED
      BY <2>2 DEF Filled
  <1>4. CASE t.kind \notin {"ref", "label"}
    BY <1>4 DEF Filled
  <1>5. QED
    BY <1>1, <1>2, <1>3, <1>4

\* What is read is a token.
LEMMA TokenTyped ==
  ASSUME Units, Table, units # <<>>, NEW k \in {0, 1}, HasToken(k)
  PROVE  IsToken(Token(k))
  <1> DEFINE u == Head(units)
             i == u.pos + k
  <1>1. IsUnit(u)
    BY GoesOn
  <1>2. i \in Nat \ {0} /\ i <= Len(Tokens(u)) /\ IsToken(u.arg)
    BY <1>1 DEF IsUnit, HasToken
  <1>3. IsToken(Tokens(u)[i])
    <2> HIDE DEF u, i
    <2>1. CASE u.kind = "file"
      <3>1. u.of \in DOMAIN files /\ Tokens(u) = files[u.of]
        BY <1>1, <2>1 DEF IsUnit, Tokens
      <3>2. i \in 1 .. Len(files[u.of]) \/ Len(files[u.of]) \notin Int
        BY <1>2, <3>1
      <3>3. QED
        BY <1>2, <3>1, <3>2, ProgramsAssumption DEF Units
    <2>2. CASE u.kind = "macro"
      <3>1. u.of \in DOMAIN symtab /\ Tokens(u) = symtab[u.of].body
        BY <1>1, <2>2 DEF IsUnit, Tokens
      <3>2. IsText(symtab[u.of].body)
        BY <3>1 DEF Table, IsEntry
      <3>3. DOMAIN symtab[u.of].body = 1 .. Len(symtab[u.of].body) /\ Len(symtab[u.of].body) \in Nat
        BY <3>2, Sequences DEF IsText, Sequence
      <3>4. QED
        BY <1>2, <3>1, <3>2, <3>3 DEF IsText
    <2>3. QED
      BY <1>1, <2>1, <2>2 DEF IsUnit
  <1>4. QED
    BY <1>2, <1>3, FilledTyped DEF Token

-----------------------------------------------------------------------------
(***************************************************************************)
(* Symbols and memory.                                                     *)
(***************************************************************************)

\* A name of which nothing is known has an entry like any other.
LEMMA EntryTyped ==
  ASSUME Table
  PROVE  IsEntry(Unknown) /\ \A name : IsEntry(Entry(name))
  <1>1. <<>> \in Seq(Placed) /\ DOMAIN <<>> = {}
    OBVIOUS
  <1>2. IsText(<<>>)
    <2>1. <<>> \in Seq({<<>>[i] : i \in DOMAIN <<>>})
      OBVIOUS
    <2>2. QED
      BY <1>1, <2>1 DEF IsText, Sequence
  <1>3. MemSize \in Nat \ {0}
    BY PageAssumption DEF MemSize
  <1>4. IsEntry(Unknown)
    BY <1>1, <1>2, <1>3 DEF IsEntry, Unknown
  <1>5. QED
    BY <1>4 DEF Table, Entry

\* The table with another entry, or a new one.
LEMMA WithTable ==
  ASSUME Table, NEW name, NEW e, IsEntry(e), symtab' = With(name, e)
  PROVE  /\ Table'
         /\ DOMAIN symtab' = DOMAIN symtab \union {name}
         /\ \A other \in DOMAIN symtab' : symtab'[other] = IF other = name THEN e ELSE Entry(other)
  <1>1. DOMAIN symtab' = DOMAIN symtab \union {name}
    BY DEF With
  <1>2. \A other \in DOMAIN symtab' : symtab'[other] = IF other = name THEN e ELSE Entry(other)
    BY DEF With, Entry
  <1>3. \A other \in DOMAIN symtab' : IsEntry(symtab'[other])
    BY <1>2, EntryTyped
  <1>4. symtab' = [other \in DOMAIN symtab' |-> symtab'[other]]
    BY DEF With
  <1>5. QED
    BY <1>1, <1>2, <1>3, <1>4 DEF Table, IsEntry

\* An entry that is referred to.
LEMMA ReferencedEntry ==
  ASSUME NEW e, IsEntry(e)
  PROVE  LET f == [e EXCEPT !.referenced = TRUE] IN IsEntry(f) /\ f.refs = e.refs /\ f.type = e.type
  <1> DEFINE f == [e EXCEPT !.referenced = TRUE]
  <1>1. /\ f \in [type : {"unknown", "macro", "label", "forward"}, id : Nat, addr : 0 .. MemSize - 1,
                  refs : Seq(Placed), body : {e.body}, referenced : BOOLEAN]
        /\ f.type = e.type /\ f.id = e.id /\ f.refs = e.refs /\ f.body = e.body
    BY DEF IsEntry
  <1> HIDE DEF f
  <1>2. IsEntry(f) /\ f.refs = e.refs /\ f.type = e.type
    BY <1>1 DEF IsEntry
  <1>3. QED
    BY <1>2 DEF f

\* A symbol that is referred to.
LEMMA ReferencedTyped ==
  ASSUME Table, NEW name, symtab' = Referenced(name)
  PROVE  /\ Table' /\ DOMAIN symtab' = DOMAIN symtab \union {name}
         /\ \A other \in DOMAIN symtab' : symtab'[other].refs = Entry(other).refs
  <1> DEFINE e == Entry(name)
             f == [e EXCEPT !.referenced = TRUE]
  <1>3. IsEntry(f) /\ f.refs = e.refs
    BY EntryTyped, ReferencedEntry, Zenon
  <1>4. symtab' = With(name, f)
    BY DEF Referenced
  <1> HIDE DEF f
  <1>5. QED
    BY <1>3, <1>4, WithTable

\* The memory is larger than its zero page, and all of it has an address.
LEMMA MemoryFacts == MemSize \in Nat /\ MemSize >= 4 * Page /\ Page >= 4
  BY PageAssumption DEF MemSize

\* An opcode has one byte at most, what follows it one or two.
LEMMA Lengths ==
  ASSUME NEW rune
  PROVE  /\ Size(rune) \in {1, 2} /\ Len(Opcode(rune)) \in {0, 1}
         /\ Len(Placeholder(rune)) = Size(rune)
         /\ \A bytes \in {Placeholder(rune)} \union {Value(rune, from, to) : from, to \in Int} :
              Len(bytes) = Size(rune) /\ Len(Opcode(rune) \o bytes) = Len(Opcode(rune)) + Size(rune)
  <1> DEFINE X == {<<"LIT", 0>>, <<"LIT2", 0>>, <<"JMI", 0>>, <<"JCI", 0>>, <<"JSI", 0>>}
  <1>1. Size(rune) \in {1, 2}
    BY DEF Size
  <1>2. Opcode(rune) = <<>> \/ \E x \in X : Opcode(rune) = <<x>>
    BY DEF Opcode
  <1>3. \A b, c : Len(<<b>>) = 1 /\ Len(<<b, c>>) = 2
    OBVIOUS
  <1>4. ASSUME NEW bytes \in {Placeholder(rune)} \union {Value(rune, from, to) : from, to \in Int}
        PROVE  \/ \E b : bytes = <<b>> /\ Size(rune) = 1
               \/ \E b, c : bytes = <<b, c>> /\ Size(rune) = 2
    <2>1. CASE Size(rune) = 1
      BY <2>1 DEF Placeholder, Value
    <2>2. CASE Size(rune) = 2
      BY <2>2 DEF Placeholder, Value
    <2>3. QED
      BY <1>1, <2>1, <2>2
  <1>5. ASSUME NEW bytes \in {Placeholder(rune)} \union {Value(rune, from, to) : from, to \in Int}
        PROVE  Len(bytes) = Size(rune) /\ Len(Opcode(rune) \o bytes) = Len(Opcode(rune)) + Size(rune)
    <2> HIDE DEF X
    <2>1. PICK b, c : \/ bytes = <<b>> /\ Size(rune) = 1
                      \/ bytes = <<b, c>> /\ Size(rune) = 2
      BY <1>4
    <2> DEFINE S == X \union {b, c}
    <2>2. Opcode(rune) \in Seq(S)
      <3>1. CASE Opcode(rune) = <<>>
        BY <3>1
      <3>2. ASSUME NEW x \in X, Opcode(rune) = <<x>>
            PROVE  Opcode(rune) \in Seq(S)
        <4>1. x \in S
          BY <3>2
        <4> HIDE DEF S
        <4>2. <<x>> \in Seq(S)
          BY <4>1
        <4>3. QED
          BY <3>2, <4>2
      <3>3. QED
        BY <1>2, <3>1, <3>2
    <2>3. bytes \in Seq(S) /\ Len(bytes) = Size(rune)
      <3>1. b \in S /\ c \in S
        OBVIOUS
      <3> HIDE DEF S
      <3>2. <<b>> \in Seq(S) /\ <<b, c>> \in Seq(S)
        BY <3>1
      <3>3. CASE bytes = <<b>> /\ Size(rune) = 1
        BY <1>3, <3>2, <3>3
      <3>4. CASE bytes = <<b, c>> /\ Size(rune) = 2
        BY <1>3, <3>2, <3>4
      <3>5. QED
        BY <2>1, <3>3, <3>4
    <2> HIDE DEF S
    <2>4. QED
      BY <2>2, <2>3
  <1>6. Len(Opcode(rune)) \in {0, 1}
    <2> HIDE DEF X
    <2> QED
      BY <1>2, <1>3
  <1>7. QED
    BY <1>1, <1>5, <1>6

\* The address stays one.
LEMMA AfterTyped ==
  ASSUME Layout, NEW n \in Nat
  PROVE  After(n) \in 0 .. MemSize - 1
  <1>1. writeAddr + n \in Nat /\ MemSize \in Nat /\ MemSize > 0
    BY MemoryFacts DEF Layout
  <1>2. QED
    BY <1>1 DEF After

\* What fits neither begins in the zero page nor wraps around to it.
LEMMA FitsMeans ==
  ASSUME Layout, NEW n \in Nat, Fits(n)
  PROVE  n > 0 => writeAddr >= Page /\ writeAddr + n <= MemSize
  <1>1. MemSize \in Nat /\ MemSize >= 16 /\ Page \in Nat /\ Page >= 4 /\ writeAddr \in 0 .. MemSize - 1
    BY MemoryFacts, PageAssumption DEF Layout
  <1>2. \A i \in 0 .. n - 1 : After(i) >= Page
    BY DEF Fits
  <1>3. ASSUME n > 0
        PROVE  writeAddr >= Page
    <2>1. After(0) = writeAddr
      BY <1>1 DEF After
    <2>2. QED
      BY <1>2, <1>3, <2>1
  <1>4. ASSUME writeAddr + n > MemSize
        PROVE  FALSE
    <2>1. MemSize - writeAddr \in 0 .. n - 1
      BY <1>1, <1>4
    <2>2. After(MemSize - writeAddr) = 0
      BY <1>1 DEF After
    <2>3. QED
      BY <1>1, <1>2, <2>1, <2>2
  <1>5. QED
    BY <1>1, <1>3, <1>4

\* Writing what fits.
LEMMA EmitLayout ==
  ASSUME Layout, NEW bytes, Len(bytes) \in Nat, Fits(Len(bytes)), NEW syms, Emit(bytes, syms),
         numLabels' \in Nat
  PROVE  Layout'
  <1>1. writeAddr' \in 0 .. MemSize - 1
    BY AfterTyped DEF Emit
  <1>2. /\ DOMAIN rom' = DOMAIN rom \union (writeAddr .. writeAddr + Len(bytes) - 1)
        /\ rom' = [a \in DOMAIN rom' |-> rom'[a]]
    BY DEF Emit, Put
  <1>3. writeAddr .. writeAddr + Len(bytes) - 1 \subseteq Page .. MemSize - 1
    <2>1. writeAddr \in Nat /\ MemSize \in Nat /\ Page \in Nat
      BY MemoryFacts, PageAssumption DEF Layout
    <2>2. Len(bytes) > 0 => writeAddr >= Page /\ writeAddr + Len(bytes) <= MemSize
      BY FitsMeans
    <2>3. QED
      BY <2>1, <2>2
  <1>4. QED
    BY <1>1, <1>2, <1>3 DEF Layout

\* Writing a reference that fits; and where it is, is within the memory.
LEMMA EmitRefLayout ==
  ASSUME Layout, NEW rune, RefFits(rune), NEW id, numLabels' \in Nat,
         NEW bytes \in {Placeholder(rune)} \union {Value(rune, from, to) : from, to \in Int},
         EmitRef(rune, bytes, id)
  PROVE  Layout'
  <1>1. Len(Opcode(rune) \o bytes) = Len(Opcode(rune)) + Size(rune)
    BY Lengths
  <1> DEFINE all == Opcode(rune) \o bytes
  <1>2. Len(all) \in Nat
    BY <1>1, Lengths
  <1>3. Fits(Len(all))
    BY <1>1 DEF RefFits
  <1>4. \E syms : Emit(all, syms)
    BY DEF EmitRef
  <1> HIDE DEF all
  <1>5. QED
    BY <1>2, <1>3, <1>4, EmitLayout

\* A reference that fits is within the memory.
LEMMA RefInMemory ==
  ASSUME Layout, NEW rune, RefFits(rune)
  PROVE  /\ RefAddr(rune) \in 0 .. MemSize - 1
         /\ RefAddr(rune) >= Page /\ RefAddr(rune) + Size(rune) <= MemSize
  <1> DEFINE n == Len(Opcode(rune)) + Size(rune)
  <1>1. n \in Nat /\ n > 0 /\ Size(rune) \in {1, 2} /\ Len(Opcode(rune)) \in {0, 1}
    BY Lengths
  <1>2. writeAddr >= Page /\ writeAddr + n <= MemSize
    BY <1>1, FitsMeans DEF RefFits
  <1>3. MemSize \in Nat /\ Page \in Nat /\ writeAddr \in Nat
    BY MemoryFacts, PageAssumption DEF Layout
  <1>4. QED
    BY <1>1, <1>2, <1>3 DEF RefAddr

\* What is placed is between the zero page and the end of the memory.
LEMMA PlacedWithin == \A r \in Placed : Within(r, Page .. MemSize - 1)
  <1> SUFFICES ASSUME NEW r \in Placed
               PROVE  Within(r, Page .. MemSize - 1)
    OBVIOUS
  <1>1. /\ r.addr \in Int /\ r.addr >= Page /\ r.addr + Size(r.rune) <= MemSize
        /\ Size(r.rune) \in Int /\ MemSize \in Int /\ Page \in Int
    BY Lengths, MemoryFacts, PageAssumption DEF Placed, Pending
  <1>2. QED
    BY <1>1 DEF Within

\* A memory that has from value on what mem has not, and within D.
FilledFrom(filled, mem, value, D) ==
  /\ DOMAIN filled \subseteq D
  /\ filled = [a \in DOMAIN filled |-> filled[a]]
  /\ \A a \in DOMAIN filled :
       \/ a \in DOMAIN mem /\ filled[a] = mem[a]
       \/ \E i \in {1, 2} : filled[a] = value[i]

\* Filling in what was left, where it was.
LEMMA FillsPlaced ==
  ASSUME NEW D, NEW mem, DOMAIN mem \subseteq D, NEW r \in Placed, Within(r, D), NEW to \in Int,
         NEW filled, filled = Put(mem, r.addr, Value(r.rune, r.addr, to))
  PROVE  FilledFrom(filled, mem, Value(r.rune, r.addr, to), D)
  <1> DEFINE bytes == Value(r.rune, r.addr, to)
  <1>1. r.addr \in Nat /\ r.addr >= Page /\ r.addr + Size(r.rune) <= MemSize
    BY MemoryFacts DEF Placed, Pending
  <1>2. Len(bytes) = Size(r.rune) /\ Size(r.rune) \in {1, 2}
    BY <1>1, Lengths
  <1>3. filled = Put(mem, r.addr, bytes)
    OBVIOUS
  <1> HIDE DEF bytes
  <1>4. r.addr .. r.addr + Len(bytes) - 1 \subseteq D
    BY <1>2 DEF Within
  <1>5. /\ DOMAIN filled = DOMAIN mem \union (r.addr .. r.addr + Len(bytes) - 1)
        /\ filled = [a \in DOMAIN filled |-> filled[a]]
        /\ \A a \in DOMAIN filled :
             filled[a] = IF a \in r.addr .. r.addr + Len(bytes) - 1 THEN bytes[a - r.addr + 1] ELSE mem[a]
    BY <1>3 DEF Put
  <1>6. \A a \in r.addr .. r.addr + Len(bytes) - 1 : a - r.addr + 1 \in {1, 2}
    <2>1. \A at \in Int, n \in {1, 2} : \A a \in at .. at + n - 1 : a - at + 1 \in {1, 2}
      OBVIOUS
    <2>2. r.addr \in Int /\ Len(bytes) \in {1, 2}
      BY <1>1, <1>2
    <2>3. QED
      BY <2>1, <2>2
  <1>7. \A a \in DOMAIN filled :
          \/ a \in DOMAIN mem /\ filled[a] = mem[a]
          \/ \E i \in {1, 2} : filled[a] = bytes[i]
    BY <1>5, <1>6
  <1>8. DOMAIN filled \subseteq D
    BY <1>4, <1>5
  <1>9. FilledFrom(filled, mem, bytes, D)
    BY <1>5, <1>7, <1>8 DEF FilledFrom
  <1>10. QED
    BY <1>9 DEF bytes

\* Filling in several, one after the other.
LEMMA AllFilledIn ==
  ASSUME Layout, NEW refs \in Seq(Placed), NEW D, DOMAIN rom \subseteq D,
         \A i \in DOMAIN refs : Within(refs[i], D)
  PROVE  /\ DOMAIN FilledIn(refs) \subseteq D
         /\ FilledIn(refs) = [a \in DOMAIN FilledIn(refs) |-> FilledIn(refs)[a]]
  <1> DEFINE N == Len(refs)
             V == {rom[a] : a \in DOMAIN rom}
                    \union {Value(rune, from, to)[i] : rune \in Runes, from, to \in Int, i \in {1, 2}}
             X == UNION {[E -> V] : E \in SUBSET D}
             step == [p \in (1 .. N) \X X |-> FillIn(p[2], refs[p[1]])]
             Is(f) == f = [n \in 0 .. N |-> IF n = 0 THEN rom ELSE FillIn(f[n - 1], refs[n])]
  <1>1. N \in Nat /\ \A n \in 1 .. N : refs[n] \in Placed /\ Within(refs[n], D)
    OBVIOUS
  <1>2. ASSUME NEW mem \in X, NEW r \in Placed, Within(r, D)
        PROVE  FillIn(mem, r) \in X
    <2> DEFINE filled == Put(mem, r.addr, Value(r.rune, r.addr, writeAddr))
    <2>1. /\ DOMAIN mem \subseteq D /\ \A a \in DOMAIN mem : mem[a] \in V
      <3> HIDE DEF V
      <3> QED
        OBVIOUS
    <2>2. writeAddr \in Int /\ r.addr \in Int /\ r.rune \in Runes
      BY MemoryFacts DEF Layout, Placed, Pending
    <2>3. \A i \in {1, 2} : Value(r.rune, r.addr, writeAddr)[i] \in V
      BY <2>2
    <2>0. filled = Put(mem, r.addr, Value(r.rune, r.addr, writeAddr))
      OBVIOUS
    <2> HIDE DEF V, filled
    <2>4. FilledFrom(filled, mem, Value(r.rune, r.addr, writeAddr), D)
      BY <1>2, <2>0, <2>1, <2>2, FillsPlaced
    <2>5. \A a \in DOMAIN filled : filled[a] \in V
      BY <2>1, <2>3, <2>4 DEF FilledFrom
    <2>6. filled \in [DOMAIN filled -> V] /\ DOMAIN filled \subseteq D
      BY <2>4, <2>5 DEF FilledFrom
    <2>7. filled \in X
      BY <2>6
    <2> HIDE DEF X
    <2>8. QED
      BY <2>7 DEF FillIn, filled
  <1>3. rom \in X
    <2>1. rom \in [DOMAIN rom -> V]
      BY DEF Layout
    <2> HIDE DEF V
    <2>2. QED
      BY <2>1
  <1>4. step \in [(1 .. N) \X X -> X]
    <2> HIDE DEF X, N
    <2> QED
      BY <1>1, <1>2
  <1>5. PICK f \in [0 .. N -> X] : Follows(f, N, rom, step)
    <2> HIDE DEF N, X, step
    <2> QED
      BY <1>1, <1>3, <1>4, Recursion
  <1>6. ASSUME NEW n \in 1 .. N
        PROVE  f[n] = FillIn(f[n - 1], refs[n])
    <2> HIDE DEF X, N
    <2>1. n - 1 \in 0 .. N /\ <<n, f[n - 1]>> \in (1 .. N) \X X
      BY <1>1, <1>5
    <2>2. step[<<n, f[n - 1]>>] = FillIn(f[n - 1], refs[n])
      BY <2>1
    <2>3. QED
      BY <1>5, <2>2 DEF Follows
  <1>7. Is(f)
    <2> HIDE DEF X, N
    <2>1. f = [n \in 0 .. N |-> f[n]]
      BY <1>5
    <2>2. \A n \in 0 .. N : f[n] = IF n = 0 THEN rom ELSE FillIn(f[n - 1], refs[n])
      BY <1>1, <1>5, <1>6 DEF Follows
    <2>3. QED
      BY <2>1, <2>2
  <1> HIDE DEF X
  <1>8. PICK gs : FilledIn(refs) = gs[N] /\ Is(gs)
    <2> DEFINE chosen == CHOOSE g : Is(g)
    <2>1. FilledIn(refs) = chosen[N]
      BY DEF FilledIn
    <2> HIDE DEF Is
    <2>2. Is(chosen)
      BY <1>7
    <2> HIDE DEF chosen, N
    <2>3. QED
      BY <2>1, <2>2
  <1>10. gs[0] = rom /\ \A n \in 1 .. N : gs[n] = FillIn(gs[n - 1], refs[n])
    <2>0. Is(gs)
      BY <1>8
    <2> HIDE DEF N
    <2>1. gs = [n \in 0 .. N |-> IF n = 0 THEN rom ELSE FillIn(gs[n - 1], refs[n])]
      BY <2>0
    <2>2. 0 \in 0 .. N /\ \A n \in 1 .. N : n \in 0 .. N /\ n # 0
      BY <1>1
    <2>3. gs[0] = rom
      BY <2>1, <2>2
    <2>4. ASSUME NEW n \in 1 .. N
          PROVE  gs[n] = FillIn(gs[n - 1], refs[n])
      <3>1. n \in 0 .. N /\ n # 0
        BY <2>2
      <3> DEFINE next == [m \in 0 .. N |-> IF m = 0 THEN rom ELSE FillIn(gs[m - 1], refs[m])]
      <3>2. next[n] = FillIn(gs[n - 1], refs[n])
        BY <3>1
      <3>3. gs = next
        BY <2>1
      <3> HIDE DEF next
      <3>4. QED
        BY <3>2, <3>3
    <2>5. QED
      BY <2>3, <2>4
  <1>11. \A n \in 0 .. N : gs[n] \in X
    <2> HIDE DEF N, X
    <2>1. \A n \in 1 .. N : gs[n - 1] \in X => gs[n] \in X
      BY <1>1, <1>2, <1>10
    <2>2. QED
      BY <1>1, <1>3, <1>10, <2>1, AllAlong
  <1>12. FilledIn(refs) \in X
    <2> HIDE DEF X, N
    <2> QED
      BY <1>1, <1>8, <1>11
  <1>13. QED
    <2> HIDE DEF V
    <2> QED
      BY <1>12

-----------------------------------------------------------------------------
(***************************************************************************)
(* What the steps have in common.                                          *)
(***************************************************************************)

\* A token that is to be assembled.
LEMMA ReadsToken ==
  ASSUME Typing, NEW kind, Reads(kind)
  PROVE  /\ units # <<>> /\ HasToken(0) /\ IsToken(Token(0)) /\ Token(0).kind = kind
         /\ comment = 0 /\ defining = NoMacro
  BY TokenTyped DEF Typing, Reads

\* A reference or a call.
LEMMA ReadsRune ==
  ASSUME Typing, ReadsRef
  PROVE  units # <<>> /\ HasToken(0) /\ Rune \in Runes /\ comment = 0 /\ defining = NoMacro
  <1>1. units # <<>> /\ HasToken(0) /\ comment = 0 /\ defining = NoMacro
    BY DEF ReadsRef, Reads
  <1>2. CASE Reads("ref")
    BY <1>2, ReadsToken DEF IsToken, Rune, Runes
  <1>3. CASE Reads("word")
    BY <1>3 DEF Reads, Rune, Runes
  <1>4. QED
    BY <1>1, <1>2, <1>3 DEF ReadsRef

\* What is left once a token is assembled.
LEMMA Consumed ==
  ASSUME Typing, units # <<>>, comment = 0, defining = NoMacro, Consume,
         DOMAIN symtab \subseteq DOMAIN symtab', success' \in BOOLEAN
  PROVE  Phases' /\ Units' /\ Defining' /\ Inside'
  <1>1. Units' /\ units' # <<>>
    BY PastUnits DEF Typing, Consume, input
  <1>2. QED
    BY <1>1 DEF Typing, Consume, input, Phases, Defining, Inside

\* A node is taken.
LEMMA AllocTyped ==
  ASSUME Waits
  PROVE  NewNode \in Nat \ {0} /\ (Alloc => pool' \in Seq(Nat \ {0}) /\ nodes' \in Nat)
  <1>1. pool \in Seq(Nat \ {0}) /\ nodes \in Nat
    BY DEF Waits
  <1>2. pool # <<>> => Head(pool) \in Nat \ {0} /\ Tail(pool) \in Seq(Nat \ {0})
    BY <1>1
  <1>3. NewNode \in Nat \ {0}
    BY <1>1, <1>2 DEF NewNode
  <1>4. Alloc => pool' \in Seq(Nat \ {0}) /\ nodes' \in Nat
    <2>1. CASE pool = <<>>
      BY <1>1, <2>1 DEF Alloc
    <2>2. CASE pool # <<>>
      BY <1>1, <1>2, <2>2 DEF Alloc
    <2>3. QED
      BY <2>1, <2>2
  <1>5. QED
    BY <1>3, <1>4

\* A reference that waits, and where it does.
LEMMA WaitingTyped ==
  ASSUME Layout, Waits, NEW rune \in Runes, NEW id \in Nat \ {0}
  PROVE  /\ Waiting(writeAddr, rune, id) \in Pending
         /\ RefFits(rune) => Waiting(RefAddr(rune), rune, id) \in Placed
         /\ Waiting(writeAddr, rune, id).node = NewNode
         /\ Waiting(RefAddr(rune), rune, id).node = NewNode
  <1>1. NewNode \in Nat \ {0}
    BY AllocTyped
  <1>2. Waiting(writeAddr, rune, id) \in Pending
    BY <1>1 DEF Layout, Waiting, Pending
  <1>3. ASSUME RefFits(rune)
        PROVE  Waiting(RefAddr(rune), rune, id) \in Placed
    BY <1>1, <1>3, RefInMemory DEF Waiting, Placed, Pending
  <1>4. QED
    BY <1>2, <1>3 DEF Waiting

\* Nodes that are given back.
LEMMA ReleasedTyped ==
  ASSUME Waits, NEW refs \in Seq(Pending)
  PROVE  Released(refs) \in Seq(Nat \ {0})
  <1> DEFINE back == [i \in 1 .. Len(refs) |-> refs[Len(refs) + 1 - i].node]
  <1>1. \A i \in 1 .. Len(refs) : refs[Len(refs) + 1 - i] \in Pending
    OBVIOUS
  <1>2. back \in [1 .. Len(refs) -> Nat \ {0}]
    BY <1>1 DEF Pending
  <1>3. back \in Seq(Nat \ {0})
    BY <1>2
  <1> HIDE DEF back
  <1>4. back \o pool \in Seq(Nat \ {0})
    BY <1>3 DEF Waits
  <1>5. QED
    BY <1>4 DEF Released, back

\* What is written later is what waits.
LEMMA PlacedPending == Placed \subseteq Pending /\ Seq(Placed) \subseteq Seq(Pending)
  <1>1. Placed \subseteq Pending
    BY DEF Placed
  <1>2. QED
    BY <1>1

-----------------------------------------------------------------------------
(***************************************************************************)
(* Every step keeps the types.                                             *)
(***************************************************************************)

\* The parts that a step leaves alone.
LEMMA KeepsTable ==
  ASSUME Table, symtab' = symtab
  PROVE  Table'
  BY DEF Table

\* The references that wait, and those that are free.
LEMMA KeepsWaits ==
  ASSUME Waits, UNCHANGED lists
  PROVE  Waits'
  BY DEF Waits, lists

\* An opcode, a number or text.
LEMMA BytesTyped ==
  ASSUME Typing, Bytes
  PROVE  Typing'
  <1>1. /\ units # <<>> /\ IsToken(Token(0)) /\ Token(0).kind = "data"
        /\ comment = 0 /\ defining = NoMacro
    BY ReadsToken DEF Bytes
  <1>2. Table' /\ Waits'
    BY KeepsTable, KeepsWaits DEF Bytes, Typing
  <1>3. Phases' /\ Units' /\ Defining' /\ Inside'
    BY <1>1, Consumed DEF Bytes, Typing, Phases
  <1>4. Layout'
    <2> DEFINE bytes == Token(0).bytes
    <2>1. Len(bytes) \in Nat
      BY <1>1 DEF IsToken
    <2>2. Fits(Len(bytes)) /\ (\E syms : Emit(bytes, syms)) /\ numLabels' \in Nat
      BY DEF Bytes, Typing, Layout
    <2> HIDE DEF bytes
    <2>3. QED
      BY <2>1, <2>2, EmitLayout DEF Typing
  <1>5. QED
    BY <1>2, <1>3, <1>4 DEF Typing

\* A reference to the end of a lambda.
LEMMA LambdaRefTyped ==
  ASSUME Typing, LambdaRef
  PROVE  Typing'
  <1>1. units # <<>> /\ Rune \in Runes /\ comment = 0 /\ defining = NoMacro
    BY ReadsRune DEF LambdaRef
  <1>2. Table'
    BY KeepsTable DEF LambdaRef, Typing
  <1>3. Phases' /\ Units' /\ Defining' /\ Inside'
    BY <1>1, Consumed DEF LambdaRef, Typing, Phases
  <1>4. numLabels' = numLabels + 1 /\ numLabels' \in Nat \ {0} /\ RefFits(Rune)
    BY DEF LambdaRef, Typing, Layout
  <1>5. Layout'
    <2>1. \E id : EmitRef(Rune, Placeholder(Rune), id)
      BY DEF LambdaRef
    <2>2. QED
      BY <1>4, <2>1, EmitRefLayout DEF Typing
  <1>6. Waits'
    <2>1. Waiting(RefAddr(Rune), Rune, numLabels') \in Placed
      BY <1>1, <1>4, WaitingTyped DEF Typing
    <2>2. lambdas \in Seq(Placed)
      BY DEF Typing, Waits
    <2> DEFINE r == Waiting(RefAddr(Rune), Rune, numLabels')
    <2> HIDE DEF r
    <2>3. <<r>> \o lambdas \in Seq(Placed)
      BY <2>1, <2>2 DEF r
    <2>4. pool' \in Seq(Nat \ {0}) /\ nodes' \in Nat
      BY AllocTyped DEF LambdaRef, Typing
    <2>5. QED
      BY <2>3, <2>4 DEF r, LambdaRef, Typing, Waits
  <1>7. QED
    BY <1>2, <1>3, <1>5, <1>6 DEF Typing

\* An anonymous label is used up.
LEMMA PopTyped ==
  ASSUME Waits, atLabels # <<>>, PopAtLabel
  PROVE  Waits'
  <1>1. Head(atLabels) \in Pending /\ Tail(atLabels) \in Seq(Pending)
    BY DEF Waits
  <1>2. <<Head(atLabels)>> \in Seq(Pending)
    BY <1>1
  <1>3. Released(<<Head(atLabels)>>) \in Seq(Nat \ {0})
    BY <1>2, ReleasedTyped
  <1>4. QED
    BY <1>1, <1>3 DEF Waits, PopAtLabel

\* A reference to what is known.
LEMMA ReferLayout ==
  ASSUME Layout, NEW label, label.addr \in Int, Refer(label), numLabels' = numLabels
  PROVE  Layout'
  <1>1. RefFits(Rune)
    BY DEF Refer, CanRefer
  <1>2. RefAddr(Rune) \in Int
    BY <1>1, RefInMemory, MemoryFacts
  <1>3. Value(Rune, RefAddr(Rune), label.addr) \in {Value(Rune, from, to) : from, to \in Int}
    BY <1>2
  <1>4. EmitRef(Rune, Value(Rune, RefAddr(Rune), label.addr), label.id)
    BY DEF Refer
  <1>5. numLabels' \in Nat
    BY DEF Layout
  <1> DEFINE bytes == Value(Rune, RefAddr(Rune), label.addr)
  <1> HIDE DEF bytes
  <1>6. QED
    BY <1>1, <1>3, <1>4, <1>5, EmitRefLayout DEF bytes

\* A reference to an anonymous label.
LEMMA AtRefTyped ==
  ASSUME Typing, AtRef
  PROVE  Typing'
  <1>1. units # <<>> /\ comment = 0 /\ defining = NoMacro
    BY ReadsRune DEF AtRef
  <1>2. Table'
    BY KeepsTable DEF AtRef, Typing
  <1>3. Phases' /\ Units' /\ Defining' /\ Inside'
    BY <1>1, Consumed DEF AtRef, Typing, Phases
  <1>4. Head(atLabels).addr \in Int
    <2>1. Head(atLabels) \in Pending
      BY DEF AtRef, Typing, Waits
    <2>2. QED
      BY <2>1, MemoryFacts DEF Pending
  <1>5. Layout'
    BY <1>4, ReferLayout DEF AtRef, Typing
  <1>6. Waits'
    BY PopTyped DEF AtRef, Typing
  <1>7. QED
    BY <1>2, <1>3, <1>5, <1>6 DEF Typing

\* A reference to a label that is known.
LEMMA BackwardRefTyped ==
  ASSUME Typing, BackwardRef
  PROVE  Typing'
  <1>1. units # <<>> /\ comment = 0 /\ defining = NoMacro
    BY ReadsRune DEF BackwardRef
  <1> DEFINE name == FullName(RefTo)
  <1>2. Table' /\ DOMAIN symtab \subseteq DOMAIN symtab'
    BY ReferencedTyped DEF BackwardRef, Typing
  <1>3. Phases' /\ Units' /\ Defining' /\ Inside'
    BY <1>1, <1>2, Consumed DEF BackwardRef, Typing, Phases
  <1>4. Entry(name).addr \in Int
    <2> HIDE DEF name
    <2>1. IsEntry(Entry(name))
      BY EntryTyped DEF Typing
    <2>2. QED
      BY <2>1, MemoryFacts DEF IsEntry
  <1>5. Layout'
    BY <1>4, ReferLayout DEF BackwardRef, Typing
  <1>6. Waits'
    BY KeepsWaits DEF BackwardRef, Typing
  <1>7. QED
    BY <1>2, <1>3, <1>5, <1>6 DEF Typing

\* One more reference waits for a label.
LEMMA ForwardEntry ==
  ASSUME NEW e, IsEntry(e), NEW r \in Placed
  PROVE  LET f == Forward(e, r) IN IsEntry(f) /\ f.refs = <<r>> \o e.refs /\ f.type = "forward"
  <1> DEFINE f == Forward(e, r)
  <1>1. <<r>> \o e.refs \in Seq(Placed) /\ r.id \in Nat \ {0}
    BY DEF IsEntry, Placed, Pending
  <1>2. /\ f \in [type : {"unknown", "macro", "label", "forward"}, id : Nat, addr : 0 .. MemSize - 1,
                  refs : Seq(Placed), body : {e.body}, referenced : BOOLEAN]
        /\ f.type = "forward" /\ f.id = r.id /\ f.refs = <<r>> \o e.refs /\ f.body = e.body
    BY <1>1 DEF IsEntry, Forward
  <1> HIDE DEF f
  <1>3. IsEntry(f) /\ f.refs = <<r>> \o e.refs /\ f.type = "forward"
    BY <1>1, <1>2 DEF IsEntry
  <1>4. QED
    BY <1>3 DEF f

\* A reference to what is not yet known, which is in front of those that wait already.
LEMMA ForwardRefTyped ==
  ASSUME Typing, ForwardRef
  PROVE  /\ Typing'
         /\ LET name == FullName(RefTo)
                e == Entry(name)
                r == Waiting(RefAddr(Rune), Rune, IdFor(e))
            IN  /\ r.node = NewNode
                /\ DOMAIN symtab' = DOMAIN symtab \union {name}
                /\ \A other \in DOMAIN symtab' :
                     symtab'[other].refs = IF other = name THEN <<r>> \o e.refs ELSE Entry(other).refs
  <1> DEFINE name == FullName(RefTo)
             e == Entry(name)
             id == IdFor(e)
             r == Waiting(RefAddr(Rune), Rune, id)
             f == Forward(e, r)
  <1>1. units # <<>> /\ Rune \in Runes /\ comment = 0 /\ defining = NoMacro
    BY ReadsRune DEF ForwardRef
  <1>2. IsEntry(e)
    BY EntryTyped DEF Typing
  <1>3. /\ e.type \in {"unknown", "forward"} /\ RefFits(Rune) /\ symtab' = With(name, f)
        /\ EmitRef(Rune, Placeholder(Rune), id)
        /\ numLabels' = IF e.type = "unknown" THEN numLabels + 1 ELSE numLabels
    BY DEF ForwardRef
  <1>4. id \in Nat \ {0}
    <2> HIDE DEF e
    <2> QED
      BY <1>2, <1>3 DEF Typing, Layout, IdFor, IsEntry
  <1>5. r \in Placed /\ r.node = NewNode
    <2> HIDE DEF id
    <2> QED
      BY <1>1, <1>3, <1>4, WaitingTyped DEF Typing
  <1>6. IsEntry(f) /\ f.refs = <<r>> \o e.refs
    <2> HIDE DEF e, r
    <2> QED
      BY <1>2, <1>5, ForwardEntry
  <1>7. /\ Table' /\ DOMAIN symtab' = DOMAIN symtab \union {name}
        /\ \A other \in DOMAIN symtab' : symtab'[other] = IF other = name THEN f ELSE Entry(other)
    <2> HIDE DEF f, name
    <2> QED
      BY <1>3, <1>6, WithTable DEF Typing
  <1>8. Phases' /\ Units' /\ Defining' /\ Inside'
    <2> HIDE DEF name
    <2> QED
      BY <1>1, <1>7, Consumed DEF ForwardRef, Typing, Phases
  <1>9. Layout'
    <2>1. numLabels' \in Nat
      BY <1>3 DEF Typing, Layout
    <2> HIDE DEF id
    <2>2. QED
      BY <1>3, <2>1, EmitRefLayout DEF Typing
  <1>10. Waits'
    BY AllocTyped DEF ForwardRef, Typing, Waits
  <1>11. Typing'
    BY <1>7, <1>8, <1>9, <1>10 DEF Typing
  <1>12. \A other \in DOMAIN symtab' :
           symtab'[other].refs = IF other = name THEN <<r>> \o e.refs ELSE Entry(other).refs
    <2> HIDE DEF f, name, e, r
    <2> QED
      BY <1>6, <1>7
  <1>13. QED
    BY <1>5, <1>7, <1>11, <1>12

\* What waits for a label is no longer waiting.
LEMMA DefinedEntry ==
  ASSUME Layout, NEW e, IsEntry(e), e.type \in {"unknown", "forward"}
  PROVE  LET f == Defined(e) IN IsEntry(f) /\ f.refs = <<>> /\ f.type = "label"
  <1> DEFINE f == Defined(e)
  <1>1. IdFor(e) \in Nat \ {0} /\ <<>> \in Seq(Placed) /\ writeAddr \in 0 .. MemSize - 1
    BY DEF IsEntry, IdFor, Layout
  <1>2. /\ f \in [type : {"unknown", "macro", "label", "forward"}, id : Nat, addr : 0 .. MemSize - 1,
                  refs : Seq(Placed), body : {e.body}, referenced : BOOLEAN]
        /\ f.type = "label" /\ f.id = IdFor(e) /\ f.refs = <<>> /\ f.body = e.body
    BY <1>1 DEF IsEntry, Defined
  <1> HIDE DEF f
  <1>3. IsEntry(f) /\ f.refs = <<>> /\ f.type = "label"
    BY <1>1, <1>2 DEF IsEntry
  <1>4. QED
    BY <1>3 DEF f

\* A label that is new, for which nothing waits any more.
LEMMA RegisterTyped ==
  ASSUME Typing, units # <<>>, comment = 0, defining = NoMacro, NEW name, Register(name)
  PROVE  /\ Typing'
         /\ Entry(name).refs \in Seq(Pending)
         /\ DOMAIN symtab' = DOMAIN symtab \union {name}
         /\ \A other \in DOMAIN symtab' :
              symtab'[other].refs = IF other = name THEN <<>> ELSE Entry(other).refs
  <1> DEFINE e == Entry(name)
             f == Defined(e)
  <1>1. IsEntry(e) /\ e.type \in {"unknown", "forward"}
    BY EntryTyped DEF Typing, Register, CanRegister
  <1>2. IsEntry(f) /\ f.refs = <<>>
    <2> HIDE DEF e
    <2> QED
      BY <1>1, DefinedEntry DEF Typing
  <1>3. symtab' = With(name, f)
    BY DEF Register
  <1>4. /\ Table' /\ DOMAIN symtab' = DOMAIN symtab \union {name}
        /\ \A other \in DOMAIN symtab' : symtab'[other] = IF other = name THEN f ELSE Entry(other)
    <2> HIDE DEF f
    <2> QED
      BY <1>2, <1>3, WithTable DEF Typing
  <1>5. e.refs \in Seq(Placed)
    <2> HIDE DEF e
    <2> QED
      BY <1>1 DEF IsEntry
  <1>6. success' \in BOOLEAN
    BY DEF Register, Typing, Phases
  <1>7. Phases' /\ Units' /\ Defining' /\ Inside'
    BY <1>4, <1>6, Consumed DEF Register
  <1>8. Layout'
    <2>1. rom' = FilledIn(e.refs) /\ writeAddr' = writeAddr /\ numLabels' \in Nat
      BY DEF Register, Typing, Layout
    <2> HIDE DEF e
    <2>2. \A i \in DOMAIN e.refs : Within(e.refs[i], Page .. MemSize - 1)
      BY <1>5, PlacedWithin
    <2>3. Layout /\ DOMAIN rom \subseteq Page .. MemSize - 1
      BY DEF Typing, Layout
    <2>4. DOMAIN rom' \subseteq Page .. MemSize - 1 /\ rom' = [a \in DOMAIN rom' |-> rom'[a]]
      BY <1>5, <2>1, <2>2, <2>3, AllFilledIn
    <2>5. QED
      BY <2>1, <2>3, <2>4 DEF Layout
  <1>9. e.refs \in Seq(Pending)
    BY <1>5, PlacedPending
  <1>10. Waits'
    <2>1. pool' = Released(e.refs) /\ UNCHANGED <<lambdas, atLabels, nodes>>
      BY DEF Register
    <2> HIDE DEF e
    <2>2. QED
      BY <1>9, <2>1, ReleasedTyped DEF Typing, Waits
  <1>11. \A other \in DOMAIN symtab' :
           symtab'[other].refs = IF other = name THEN <<>> ELSE Entry(other).refs
    <2> HIDE DEF e, f
    <2> QED
      BY <1>2, <1>4
  <1>12. QED
    BY <1>4, <1>7, <1>8, <1>9, <1>10, <1>11 DEF Typing

\* An anonymous label.
LEMMA AtLabelTyped ==
  ASSUME Typing, AtLabel
  PROVE  Typing'
  <1>1. units # <<>> /\ comment = 0 /\ defining = NoMacro
    BY ReadsToken DEF AtLabel
  <1>2. Table'
    BY KeepsTable DEF AtLabel, Typing
  <1>3. Phases' /\ Units' /\ Defining' /\ Inside'
    BY <1>1, Consumed DEF AtLabel, Typing, Phases
  <1>4. numLabels' \in Nat \ {0} /\ Layout'
    <2>1. numLabels' = numLabels + 1 /\ UNCHANGED <<writeAddr, rom>>
      BY DEF AtLabel
    <2>2. QED
      BY <2>1 DEF Typing, Layout
  <1>5. Waits'
    <2> DEFINE r == Waiting(writeAddr, "", numLabels')
    <2>1. r \in Pending
      BY <1>4, WaitingTyped DEF Typing, Runes
    <2>2. atLabels' = <<r>> \o atLabels /\ lambdas' = lambdas
      BY DEF AtLabel
    <2>3. pool' \in Seq(Nat \ {0}) /\ nodes' \in Nat
      BY AllocTyped DEF AtLabel, Typing
    <2> HIDE DEF r
    <2>4. <<r>> \o atLabels \in Seq(Pending)
      BY <2>1 DEF Typing, Waits
    <2>5. QED
      BY <2>2, <2>3, <2>4 DEF Typing, Waits
  <1>6. QED
    BY <1>2, <1>3, <1>4, <1>5 DEF Typing

\* The end of a lambda.
LEMMA LambdaCloseTyped ==
  ASSUME Typing, LambdaClose
  PROVE  Typing'
  <1> DEFINE r == Head(lambdas)
  <1>1. units # <<>> /\ comment = 0 /\ defining = NoMacro
    BY ReadsToken DEF LambdaClose
  <1>2. Table'
    BY KeepsTable DEF LambdaClose, Typing
  <1>3. Phases' /\ Units' /\ Defining' /\ Inside'
    BY <1>1, Consumed DEF LambdaClose, layout, Typing, Phases
  <1>4. r \in Placed /\ Tail(lambdas) \in Seq(Placed)
    <2>1. lambdas \in Seq(Placed) /\ lambdas # <<>>
      BY DEF LambdaClose, CanClose, Typing, Waits
    <2>2. QED
      BY <2>1
  <1>5. Layout'
    <2>1. rom' = Put(rom, r.addr, Value(r.rune, r.addr, writeAddr)) /\ UNCHANGED layout
      BY DEF LambdaClose
    <2>2. writeAddr \in Int
      BY MemoryFacts DEF Typing, Layout
    <2> HIDE DEF r
    <2>3. DOMAIN rom' \subseteq Page .. MemSize - 1 /\ rom' = [a \in DOMAIN rom' |-> rom'[a]]
      <3>1. Within(r, Page .. MemSize - 1) /\ DOMAIN rom \subseteq Page .. MemSize - 1
        BY <1>4, PlacedWithin DEF Typing, Layout
      <3>2. FilledFrom(rom', rom, Value(r.rune, r.addr, writeAddr), Page .. MemSize - 1)
        BY <1>4, <2>1, <2>2, <3>1, FillsPlaced
      <3>3. QED
        BY <3>2 DEF FilledFrom
    <2>4. QED
      BY <2>1, <2>3 DEF Typing, Layout, layout
  <1>6. Waits'
    <2>1. lambdas' = Tail(lambdas) /\ pool' = Released(<<r>>) /\ UNCHANGED <<atLabels, nodes>>
      BY DEF LambdaClose
    <2> HIDE DEF r
    <2>2. <<r>> \in Seq(Pending)
      BY <1>4, PlacedPending
    <2>3. Released(<<r>>) \in Seq(Nat \ {0})
      BY <2>2, ReleasedTyped DEF Typing
    <2>4. QED
      BY <1>4, <2>1, <2>3 DEF Typing, Waits
  <1>7. QED
    BY <1>2, <1>3, <1>5, <1>6 DEF Typing

\* The address of padding.
LEMMA PaddedTyped ==
  ASSUME Layout, NEW n \in 0 .. MemSize - 1
  PROVE  Padded(n) \in 0 .. MemSize - 1
  BY AfterTyped, MemoryFacts DEF Padded

\* Padding by a number.
LEMMA PaddingTyped ==
  ASSUME Typing, Padding
  PROVE  Typing'
  <1>1. /\ units # <<>> /\ comment = 0 /\ defining = NoMacro
        /\ IsToken(Token(0)) /\ Token(0).kind = "pad"
    BY ReadsToken DEF Padding
  <1>2. Table' /\ Waits'
    BY KeepsTable, KeepsWaits DEF Padding, Typing
  <1>3. Phases' /\ Units' /\ Defining' /\ Inside'
    BY <1>1, Consumed DEF Padding, Typing, Phases
  <1>4. Layout'
    <2>1. Token(0).n \in 0 .. MemSize - 1
      BY <1>1 DEF IsToken
    <2>2. Padded(Token(0).n) \in 0 .. MemSize - 1
      BY <2>1, PaddedTyped DEF Typing
    <2>3. QED
      BY <2>2 DEF Padding, Typing, Layout
  <1>5. QED
    BY <1>2, <1>3, <1>4 DEF Typing

\* Padding to an anonymous label.
LEMMA PaddingToAtTyped ==
  ASSUME Typing, PaddingToAt
  PROVE  Typing'
  <1>1. units # <<>> /\ comment = 0 /\ defining = NoMacro
    BY ReadsToken DEF PaddingToAt
  <1>2. Table' /\ Waits'
    BY KeepsTable, PopTyped DEF PaddingToAt, Typing
  <1>3. Phases' /\ Units' /\ Defining' /\ Inside'
    BY <1>1, Consumed DEF PaddingToAt, Typing, Phases
  <1>4. Layout'
    <2>1. Head(atLabels) \in Pending
      BY DEF PaddingToAt, Typing, Waits
    <2>2. Padded(Head(atLabels).addr) \in 0 .. MemSize - 1
      BY <2>1, PaddedTyped DEF Typing, Pending
    <2>3. QED
      BY <2>2 DEF PaddingToAt, Typing, Layout
  <1>5. QED
    BY <1>2, <1>3, <1>4 DEF Typing

\* Padding to a label.
LEMMA PaddingToTyped ==
  ASSUME Typing, PaddingTo
  PROVE  Typing'
  <1> DEFINE name == FullName(Token(0).to)
  <1>1. units # <<>> /\ comment = 0 /\ defining = NoMacro
    BY ReadsToken DEF PaddingTo
  <1>2. Table' /\ DOMAIN symtab \subseteq DOMAIN symtab'
    BY ReferencedTyped DEF PaddingTo, Typing
  <1>3. Phases' /\ Units' /\ Defining' /\ Inside'
    BY <1>1, <1>2, Consumed DEF PaddingTo, Typing, Phases
  <1>4. Waits'
    BY KeepsWaits DEF PaddingTo, Typing
  <1>5. Layout'
    <2>1. IsEntry(Entry(name))
      BY EntryTyped DEF Typing
    <2>2. writeAddr' = Padded(Entry(name).addr) /\ UNCHANGED <<numLabels, rom>>
      BY DEF PaddingTo
    <2> HIDE DEF name
    <2>3. Padded(Entry(name).addr) \in 0 .. MemSize - 1
      BY <2>1, PaddedTyped DEF Typing, IsEntry
    <2>4. QED
      BY <2>2, <2>3 DEF Typing, Layout
  <1>6. QED
    BY <1>2, <1>3, <1>4, <1>5 DEF Typing

\* Steps that leave all but what is read alone.
LEMMA KeepsOutput ==
  ASSUME Typing, UNCHANGED <<layout, lists, output>>
  PROVE  Layout' /\ Waits'
  BY KeepsWaits DEF Typing, Layout, layout, output

\* A bracket.
LEMMA SkipTyped ==
  ASSUME Typing, Skip
  PROVE  Typing'
  <1>1. units # <<>>
    BY DEF Skip, Reads
  <1>2. /\ UNCHANGED <<files, phase, success, comment, defining, layout, symtab, lists, output>>
        /\ units' = Past(1)
    BY DEF Skip, input
  <1>3. Layout' /\ Waits' /\ Table'
    BY <1>2, KeepsOutput, KeepsTable DEF Typing
  <1>4. Units' /\ units' # <<>>
    BY <1>1, <1>2, PastUnits DEF Typing
  <1>5. QED
    BY <1>2, <1>3, <1>4 DEF Typing, Phases, Defining, Entry, Inside

\* A token of a comment.
LEMMA CommentTyped ==
  ASSUME Typing, BeginComment \/ InComment
  PROVE  Typing'
  <1>1. units # <<>>
    BY DEF BeginComment, InComment, Typing, Inside
  <1>2. /\ UNCHANGED <<files, phase, success, defining, layout, symtab, lists, output>>
        /\ units' = Past(1)
    BY DEF BeginComment, InComment, input
  <1>3. Layout' /\ Waits' /\ Table'
    BY <1>2, KeepsOutput, KeepsTable DEF Typing
  <1>4. Units' /\ units' # <<>>
    BY <1>1, <1>2, PastUnits DEF Typing
  <1>5. comment' \in Nat
    <2>1. CASE BeginComment
      BY <2>1 DEF BeginComment
    <2>2. CASE InComment
      <3>1. comment \in Nat /\ comment > 0
        BY <2>2 DEF InComment, Typing, Phases
      <3>2. comment' \in {comment, comment + 1, comment - 1}
        BY <2>2 DEF InComment
      <3>3. QED
        BY <3>1, <3>2
    <2>3. QED
      BY <2>1, <2>2
  <1>6. QED
    BY <1>2, <1>3, <1>4, <1>5 DEF Typing, Phases, Defining, Entry, Inside

\* The name of a macro is as yet unknown, and known to nothing that waits.
LEMMA DefineTyped ==
  ASSUME Typing, Define
  PROVE  /\ Typing' /\ UNCHANGED lists
         /\ DOMAIN symtab \subseteq DOMAIN symtab'
         /\ \A name \in DOMAIN symtab' : symtab'[name].refs = Entry(name).refs
  <1> DEFINE name == Token(0).name
  <1>1. units # <<>>
    BY DEF Define, Reads
  <1>2. /\ UNCHANGED <<files, phase, success, comment, layout, lists, output>>
        /\ units' = Past(1) /\ symtab' = With(name, Unknown)
        /\ defining' = [name |-> name, depth |-> 0] /\ Entry(name).type = "unknown"
    BY DEF Define, CanDefine, input
  <1> HIDE DEF name
  <1>3. Layout' /\ Waits'
    BY <1>2, KeepsOutput
  <1>4. /\ Table' /\ DOMAIN symtab' = DOMAIN symtab \union {name}
        /\ \A other \in DOMAIN symtab' : symtab'[other] = IF other = name THEN Unknown ELSE Entry(other)
    BY <1>2, EntryTyped, WithTable DEF Typing
  <1>5. Units' /\ units' # <<>>
    BY <1>1, <1>2, <1>4, PastUnits DEF Typing
  <1>6. Unknown.refs = <<>> /\ Unknown.type = "unknown"
    BY DEF Unknown
  <1>7. Entry(name).refs = <<>>
    BY <1>2, EntryTyped DEF Typing, IsEntry
  <1>8. \A other \in DOMAIN symtab' : symtab'[other].refs = Entry(other).refs
    BY <1>4, <1>6, <1>7
  <1>9. Defining'
    <2>1. defining'.name = name /\ defining'.depth = 0
      BY <1>2
    <2>2. Entry(defining.name)' = symtab'[name]
      BY <1>4, <2>1 DEF Entry
    <2>3. symtab'[name] = Unknown
      BY <1>4
    <2>4. QED
      BY <1>2, <1>6, <2>1, <2>2, <2>3 DEF Defining
  <1>10. Typing'
    BY <1>2, <1>3, <1>4, <1>5, <1>9 DEF Typing, Phases, Inside
  <1>11. QED
    BY <1>2, <1>4, <1>8, <1>10

\* What is between the name of a macro and its body.
LEMMA HeadTyped ==
  ASSUME Typing, DefinitionHead
  PROVE  /\ Typing' /\ UNCHANGED lists
         /\ DOMAIN symtab \subseteq DOMAIN symtab'
         /\ \A name \in DOMAIN symtab' : symtab'[name].refs = Entry(name).refs
  <1> DEFINE name == defining.name
             macro == [Unknown EXCEPT !.type = "macro"]
  <1>1. units # <<>> /\ defining # NoMacro
    BY DEF DefinitionHead, ReadsDefinition, Typing, Inside
  <1>2. /\ UNCHANGED <<files, phase, success, comment, layout, lists, output>> /\ units' = Past(1)
        /\ \/ UNCHANGED <<defining, symtab>>
           \/ defining' = [defining EXCEPT !.depth = 1] /\ symtab' = With(name, macro)
    BY DEF DefinitionHead, input
  <1>3. Layout' /\ Waits'
    BY <1>2, KeepsOutput
  <1>4. ASSUME Table', DOMAIN symtab \subseteq DOMAIN symtab', Defining'
        PROVE  Typing'
    <2>1. Units' /\ units' # <<>>
      BY <1>1, <1>2, <1>4, PastUnits DEF Typing
    <2>2. QED
      BY <1>2, <1>3, <1>4, <2>1 DEF Typing, Phases, Inside
  <1>5. CASE UNCHANGED <<defining, symtab>>
    <2>1. Table' /\ Defining'
      BY <1>5, KeepsTable DEF Typing, Defining, Entry
    <2>2. QED
      BY <1>2, <1>4, <1>5, <2>1 DEF Entry
  <1>6. CASE defining' = [defining EXCEPT !.depth = 1] /\ symtab' = With(name, macro)
    <2>1. IsEntry(macro) /\ macro.refs = <<>> /\ macro.type = "macro"
      <3>1. IsEntry(Unknown)
        BY EntryTyped DEF Typing
      <3>2. /\ macro \in [type : {"unknown", "macro", "label", "forward"}, id : Nat, addr : 0 .. MemSize - 1,
                      refs : Seq(Placed), body : {Unknown.body}, referenced : BOOLEAN]
            /\ macro.refs = <<>> /\ macro.type = "macro" /\ macro.body = Unknown.body
        BY <3>1 DEF IsEntry, Unknown
      <3> HIDE DEF macro
      <3>3. QED
        BY <3>1, <3>2 DEF IsEntry
    <2>2. Entry(name).refs = <<>>
      BY <1>1, EntryTyped DEF Typing, Defining, IsEntry
    <2> HIDE DEF macro, name
    <2>3. /\ Table' /\ DOMAIN symtab' = DOMAIN symtab \union {name}
          /\ \A other \in DOMAIN symtab' : symtab'[other] = IF other = name THEN macro ELSE Entry(other)
      BY <1>6, <2>1, WithTable DEF Typing
    <2>4. Defining'
      <3>1. defining' = [name |-> name, depth |-> 1]
        <4>1. defining = [name |-> defining.name, depth |-> defining.depth]
          BY DEF Typing, Defining
        <4>2. QED
          BY <1>6, <4>1 DEF name
      <3>2. defining'.name = name /\ defining'.depth = 1
        BY <3>1
      <3>3. Entry(defining.name)' = symtab'[name]
        BY <2>3, <3>2 DEF Entry
      <3>4. symtab'[name] = macro
        BY <2>3
      <3>5. QED
        BY <2>1, <3>1, <3>2, <3>3, <3>4 DEF Defining
    <2>5. \A other \in DOMAIN symtab' : symtab'[other].refs = Entry(other).refs
      BY <2>1, <2>2, <2>3
    <2>6. QED
      BY <1>2, <1>4, <2>3, <2>4, <2>5
  <1>7. QED
    BY <1>2, <1>5, <1>6

\* A token of the body of a macro, which nothing waits for.
LEMMA BodyTyped ==
  ASSUME Typing, DefinitionBody
  PROVE  /\ Typing' /\ UNCHANGED lists /\ DOMAIN symtab' = DOMAIN symtab
         /\ \A name \in DOMAIN symtab' : symtab'[name].refs = Entry(name).refs
  <1> DEFINE name == defining.name
             token == Token(0)
             grown == [symtab EXCEPT ![name].body = Append(@, token)]
  <1>1. /\ units # <<>> /\ HasToken(0) /\ defining # NoMacro /\ IsToken(token)
        /\ Entry(name).type # "forward"
    BY TokenTyped DEF DefinitionBody, ReadsDefinition, Typing, Inside, Defining
  <1>2. /\ UNCHANGED <<files, phase, success, comment, layout, lists, output>> /\ units' = Past(1)
        /\ \/ defining' = NoMacro /\ symtab' = symtab
           \/ (\E d : defining' = [defining EXCEPT !.depth = d]) /\ symtab' = grown
    BY DEF DefinitionBody, input
  <1>3. Layout' /\ Waits'
    BY <1>2, KeepsOutput
  <1>4. /\ Table' /\ DOMAIN symtab' = DOMAIN symtab
        /\ \A other \in DOMAIN symtab' :
             symtab'[other].refs = symtab[other].refs /\ symtab'[other].type = symtab[other].type
    <2>1. CASE symtab' = symtab
      BY <2>1, KeepsTable DEF Typing
    <2>2. CASE symtab' = grown
      <3> HIDE DEF name, token
      <3>1. symtab = [other \in DOMAIN symtab |-> symtab[other]]
        BY DEF Typing, Table
      <3>2. /\ DOMAIN grown = DOMAIN symtab
            /\ grown = [other \in DOMAIN grown |-> grown[other]]
            /\ \A other \in DOMAIN symtab : other # name => grown[other] = symtab[other]
        BY <3>1
      <3>3. ASSUME name \in DOMAIN symtab
            PROVE  /\ IsEntry(grown[name])
                   /\ grown[name].refs = symtab[name].refs /\ grown[name].type = symtab[name].type
        <4> DEFINE e == symtab[name]
                   text == Append(e.body, token)
                   f == [e EXCEPT !.body = text]
        <4>1. IsEntry(e)
          BY <3>3 DEF Typing, Table
        <4>2. grown[name] = f
          BY <3>1, <3>3
        <4>3. IsText(text)
          BY <1>1, <4>1, TextGrows DEF IsEntry, token
        <4> HIDE DEF text, e
        <4>4. /\ f \in [type : {"unknown", "macro", "label", "forward"}, id : Nat,
                        addr : 0 .. MemSize - 1, refs : Seq(Placed), body : {text}, referenced : BOOLEAN]
              /\ f.type = e.type /\ f.id = e.id /\ f.refs = e.refs /\ f.body = text
          BY <4>1 DEF IsEntry
        <4> HIDE DEF f
        <4>5. IsEntry(f) /\ f.refs = e.refs /\ f.type = e.type
          BY <4>1, <4>3, <4>4 DEF IsEntry
        <4> HIDE DEF grown
        <4>6. QED
          BY <4>2, <4>5 DEF e
      <3> HIDE DEF grown
      <3>4. \A other \in DOMAIN grown :
              /\ IsEntry(grown[other])
              /\ grown[other].refs = symtab[other].refs /\ grown[other].type = symtab[other].type
        BY <3>2, <3>3 DEF Typing, Table
      <3>5. QED
        BY <2>2, <3>2, <3>4 DEF Table
    <2>3. QED
      BY <1>2, <2>1, <2>2
  <1>5. Units' /\ units' # <<>>
    BY <1>1, <1>2, <1>4, PastUnits DEF Typing
  <1>6. Defining'
    <2>1. CASE defining' = NoMacro
      BY <2>1 DEF Defining, NoMacro
    <2>2. CASE \E d : defining' = [defining EXCEPT !.depth = d]
      <3>1. PICK d : defining' = [defining EXCEPT !.depth = d]
        BY <2>2
      <3>2. defining' = [name |-> name, depth |-> d]
        BY <3>1 DEF Typing, Defining
      <3>3. defining'.name = name /\ defining'.depth = d
        BY <3>2
      <3>4. Entry(defining.name)' = IF name \in DOMAIN symtab THEN symtab'[name] ELSE Unknown
        BY <1>4, <3>3 DEF Entry
      <3>5. Entry(defining.name)'.type = Entry(name).type
        BY <1>4, <3>4 DEF Entry
      <3>6. QED
        BY <1>1, <3>2, <3>3, <3>5 DEF Defining
    <2>3. QED
      BY <1>2, <2>1, <2>2
  <1>7. Typing'
    BY <1>2, <1>3, <1>4, <1>5, <1>6 DEF Typing, Phases, Inside
  <1>8. QED
    BY <1>2, <1>4, <1>7 DEF Entry

\* A unit that is new, in front of others.
LEMMA UnitAdded ==
  ASSUME Units, units # <<>>, files' = files, DOMAIN symtab \subseteq DOMAIN symtab',
         NEW u, IsUnit(u)', NEW n \in {1, 2}, units' = <<u>> \o Past(n)
  PROVE  Units' /\ units' # <<>>
  <1> DEFINE v == [Head(units) EXCEPT !.pos = @ + n]
             T == {units[i] : i \in DOMAIN units} \union {v}
             T2 == T \union {u}
  <1>1. IsUnit(v) /\ Past(n) \in Seq(T)
    BY GoesOn
  <1>2. \A x \in T : IsUnit(x)
    BY <1>1 DEF Units
  <1> HIDE DEF T, v
  <1>3. \A x \in T : IsUnit(x)'
    BY <1>2, KeepsUnit
  <1>4. \A x \in T2 : IsUnit(x)'
    BY <1>3
  <1>5. Past(n) \in Seq(T2) /\ u \in T2
    <2>1. T \subseteq T2 /\ u \in T2
      OBVIOUS
    <2> HIDE DEF T2
    <2>2. QED
      BY <1>1, <2>1
  <1> HIDE DEF T2
  <1>6. <<u>> \o Past(n) \in Seq(T2) /\ <<u>> \o Past(n) # <<>>
    BY <1>5
  <1>7. QED
    BY <1>4, <1>6, UnitsFrom DEF Units

\* A macro that is read from now on.
LEMMA ExpandTyped ==
  ASSUME Typing, Expand
  PROVE  /\ Typing' /\ UNCHANGED lists
         /\ DOMAIN symtab \subseteq DOMAIN symtab'
         /\ \A name \in DOMAIN symtab' : symtab'[name].refs = Entry(name).refs
  <1> DEFINE name == Token(0).name
             arg == Token(1)
  <1>1. units # <<>> /\ comment = 0 /\ defining = NoMacro
    BY ReadsToken DEF Expand
  <1>2. /\ UNCHANGED <<files, phase, success, comment, defining, layout, lists, output>>
        /\ symtab' = Referenced(name)
        /\ \/ HasToken(1) /\ units' = <<Unit("macro", name, arg)>> \o Past(2)
           \/ units' = <<Unit("macro", name, NoArg)>> \o Past(1)
    BY DEF Expand, CanExpand, input
  <1> HIDE DEF name, arg
  <1>3. Layout' /\ Waits'
    BY <1>2, KeepsOutput
  <1>4. /\ Table' /\ DOMAIN symtab' = DOMAIN symtab \union {name}
        /\ \A other \in DOMAIN symtab' : symtab'[other].refs = Entry(other).refs
    BY <1>2, ReferencedTyped DEF Typing
  <1>5. ASSUME NEW u, NEW n \in {1, 2}, IsToken(u.arg), units' = <<u>> \o Past(n),
               u = Unit("macro", name, u.arg)
        PROVE  Units' /\ units' # <<>>
    <2>1. /\ u = [kind |-> u.kind, of |-> u.of, pos |-> u.pos, arg |-> u.arg]
          /\ u.kind = "macro" /\ u.pos = 1 /\ u.of = name
      BY <1>5 DEF Unit
    <2>2. IsUnit(u)'
      BY <1>4, <1>5, <2>1 DEF IsUnit
    <2>3. QED
      BY <1>1, <1>2, <1>4, <1>5, <2>2, UnitAdded DEF Typing
  <1>6. Units' /\ units' # <<>>
    <2>1. CASE HasToken(1) /\ units' = <<Unit("macro", name, arg)>> \o Past(2)
      <3>1. IsToken(arg)
        BY <1>1, <2>1, TokenTyped DEF Typing, arg
      <3>2. PICK u : u = Unit("macro", name, arg)
        OBVIOUS
      <3>3. u.arg = arg
        BY <3>2 DEF Unit
      <3>4. QED
        BY <1>5, <2>1, <3>1, <3>2, <3>3
    <2>2. CASE units' = <<Unit("macro", name, NoArg)>> \o Past(1)
      <3>1. IsToken(NoArg)
        BY DEF IsToken, NoArg, Plain
      <3>2. PICK u : u = Unit("macro", name, NoArg)
        OBVIOUS
      <3>3. u.arg = NoArg
        BY <3>2 DEF Unit
      <3>4. QED
        BY <1>5, <2>2, <3>1, <3>2, <3>3
    <2>3. QED
      BY <1>2, <2>1, <2>2
  <1>7. Typing'
    BY <1>1, <1>2, <1>3, <1>4, <1>6 DEF Typing, Phases, Defining, Inside
  <1>8. QED
    BY <1>2, <1>4, <1>7

\* A file that there is.
LEMMA FileTyped ==
  ASSUME files' = files, NEW u, NEW file \in DOMAIN files, u = File(file)
  PROVE  IsUnit(u)'
  <1>1. /\ u = [kind |-> u.kind, of |-> u.of, pos |-> u.pos, arg |-> u.arg]
        /\ u.kind = "file" /\ u.pos = 1 /\ u.of = file /\ u.arg = NoArg
    BY DEF File, Unit
  <1>2. IsToken(NoArg)
    BY DEF IsToken, NoArg, Plain
  <1>3. QED
    BY <1>1, <1>2 DEF IsUnit

\* A file that is read from now on, or later.
LEMMA IncludeTyped ==
  ASSUME Typing, ProcessInclude
  PROVE  Typing'
  <1>1. units # <<>> /\ comment = 0 /\ defining = NoMacro
    BY ReadsToken DEF ProcessInclude
  <1>2. UNCHANGED <<files, phase, success, comment, defining, symtab, layout, lists, output>>
    BY DEF ProcessInclude, input
  <1>3. Layout' /\ Waits' /\ Table'
    BY <1>2, KeepsOutput, KeepsTable DEF Typing
  <1>4. \/ units' = Past(1)
        \/ \E file \in DOMAIN files : units' = <<File(file)>> \o Past(1)
    BY DEF ProcessInclude, ReadFile, CanOpen
  <1>5. Units' /\ units' # <<>>
    <2>1. CASE units' = Past(1)
      BY <1>1, <1>2, <2>1, PastUnits DEF Typing
    <2>2. ASSUME NEW file \in DOMAIN files, units' = <<File(file)>> \o Past(1)
          PROVE  Units' /\ units' # <<>>
      <3>1. PICK u : u = File(file)
        OBVIOUS
      <3>2. IsUnit(u)' /\ units' = <<u>> \o Past(1)
        BY <1>2, <2>2, <3>1, FileTyped
      <3>3. QED
        BY <1>1, <1>2, <3>2, UnitAdded DEF Typing
    <2>3. QED
      BY <1>4, <2>1, <2>2
  <1>6. QED
    BY <1>1, <1>2, <1>3, <1>5 DEF Typing, Phases, Defining, Inside

\* The end of a macro or of a file.
LEMMA EndUnitTyped ==
  ASSUME Typing, EndUnit
  PROVE  Typing'
  <1> DEFINE R == {units[i] : i \in DOMAIN units}
  <1>1. UNCHANGED <<files, success, comment, defining, symtab, layout, lists, output>>
    BY DEF EndUnit
  <1>2. units # <<>> /\ comment = 0 /\ defining = NoMacro /\ units' = Tail(units)
    BY DEF EndUnit
  <1>3. Layout' /\ Waits' /\ Table'
    BY <1>1, KeepsOutput, KeepsTable DEF Typing
  <1>4. Tail(units) \in Seq(R) /\ \A u \in R : IsUnit(u)
    BY <1>2, GoesOn DEF Typing, Units
  <1>5. \A u \in R : IsUnit(u)'
    <2> HIDE DEF R
    <2> QED
      BY <1>1, <1>4, KeepsUnit
  <1>6. Units'
    <2> HIDE DEF R
    <2> QED
      BY <1>1, <1>2, <1>4, <1>5, UnitsFrom DEF Typing, Units
  <1>7. phase' \in {"pass", "resolve", "done"}
    BY DEF EndUnit, Typing, Phases
  <1>8. QED
    BY <1>1, <1>2, <1>3, <1>6, <1>7 DEF Typing, Phases, Defining, Inside

\* An error.
LEMMA FailTyped ==
  ASSUME Typing, Fail
  PROVE  Typing' /\ UNCHANGED <<lists, symtab>>
  <1>1. UNCHANGED <<files, units, comment, defining, symtab, layout, lists, output>>
    BY DEF Fail, reading
  <1>2. Layout' /\ Waits' /\ Table'
    BY <1>1, KeepsOutput, KeepsTable DEF Typing
  <1>3. Units'
    BY <1>1, KeepsUnits DEF Typing
  <1>4. QED
    BY <1>1, <1>2, <1>3 DEF Fail, Typing, Phases, Defining, Entry, Inside

\* A file that is read after the others.
LEMMA ReadDeferredTyped ==
  ASSUME Typing, ReadDeferred
  PROVE  Typing'
  <1>1. UNCHANGED <<files, phase, success, comment, defining, symtab, layout, lists, output>>
    BY DEF ReadDeferred, input
  <1>2. units = <<>>
    BY DEF ReadDeferred
  <1>3. comment = 0 /\ defining = NoMacro
    BY <1>2 DEF Typing, Inside, Phases
  <1>4. Layout' /\ Waits' /\ Table'
    BY <1>1, KeepsOutput, KeepsTable DEF Typing
  <1>5. units' = <<>> \/ \E file \in DOMAIN files : units' = <<File(file)>> \o <<>>
    BY DEF ReadDeferred, ReadFile, CanOpen
  <1>6. Units'
    <2>1. CASE units' = <<>>
      BY <1>1, <1>2, <2>1, KeepsUnits DEF Typing
    <2>2. ASSUME NEW file \in DOMAIN files, units' = <<File(file)>> \o <<>>
          PROVE  Units'
      <3>1. PICK u : u = File(file)
        OBVIOUS
      <3>2. IsUnit(u)' /\ units' = <<u>> \o <<>>
        BY <1>1, <2>2, <3>1, FileTyped
      <3>3. units' \in Seq({u})
        BY <3>2
      <3>4. files \in Programs
        BY DEF Typing, Units
      <3>5. PICK T : T = {u}
        OBVIOUS
      <3>6. units' \in Seq(T) /\ \A x \in T : IsUnit(x)'
        BY <3>2, <3>3, <3>5
      <3>7. QED
        BY <1>1, <3>4, <3>6, UnitsFrom
    <2>3. QED
      BY <1>5, <2>1, <2>2
  <1>7. QED
    BY <1>1, <1>3, <1>4, <1>6 DEF Typing, Phases, Defining, Inside

\* The end of it all.
LEMMA FinishTyped ==
  ASSUME Typing, Finish
  PROVE  Typing'
  <1>1. /\ UNCHANGED <<files, units, comment, defining, symtab, layout, lists, rom>>
        /\ phase' = "done" /\ success' \in BOOLEAN
    BY DEF Finish, reading, Typing, Phases
  <1>2. Units'
    BY <1>1, KeepsUnits DEF Typing
  <1>3. Waits' /\ Table'
    BY <1>1, KeepsWaits, KeepsTable DEF Typing
  <1>4. QED
    BY <1>1, <1>2, <1>3 DEF Typing, Phases, Defining, Entry, Inside, Layout, layout

\* A step that changes nothing.
LEMMA StutterTyped ==
  ASSUME Typing, UNCHANGED vars
  PROVE  Typing'
  <1>1. UNCHANGED <<files, phase, success, units, comment, defining, symtab, layout, lists, output>>
    BY DEF vars, input, reading
  <1>2. Layout' /\ Waits' /\ Table'
    BY <1>1, KeepsOutput, KeepsTable DEF Typing
  <1>3. Units'
    BY <1>1, KeepsUnits DEF Typing
  <1>4. QED
    BY <1>1, <1>2, <1>3 DEF Typing, Phases, Defining, Entry, Inside

\* A label, and the references that waited for it.
LEMMA LabelTyped ==
  ASSUME Typing, GlobalLabel \/ LocalLabel
  PROVE  \E name :
           /\ Register(name) /\ Typing' /\ Entry(name).refs \in Seq(Pending)
           /\ DOMAIN symtab' = DOMAIN symtab \union {name}
           /\ \A other \in DOMAIN symtab' :
                symtab'[other].refs = IF other = name THEN <<>> ELSE Entry(other).refs
  <1>1. units # <<>> /\ comment = 0 /\ defining = NoMacro
    BY ReadsToken DEF GlobalLabel, LocalLabel
  <1>2. PICK name : Register(name)
    BY DEF GlobalLabel, LocalLabel
  <1>3. QED
    BY <1>1, <1>2, RegisterTyped

\* Nothing is assembled yet.
LEMMA InitTyped ==
  ASSUME Init
  PROVE  Typing
  <1>1. MemSize \in Nat /\ Page \in 0 .. MemSize - 1
    BY MemoryFacts, PageAssumption
  <1>2. Table /\ Waits
    <2>1. <<>> \in Seq(Placed) /\ <<>> \in Seq(Pending) /\ <<>> \in Seq(Nat \ {0})
      OBVIOUS
    <2>2. DOMAIN <<>> = {} /\ <<>> = [name \in {} |-> <<>>[name]]
      OBVIOUS
    <2>3. QED
      BY <2>1, <2>2 DEF Init, Table, Waits
  <1>3. Layout
    <2>1. DOMAIN <<>> = {} /\ <<>> = [name \in {} |-> <<>>[name]]
      OBVIOUS
    <2>2. QED
      BY <1>1, <2>1 DEF Init, Layout
  <1>4. Units
    <2>1. Main \in DOMAIN files
      BY ProgramsAssumption DEF Init
    <2>2. IsUnit(File(Main))
      <3>1. IsToken(NoArg)
        BY DEF IsToken, NoArg, Plain
      <3>2. QED
        BY <2>1, <3>1 DEF File, Unit, IsUnit
    <2>3. units \in Seq({File(Main)})
      BY DEF Init
    <2>4. Sequence(units) /\ \A i \in DOMAIN units : units[i] \in {File(Main)}
      BY <2>3, Sequences
    <2>5. QED
      BY <2>2, <2>4 DEF Units, Init
  <1>5. QED
    BY <1>2, <1>3, <1>4 DEF Typing, Init, Phases, Defining, Inside, NoMacro

\* Every step keeps it.
LEMMA NextTyped ==
  ASSUME Typing, [Next]_vars
  PROVE  Typing'
  <1>1. CASE Bytes
    BY <1>1, BytesTyped
  <1>2. CASE LambdaRef
    BY <1>2, LambdaRefTyped
  <1>3. CASE AtRef
    BY <1>3, AtRefTyped
  <1>4. CASE BackwardRef
    BY <1>4, BackwardRefTyped
  <1>5. CASE ForwardRef
    BY <1>5, ForwardRefTyped
  <1>6. CASE GlobalLabel \/ LocalLabel
    BY <1>6, LabelTyped
  <1>7. CASE AtLabel
    BY <1>7, AtLabelTyped
  <1>8. CASE LambdaClose
    BY <1>8, LambdaCloseTyped
  <1>9. CASE Padding
    BY <1>9, PaddingTyped
  <1>10. CASE PaddingToAt
    BY <1>10, PaddingToAtTyped
  <1>11. CASE PaddingTo
    BY <1>11, PaddingToTyped
  <1>12. CASE Skip
    BY <1>12, SkipTyped
  <1>13. CASE BeginComment \/ InComment
    BY <1>13, CommentTyped
  <1>14. CASE Define
    BY <1>14, DefineTyped
  <1>15. CASE DefinitionHead
    BY <1>15, HeadTyped
  <1>16. CASE DefinitionBody
    BY <1>16, BodyTyped
  <1>17. CASE Expand
    BY <1>17, ExpandTyped
  <1>18. CASE ProcessInclude
    BY <1>18, IncludeTyped
  <1>19. CASE EndUnit
    BY <1>19, EndUnitTyped
  <1>20. CASE EndUnitBadly \/ Refuse \/ MissDeferred
    <2>1. Fail
      BY <1>20 DEF EndUnitBadly, Refuse, MissDeferred
    <2>2. QED
      BY <2>1, FailTyped
  <1>21. CASE ReadDeferred
    BY <1>21, ReadDeferredTyped
  <1>22. CASE Finish
    BY <1>22, FinishTyped
  <1>23. CASE Done \/ UNCHANGED vars
    BY <1>23, StutterTyped DEF Done
  <1>24. QED
    BY <1>1, <1>2, <1>3, <1>4, <1>5, <1>6, <1>7, <1>8, <1>9, <1>10, <1>11, <1>12, <1>13,
       <1>14, <1>15, <1>16, <1>17, <1>18, <1>19, <1>20, <1>21, <1>22, <1>23 DEF Next

\* What Typing says of every variable.
LEMMA TypedAsMeant ==
  ASSUME Typing
  PROVE  TypeOK
  <1>1. /\ phase \in {"pass", "resolve", "done"} /\ {success} \subseteq BOOLEAN /\ comment \in Nat
        /\ writeAddr \in 0 .. MemSize - 1 /\ {numLabels, nodes} \subseteq Nat
        /\ atLabels \in Seq(Pending) /\ DOMAIN rom \subseteq Page .. MemSize - 1
    BY DEF Typing, Phases, Layout, Waits
  <1>2. \A i \in DOMAIN units : units[i].kind \in {"file", "macro"} /\ units[i].pos \in Nat \ {0}
    BY DEF Typing, Units, IsUnit
  <1>3. \A list \in Seq(Placed) : list \in Seq(Pending)
    <2>1. Placed \subseteq Pending
      BY DEF Placed
    <2>2. QED
      BY <2>1
  <1>4. \A name \in DOMAIN symtab :
          /\ symtab[name].type \in {"unknown", "macro", "label", "forward"}
          /\ symtab[name].addr \in 0 .. MemSize - 1
          /\ symtab[name].refs \in Seq(Pending)
    BY <1>3 DEF Typing, Table, IsEntry
  <1>5. lambdas \in Seq(Pending)
    BY <1>3 DEF Typing, Waits
  <1>6. QED
    BY <1>1, <1>2, <1>4, <1>5 DEF TypeOK

-----------------------------------------------------------------------------
(***************************************************************************)
(* Lists of nodes.                                                         *)
(***************************************************************************)

\* The first c nodes of list a go, the last of them first, to the front of list b.
Moves(F, G, a, b, c) ==
  /\ DOMAIN G = DOMAIN F /\ a \in DOMAIN F /\ b \in DOMAIN F /\ a # b
  /\ c \in 0 .. Len(F[a])
  /\ \A k \in DOMAIN F \ {a, b} : G[k] = F[k]
  /\ G[a] \in Seq(Nat) /\ Len(G[a]) = Len(F[a]) - c
  /\ \A i \in 1 .. Len(G[a]) : G[a][i] = F[a][i + c]
  /\ G[b] \in Seq(Nat) /\ Len(G[b]) = Len(F[b]) + c
  /\ \A i \in 1 .. Len(G[b]) : G[b][i] = IF i <= c THEN F[a][c + 1 - i] ELSE F[b][i - c]

\* Nothing is lost on the way, and nothing is there twice.
LEMMA Moved ==
  ASSUME NEW F, NEW G, NEW n \in Nat, Owned(F, n), NEW a, NEW b, NEW c, Moves(F, G, a, b, c)
  PROVE  Owned(G, n)
  <1> DEFINE List(k, i) == IF k = b /\ i <= c THEN a ELSE k
             Pos(k, i) == IF k = a THEN i + c
                          ELSE IF k = b THEN IF i <= c THEN c + 1 - i ELSE i - c
                          ELSE i
  <1>1. /\ DOMAIN G = DOMAIN F /\ a \in DOMAIN F /\ b \in DOMAIN F /\ a # b /\ c \in Nat
        /\ c <= Len(F[a])
    BY DEF Moves, Owned
  <1>2. \A k \in DOMAIN F :
          /\ F[k] \in Seq(1 .. n) /\ DOMAIN F[k] = 1 .. Len(F[k]) /\ Len(F[k]) \in Nat
          /\ \A i \in DOMAIN F[k] : F[k][i] \in 1 .. n
    <2>1. \A s \in Seq(1 .. n) :
            DOMAIN s = 1 .. Len(s) /\ Len(s) \in Nat /\ \A i \in DOMAIN s : s[i] \in 1 .. n
      OBVIOUS
    <2>2. QED
      BY <2>1 DEF Owned
  <1>3. \A k \in DOMAIN F :
          DOMAIN G[k] = 1 .. Len(G[k]) /\ Len(G[k]) \in Nat /\ Sequence(G[k])
    <2>1. \A s \in Seq(Nat) : DOMAIN s = 1 .. Len(s) /\ Len(s) \in Nat
      OBVIOUS
    <2>2. \A k \in DOMAIN F : G[k] \in Seq(Nat) \/ (G[k] = F[k] /\ F[k] \in Seq(1 .. n))
      BY <1>2 DEF Moves
    <2>3. Seq(1 .. n) \subseteq Seq(Nat)
      OBVIOUS
    <2>4. QED
      BY <2>1, <2>2, <2>3, Sequences
  <1>4. ASSUME NEW k \in DOMAIN F, NEW i \in DOMAIN G[k]
        PROVE  /\ i \in Nat \ {0}
               /\ List(k, i) \in DOMAIN F /\ Pos(k, i) \in DOMAIN F[List(k, i)]
               /\ G[k][i] = F[List(k, i)][Pos(k, i)]
    <2>1. i \in 1 .. Len(G[k])
      BY <1>3
    <2>2. CASE k = a
      <3>1. Len(G[a]) = Len(F[a]) - c /\ G[a][i] = F[a][i + c] /\ List(k, i) = a /\ Pos(k, i) = i + c
        BY <1>1, <2>1, <2>2 DEF Moves
      <3>2. i + c \in 1 .. Len(F[a]) /\ i \in Nat \ {0}
        BY <1>1, <1>2, <1>3, <2>1, <2>2, <3>1, SMTT(30)
      <3>3. QED
        BY <1>1, <1>2, <2>2, <3>1, <3>2
    <2>3. CASE k = b /\ i <= c
      <3>1. c + 1 - i \in 1 .. Len(F[a])
        BY <1>1, <1>2, <1>3, <2>1, <2>3
      <3>2. G[b][i] = F[a][c + 1 - i]
        BY <2>1, <2>3 DEF Moves
      <3>3. QED
        BY <1>1, <1>2, <1>3, <2>1, <2>3, <3>1, <3>2
    <2>4. CASE k = b /\ ~(i <= c)
      <3>1. i - c \in 1 .. Len(F[b])
        BY <1>1, <1>2, <1>3, <2>1, <2>4 DEF Moves
      <3>2. G[b][i] = F[b][i - c]
        BY <2>1, <2>4 DEF Moves
      <3>3. QED
        BY <1>1, <1>2, <1>3, <2>1, <2>4, <3>1, <3>2
    <2>5. CASE k \notin {a, b}
      BY <1>1, <1>2, <1>3, <2>1, <2>5 DEF Moves
    <2>6. QED
      BY <2>2, <2>3, <2>4, <2>5
  <1>5. \A k \in DOMAIN G : G[k] \in Seq(1 .. n)
    <2>1. \A k \in DOMAIN F : \A i \in DOMAIN G[k] : G[k][i] \in 1 .. n
      BY <1>2, <1>4, SMTT(30)
    <2>2. QED
      BY <1>1, <1>3, <2>1, Widened
  <1>6. ASSUME NEW m \in 1 .. n
        PROVE  \E k \in DOMAIN G : \E i \in DOMAIN G[k] : G[k][i] = m
    <2>1. PICK k \in DOMAIN F : \E i \in DOMAIN F[k] : F[k][i] = m
      BY DEF Owned
    <2>2. PICK i \in 1 .. Len(F[k]) : F[k][i] = m
      BY <1>2, <2>1
    <2>3. CASE k = a /\ i <= c
      <3>1. c + 1 - i \in 1 .. Len(G[b]) /\ c + 1 - i <= c /\ c + 1 - (c + 1 - i) = i
        BY <1>1, <1>2, <2>2, <2>3 DEF Moves
      <3>2. G[b][c + 1 - i] = F[a][c + 1 - (c + 1 - i)]
        BY <3>1 DEF Moves
      <3>3. QED
        BY <1>1, <1>3, <2>2, <2>3, <3>1, <3>2
    <2>4. CASE k = a /\ ~(i <= c)
      <3>1. i - c \in 1 .. Len(G[a]) /\ (i - c) + c = i
        BY <1>1, <1>2, <2>2, <2>4 DEF Moves
      <3>2. G[a][i - c] = F[a][(i - c) + c]
        BY <3>1 DEF Moves
      <3>3. QED
        BY <1>1, <1>3, <2>2, <2>4, <3>1, <3>2
    <2>5. CASE k = b
      <3>1. i + c \in 1 .. Len(G[b]) /\ ~(i + c <= c) /\ (i + c) - c = i
        BY <1>1, <1>2, <2>2, <2>5 DEF Moves
      <3>2. G[b][i + c] = F[b][(i + c) - c]
        BY <3>1 DEF Moves
      <3>3. QED
        BY <1>1, <1>3, <2>2, <2>5, <3>1, <3>2
    <2>6. CASE k \notin {a, b}
      BY <1>1, <1>2, <2>2, <2>6 DEF Moves
    <2>7. QED
      BY <2>3, <2>4, <2>5, <2>6
  <1>7. ASSUME NEW k \in DOMAIN G, NEW l \in DOMAIN G, NEW i \in DOMAIN G[k], NEW j \in DOMAIN G[l],
               G[k][i] = G[l][j]
        PROVE  k = l /\ i = j
    <2>1. List(k, i) = List(l, j) /\ Pos(k, i) = Pos(l, j)
      <3>1. F[List(k, i)][Pos(k, i)] = F[List(l, j)][Pos(l, j)]
        BY <1>1, <1>4, <1>7
      <3> HIDE DEF List, Pos
      <3>2. QED
        BY <1>1, <1>4, <3>1 DEF Owned
    <2>2. i \in Nat \ {0} /\ j \in Nat \ {0}
      BY <1>1, <1>4
    <2>3. QED
      BY <1>1, <2>1, <2>2
  <1>8. QED
    BY <1>5, <1>6, <1>7 DEF Owned

\* A new node in front of one list.
LEMMA Given ==
  ASSUME NEW F, NEW G, NEW n \in Nat, Owned(F, n), NEW a \in DOMAIN F, DOMAIN G = DOMAIN F,
         \A k \in DOMAIN F \ {a} : G[k] = F[k],
         G[a] = <<n + 1>> \o F[a]
  PROVE  Owned(G, n + 1)
  <1>1. \A k \in DOMAIN F :
          /\ F[k] \in Seq(1 .. n) /\ DOMAIN F[k] = 1 .. Len(F[k]) /\ Len(F[k]) \in Nat
          /\ \A i \in DOMAIN F[k] : F[k][i] \in 1 .. n
    <2>1. \A s \in Seq(1 .. n) :
            DOMAIN s = 1 .. Len(s) /\ Len(s) \in Nat /\ \A i \in DOMAIN s : s[i] \in 1 .. n
      OBVIOUS
    <2>2. QED
      BY <2>1 DEF Owned
  <1>2. F[a] \in Seq(1 .. n + 1) /\ G[a] \in Seq(1 .. n + 1)
    <2>1. F[a] \in Seq(1 .. n + 1)
      <3>1. F[a] \in Seq(1 .. n) /\ 1 .. n \subseteq 1 .. n + 1
        BY <1>1
      <3>2. QED
        BY <3>1
    <2>2. <<n + 1>> \in Seq(1 .. n + 1)
      OBVIOUS
    <2>3. QED
      BY <2>1, <2>2
  <1>3. /\ DOMAIN G[a] = 1 .. Len(F[a]) + 1 /\ G[a][1] = n + 1
        /\ \A i \in 1 .. Len(F[a]) : G[a][i + 1] = F[a][i]
        /\ \A i \in 2 .. Len(F[a]) + 1 : G[a][i] = F[a][i - 1]
    BY <1>1, <1>2
  <1>4. \A k \in DOMAIN G : G[k] \in Seq(1 .. n + 1)
    <2>1. 1 .. n \subseteq 1 .. n + 1
      OBVIOUS
    <2>2. \A s \in Seq(1 .. n) : s \in Seq(1 .. n + 1)
      BY <2>1
    <2>3. QED
      BY <1>1, <1>2, <2>2
  <1>5. ASSUME NEW m \in 1 .. n + 1
        PROVE  \E k \in DOMAIN G : \E i \in DOMAIN G[k] : G[k][i] = m
    <2>1. CASE m = n + 1
      BY <1>1, <1>3, <2>1
    <2>2. CASE m \in 1 .. n
      <3>1. PICK k \in DOMAIN F : \E i \in DOMAIN F[k] : F[k][i] = m
        BY <2>2 DEF Owned
      <3>2. PICK i \in 1 .. Len(F[k]) : F[k][i] = m
        BY <1>1, <3>1
      <3>3. CASE k = a
        <4>1. i + 1 \in DOMAIN G[a] /\ G[a][i + 1] = m
          BY <1>1, <1>3, <3>2, <3>3
        <4>2. QED
          BY <4>1
      <3>4. CASE k # a
        BY <1>1, <3>2, <3>4
      <3>5. QED
        BY <3>3, <3>4
    <2>3. QED
      BY <2>1, <2>2
  <1>6. ASSUME NEW k \in DOMAIN G, NEW i \in DOMAIN G[k], G[k][i] = n + 1
          PROVE  k = a /\ i = 1
    <2>1. k = a
      <3>1. SUFFICES ASSUME k # a PROVE FALSE
        OBVIOUS
      <3>2. i \in 1 .. Len(F[k]) /\ F[k][i] = n + 1 /\ F[k] \in Seq(1 .. n)
        BY <1>1, <1>6, <3>1
      <3>3. F[k][i] \in 1 .. n
        BY <3>2
      <3>4. QED
        BY <3>2, <3>3
    <2>2. i = 1
      <3>1. SUFFICES ASSUME i # 1 PROVE FALSE
        OBVIOUS
      <3>2. Len(F[a]) \in Nat /\ i \in 1 .. Len(F[a]) + 1
        BY <1>1, <1>3, <2>1
      <3>3. i - 1 \in 1 .. Len(F[a]) /\ i \in 2 .. Len(F[a]) + 1
        BY <3>1, <3>2
      <3>4. F[a][i - 1] = n + 1
        BY <1>3, <1>6, <2>1, <3>3
      <3>5. F[a][i - 1] \in 1 .. n
        BY <1>1, <3>3
      <3>6. QED
        BY <3>4, <3>5
    <2>3. QED
      BY <2>1, <2>2
  <1>7. ASSUME NEW k \in DOMAIN G, NEW l \in DOMAIN G, NEW i \in DOMAIN G[k], NEW j \in DOMAIN G[l],
               G[k][i] = G[l][j]
        PROVE  k = l /\ i = j
    <2>1. CASE k = a /\ i = 1
      <3>1. G[l][j] = n + 1
        BY <1>3, <1>7, <2>1
      <3>2. QED
        BY <1>6, <2>1, <3>1
    <2>2. CASE l = a /\ j = 1
      <3>1. G[k][i] = n + 1
        BY <1>3, <1>7, <2>2
      <3>2. QED
        BY <1>6, <2>2, <3>1
    <2>3. CASE k # a /\ l # a
      BY <1>7, <2>3 DEF Owned
    <2>4. CASE k = a /\ i # 1 /\ l # a
      <3>1. i - 1 \in DOMAIN F[a] /\ F[a][i - 1] = F[l][j] /\ j \in DOMAIN F[l]
        BY <1>1, <1>3, <1>7, <2>4
      <3>2. QED
        BY <2>4, <3>1 DEF Owned
    <2>5. CASE l = a /\ j # 1 /\ k # a
      <3>1. j - 1 \in DOMAIN F[a] /\ F[a][j - 1] = F[k][i] /\ i \in DOMAIN F[k]
        BY <1>1, <1>3, <1>7, <2>5
      <3>2. QED
        BY <2>5, <3>1 DEF Owned
    <2>6. CASE k = a /\ i # 1 /\ l = a /\ j # 1
      <3>1. i - 1 \in DOMAIN F[a] /\ j - 1 \in DOMAIN F[a] /\ F[a][i - 1] = F[a][j - 1]
        BY <1>1, <1>3, <1>7, <2>6
      <3>2. i - 1 = j - 1
        BY <3>1 DEF Owned
      <3>3. QED
        BY <1>1, <1>3, <2>6, <3>2
    <2>7. QED
      BY <2>1, <2>2, <2>3, <2>4, <2>5, <2>6
  <1>8. QED
    BY <1>4, <1>5, <1>7 DEF Owned

\* The nodes of some references.
LEMMA InTyped ==
  ASSUME NEW refs \in Seq(Pending)
  PROVE  /\ In(refs) \in Seq(Nat \ {0}) /\ In(refs) \in Seq(Nat)
         /\ Len(In(refs)) = Len(refs) /\ DOMAIN In(refs) = 1 .. Len(refs) /\ Len(refs) \in Nat
         /\ \A i \in 1 .. Len(refs) : In(refs)[i] = refs[i].node
  <1>1. Len(refs) \in Nat /\ \A i \in 1 .. Len(refs) : refs[i].node \in Nat \ {0}
    <2>1. Len(refs) \in Nat /\ \A i \in 1 .. Len(refs) : refs[i] \in Pending
      OBVIOUS
    <2>2. QED
      BY <2>1 DEF Pending
  <1>2. In(refs) \in [1 .. Len(refs) -> Nat \ {0}]
    BY <1>1 DEF In
  <1>3. In(refs) \in Seq(Nat \ {0})
    BY <1>1, <1>2
  <1>4. Len(In(refs)) = Len(refs) /\ DOMAIN In(refs) = 1 .. Len(refs)
    BY <1>1, <1>2, <1>3
  <1>5. \A s \in Seq(Nat \ {0}) : s \in Seq(Nat)
    OBVIOUS
  <1>6. QED
    BY <1>1, <1>3, <1>4, <1>5 DEF In

\* One more in front.
LEMMA InPushed ==
  ASSUME NEW r \in Pending, NEW refs \in Seq(Pending)
  PROVE  In(<<r>> \o refs) = <<r.node>> \o In(refs)
  <1> DEFINE more == <<r>> \o refs
             held == <<r.node>> \o In(refs)
  <1>1. more \in Seq(Pending) /\ Len(more) = Len(refs) + 1
    OBVIOUS
  <1>2. Len(refs) \in Nat /\ more[1] = r /\ \A i \in 2 .. Len(refs) + 1 : more[i] = refs[i - 1]
    OBVIOUS
  <1>3. r.node \in Nat
    BY DEF Pending
  <1>4. /\ held \in Seq(Nat) /\ Len(held) = Len(refs) + 1 /\ held[1] = r.node
        /\ \A i \in 2 .. Len(refs) + 1 : held[i] = In(refs)[i - 1]
    BY <1>2, <1>3, InTyped
  <1>5. \A i \in 2 .. Len(refs) + 1 : i - 1 \in 1 .. Len(refs)
    BY <1>2
  <1>6. \A i \in 1 .. Len(refs) + 1 : In(more)[i] = held[i]
    <2> HIDE DEF more, held
    <2>1. \A i \in 1 .. Len(refs) + 1 : In(more)[i] = more[i].node
      BY <1>1, InTyped
    <2>2. TAKE i \in 1 .. Len(refs) + 1
    <2>3. i = 1 \/ i \in 2 .. Len(refs) + 1
      BY <1>2
    <2>4. QED
      BY <1>2, <1>4, <1>5, <2>1, <2>3, InTyped
  <1>7. In(more) \in Seq(Nat) /\ Len(In(more)) = Len(refs) + 1
    <2> HIDE DEF more
    <2> QED
      BY <1>1, InTyped
  <1> HIDE DEF more, held
  <1>8. In(more) = held
    BY <1>4, <1>6, <1>7, SeqEqual
  <1>9. QED
    BY <1>8 DEF more, held

\* The first one taken away.
LEMMA InPopped ==
  ASSUME NEW refs \in Seq(Pending), refs # <<>>
  PROVE  /\ Head(refs) \in Pending /\ <<Head(refs)>> \in Seq(Pending) /\ Len(<<Head(refs)>>) = 1
         /\ In(refs)[1] = <<Head(refs)>>[1].node
         /\ Len(In(Tail(refs))) = Len(In(refs)) - 1 /\ Len(In(refs)) >= 1
         /\ \A i \in 1 .. Len(In(Tail(refs))) : In(Tail(refs))[i] = In(refs)[i + 1]
  <1>1. /\ Len(refs) \in Nat \ {0} /\ Head(refs) = refs[1] /\ refs[1] \in Pending
        /\ Tail(refs) \in Seq(Pending) /\ Len(Tail(refs)) = Len(refs) - 1
        /\ \A i \in 1 .. Len(refs) - 1 : Tail(refs)[i] = refs[i + 1] /\ i + 1 \in 1 .. Len(refs)
    OBVIOUS
  <1>2. /\ Len(In(refs)) = Len(refs) /\ Len(In(Tail(refs))) = Len(refs) - 1
        /\ \A i \in 1 .. Len(refs) : In(refs)[i] = refs[i].node
        /\ \A i \in 1 .. Len(refs) - 1 : In(Tail(refs))[i] = Tail(refs)[i].node
    BY <1>1, InTyped
  <1>3. <<Head(refs)>> \in Seq(Pending) /\ Len(<<Head(refs)>>) = 1 /\ <<Head(refs)>>[1] = Head(refs)
    BY <1>1
  <1>4. In(refs)[1] = refs[1].node
    BY <1>1, <1>2
  <1>5. ASSUME NEW i \in 1 .. Len(refs) - 1
        PROVE  In(Tail(refs))[i] = In(refs)[i + 1]
    <2>1. In(refs)[i + 1] = refs[i + 1].node
      BY <1>1, <1>2
    <2>2. QED
      BY <1>1, <1>2, <2>1
  <1>6. In(refs)[1] = <<Head(refs)>>[1].node
    BY <1>1, <1>3, <1>4
  <1>7. \A i \in 1 .. Len(In(Tail(refs))) : In(Tail(refs))[i] = In(refs)[i + 1]
    BY <1>2, <1>5
  <1>8. Len(In(Tail(refs))) = Len(In(refs)) - 1 /\ Len(In(refs)) >= 1
    <2>1. Len(refs) >= 1
      BY <1>1
    <2>2. QED
      BY <1>2, <2>1, Zenon
  <1>9. QED
    BY <1>1, <1>3, <1>6, <1>7, <1>8

\* F has these lists.
AreLists(F, D, ls, ats, free, table) ==
  /\ DOMAIN F = Keys(D)
  /\ F[<<"lambda">>] = In(ls) /\ F[<<"at">>] = In(ats) /\ F[<<"pool">>] = free
  /\ \A name \in D : F[<<"refs", name>>] = In(RefsIn(table, name))
  /\ \A k \in Keys(D) : F[k] \in Seq(Nat)

\* Every symbol has a list of references.
HasRefs(table) == \A name \in DOMAIN table : table[name].refs \in Seq(Pending)

\* The lists of nodes, one by one.
LEMMA TheLists ==
  ASSUME NEW D, NEW ls \in Seq(Pending), NEW ats \in Seq(Pending), NEW free \in Seq(Nat \ {0}),
         NEW table, HasRefs(table)
  PROVE  AreLists(NodesIn(D, ls, ats, free, table), D, ls, ats, free, table)
  <1> DEFINE F == NodesIn(D, ls, ats, free, table)
  <1>1. DOMAIN F = Keys(D)
    BY DEF NodesIn
  <1>2. <<"lambda">> # <<"at">> /\ <<"lambda">> # <<"pool">> /\ <<"at">> # <<"pool">>
    OBVIOUS
  <1>3. \A name : /\ <<"refs", name>> # <<"lambda">> /\ <<"refs", name>> # <<"at">>
                  /\ <<"refs", name>> # <<"pool">> /\ <<"refs", name>>[2] = name
    OBVIOUS
  <1>4. F[<<"lambda">>] = In(ls) /\ F[<<"at">>] = In(ats) /\ F[<<"pool">>] = free
    BY <1>2 DEF NodesIn, Keys
  <1>5. \A name \in D : F[<<"refs", name>>] = In(RefsIn(table, name))
    BY <1>3 DEF NodesIn, Keys
  <1>6. \A name : RefsIn(table, name) \in Seq(Pending)
    BY DEF RefsIn, HasRefs
  <1>7. \A k \in Keys(D) : F[k] \in Seq(Nat)
    <2>1. free \in Seq(Nat) /\ In(ls) \in Seq(Nat) /\ In(ats) \in Seq(Nat)
      <3>1. \A s \in Seq(Nat \ {0}) : s \in Seq(Nat)
        OBVIOUS
      <3>2. QED
        BY <3>1, InTyped
    <2>2. \A name \in D : In(RefsIn(table, name)) \in Seq(Nat)
      BY <1>6, InTyped
    <2> HIDE DEF F
    <2>3. \A name \in D : F[<<"refs", name>>] \in Seq(Nat)
      BY <1>5, <2>2
    <2>4. \A k \in Keys(D) : k \in {<<"lambda">>, <<"at">>, <<"pool">>} \/ \E name \in D : k = <<"refs", name>>
      BY DEF Keys
    <2>5. QED
      BY <1>4, <2>1, <2>3, <2>4
  <1>8. QED
    BY <1>1, <1>4, <1>5, <1>7 DEF AreLists

\* What the invariant of types says of the lists.
LEMMA ListsTyped ==
  ASSUME Typing
  PROVE  /\ lambdas \in Seq(Pending) /\ atLabels \in Seq(Pending)
         /\ pool \in Seq(Nat \ {0}) /\ nodes \in Nat /\ HasRefs(symtab)
  <1>1. \A name \in DOMAIN symtab : symtab[name].refs \in Seq(Placed)
    BY DEF Typing, Table, IsEntry
  <1>2. QED
    BY <1>1, PlacedPending DEF Typing, Waits, HasRefs

\* A symbol that is not in the table has no references.
LEMMA EntryRefs == \A name : Entry(name).refs = RefsIn(symtab, name)
  BY DEF Entry, RefsIn, Unknown

\* The lists before a step, with those of the symbols that are new, and after it.
Before == NodesIn(DOMAIN symtab', lambdas, atLabels, pool, symtab)
Behind == NodesIn(DOMAIN symtab', lambdas', atLabels', pool', symtab')

\* Lists that are empty own nothing.
LEMMA EmptyAdded ==
  ASSUME NEW F, NEW G, NEW n, Owned(F, n), DOMAIN F \subseteq DOMAIN G,
         \A k \in DOMAIN F : G[k] = F[k], \A k \in DOMAIN G \ DOMAIN F : G[k] = <<>>
  PROVE  Owned(G, n)
  <1>1. <<>> \in Seq(1 .. n) /\ DOMAIN <<>> = {}
    OBVIOUS
  <1>2. \A k \in DOMAIN G : G[k] \in Seq(1 .. n)
    BY <1>1 DEF Owned
  <1>3. \A k \in DOMAIN G : \A i \in DOMAIN G[k] : k \in DOMAIN F /\ i \in DOMAIN F[k] /\ G[k][i] = F[k][i]
    BY <1>1
  <1>4. \A m \in 1 .. n : \E k \in DOMAIN G : \E i \in DOMAIN G[k] : G[k][i] = m
    <2>1. TAKE m \in 1 .. n
    <2>2. PICK k \in DOMAIN F : \E i \in DOMAIN F[k] : F[k][i] = m
      BY DEF Owned
    <2>3. k \in DOMAIN G /\ G[k] = F[k]
      BY <2>2
    <2>4. QED
      BY <2>2, <2>3
  <1>5. ASSUME NEW k \in DOMAIN G, NEW l \in DOMAIN G, NEW i \in DOMAIN G[k], NEW j \in DOMAIN G[l],
               G[k][i] = G[l][j]
        PROVE  k = l /\ i = j
    <2>1. /\ k \in DOMAIN F /\ i \in DOMAIN F[k] /\ l \in DOMAIN F /\ j \in DOMAIN F[l]
          /\ F[k][i] = F[l][j]
      BY <1>3, <1>5
    <2>2. QED
      BY <2>1 DEF Owned
  <1>6. QED
    BY <1>2, <1>4, <1>5 DEF Owned

\* A symbol without references has an empty list.
LEMMA Widening ==
  ASSUME Typing, Ownership, DOMAIN symtab \subseteq DOMAIN symtab'
  PROVE  Owned(Before, nodes)
  <1> DEFINE F == NodesIn(DOMAIN symtab, lambdas, atLabels, pool, symtab)
             G == Before
  <1>1. AreLists(F, DOMAIN symtab, lambdas, atLabels, pool, symtab)
    BY ListsTyped, TheLists
  <1>2. AreLists(G, DOMAIN symtab', lambdas, atLabels, pool, symtab)
    BY ListsTyped, TheLists DEF Before
  <1>3. Owned(F, nodes)
    BY DEF Ownership
  <1> HIDE DEF F, G
  <1>4. DOMAIN F \subseteq DOMAIN G
    BY <1>1, <1>2 DEF Keys, AreLists
  <1>5. \A k \in DOMAIN F : G[k] = F[k]
    BY <1>1, <1>2 DEF Keys, AreLists
  <1>6. \A k \in DOMAIN G \ DOMAIN F : G[k] = <<>>
    <2>1. In(<<>>) = <<>>
      BY DEF In
    <2>2. \A name \in DOMAIN symtab' \ DOMAIN symtab : G[<<"refs", name>>] = <<>>
      BY <1>2, <2>1 DEF RefsIn, AreLists
    <2>3. QED
      BY <1>1, <1>2, <2>2 DEF Keys, AreLists
  <1>7. Owned(G, nodes)
    BY <1>3, <1>4, <1>5, <1>6, EmptyAdded
  <1>8. QED
    BY <1>7 DEF G

\* What the invariant of types says of the lists after a step.
LEMMA ListsTypedBehind ==
  ASSUME Typing'
  PROVE  /\ lambdas' \in Seq(Pending) /\ atLabels' \in Seq(Pending)
         /\ pool' \in Seq(Nat \ {0}) /\ HasRefs(symtab')
  <1>1. \A name \in DOMAIN symtab' : symtab'[name].refs \in Seq(Placed)
    BY DEF Typing, Table, IsEntry
  <1>2. QED
    BY <1>1, PlacedPending DEF Typing, Waits, HasRefs

\* After a step the lists are those.
LEMMA Numbered == ASSUME NEW n, nodes' = n, Owned(Behind, n) PROVE Ownership'
  BY DEF Ownership, Behind

\* The lists of a step.
LEMMA StepLists ==
  ASSUME Typing, Typing'
  PROVE  /\ DOMAIN Before = Keys(DOMAIN symtab') /\ DOMAIN Behind = Keys(DOMAIN symtab')
         /\ Before[<<"lambda">>] = In(lambdas) /\ Behind[<<"lambda">>] = In(lambdas')
         /\ Before[<<"at">>] = In(atLabels) /\ Behind[<<"at">>] = In(atLabels')
         /\ Before[<<"pool">>] = pool /\ Behind[<<"pool">>] = pool'
         /\ \A name \in DOMAIN symtab' :
              /\ Before[<<"refs", name>>] = In(Entry(name).refs)
              /\ Behind[<<"refs", name>>] = In(symtab'[name].refs)
         /\ \A k \in Keys(DOMAIN symtab') : Before[k] \in Seq(Nat) /\ Behind[k] \in Seq(Nat)
  <1>1. AreLists(Before, DOMAIN symtab', lambdas, atLabels, pool, symtab)
    BY ListsTyped, TheLists DEF Before
  <1>2. AreLists(Behind, DOMAIN symtab', lambdas', atLabels', pool', symtab')
    BY ListsTypedBehind, TheLists DEF Behind
  <1>4. \A name \in DOMAIN symtab' : RefsIn(symtab', name) = symtab'[name].refs
    BY DEF RefsIn
  <1>5. \A name \in DOMAIN symtab' : Before[<<"refs", name>>] = In(Entry(name).refs)
    BY <1>1, EntryRefs DEF AreLists
  <1>6. \A name \in DOMAIN symtab' : Behind[<<"refs", name>>] = In(symtab'[name].refs)
    BY <1>2, <1>4 DEF AreLists
  <1>7. QED
    BY <1>1, <1>2, <1>5, <1>6 DEF AreLists

\* A step that leaves every reference where it is.
LEMMA NothingMoves ==
  ASSUME Typing, Typing', Ownership, UNCHANGED lists, DOMAIN symtab \subseteq DOMAIN symtab',
         \A name \in DOMAIN symtab' : symtab'[name].refs = Entry(name).refs
  PROVE  Ownership'
  <1>1. lambdas' = lambdas /\ atLabels' = atLabels /\ pool' = pool /\ nodes' = nodes
    BY DEF lists
  <1>2. \A k \in Keys(DOMAIN symtab') : Behind[k] = Before[k]
    BY <1>1, StepLists DEF Keys
  <1>3. Owned(Behind, nodes)
    BY <1>2, Widening, StepLists, EmptyAdded
  <1>4. QED
    BY <1>1, <1>3, Numbered

\* A step that takes a node for one of the lists.
LEMMA NodeTaken ==
  ASSUME Typing, Typing', Ownership, Alloc, DOMAIN symtab \subseteq DOMAIN symtab',
         NEW a \in Keys(DOMAIN symtab') \ {<<"pool">>}, Behind[a] = <<NewNode>> \o Before[a],
         \A k \in Keys(DOMAIN symtab') \ {a, <<"pool">>} : Behind[k] = Before[k]
  PROVE  Ownership'
  <1>1. Owned(Before, nodes) /\ nodes \in Nat
    BY Widening, ListsTyped
  <1>2. <<"pool">> \in Keys(DOMAIN symtab')
    BY DEF Keys
  <1>3. CASE pool = <<>>
    <2>1. nodes' = nodes + 1 /\ NewNode = nodes + 1 /\ pool' = pool
      BY <1>3 DEF Alloc, NewNode
    <2>2. \A k \in DOMAIN Before \ {a} : Behind[k] = Before[k]
      BY <2>1, StepLists
    <2>3. Owned(Behind, nodes + 1)
      BY <1>1, <2>1, <2>2, StepLists, Given
    <2>4. QED
      BY <2>1, <2>3, Numbered
  <1>4. CASE pool # <<>>
    <2> DEFINE F == Before
               G == Behind
               p == <<"pool">>
    <2>1. nodes' = nodes /\ NewNode = Head(pool) /\ pool' = Tail(pool)
      BY <1>4 DEF Alloc, NewNode
    <2>2. /\ DOMAIN G = Keys(DOMAIN symtab') /\ DOMAIN F = DOMAIN G /\ F[p] = pool /\ G[p] = Tail(pool)
          /\ F[a] \in Seq(Nat) /\ G[a] \in Seq(Nat) /\ F[p] \in Seq(Nat) /\ G[p] \in Seq(Nat)
          /\ G[a] = <<Head(pool)>> \o F[a] /\ F[p] # <<>>
          /\ \A k \in DOMAIN F \ {p, a} : G[k] = F[k]
      BY <1>2, <1>4, <2>1, StepLists
    <2> HIDE DEF F, G, p
    <2>3. /\ Len(F[p]) \in Nat \ {0} /\ Len(G[p]) = Len(F[p]) - 1
          /\ \A i \in 1 .. Len(G[p]) : G[p][i] = F[p][i + 1]
      BY <2>2
    <2>4. /\ Len(F[a]) \in Nat /\ Len(G[a]) = Len(F[a]) + 1
          /\ G[a][1] = F[p][1] /\ \A i \in 2 .. Len(G[a]) : G[a][i] = F[a][i - 1]
      <3>1. F[p][1] = Head(pool) /\ Head(pool) \in Nat
        BY <2>2
      <3> DEFINE x == Head(pool)
      <3> HIDE DEF x
      <3>2. G[a] = <<x>> \o F[a] /\ x \in Nat /\ F[p][1] = x
        BY <2>2, <3>1 DEF x
      <3>3. QED
        BY <2>2, <3>2
    <2>5. \A i \in 1 .. Len(G[a]) : G[a][i] = IF i <= 1 THEN F[p][1 + 1 - i] ELSE F[a][i - 1]
      BY <2>4
    <2>6. Moves(F, G, p, a, 1)
      <3>1. p # a /\ a \in DOMAIN F /\ p \in DOMAIN F
        BY <1>2, <2>2 DEF p
      <3>2. QED
        BY <2>2, <2>3, <2>4, <2>5, <3>1 DEF Moves
    <2>7. Owned(G, nodes)
      BY <1>1, <2>6, Moved DEF F
    <2>8. QED
      BY <2>1, <2>7, Numbered DEF G
  <1>5. QED
    BY <1>3, <1>4

\* A list behind another one.
LEMMA Joined ==
  ASSUME NEW s \in Seq(Nat), NEW t \in Seq(Nat), NEW u, u = s \o t, NEW c, c = Len(s)
  PROVE  /\ Len(u) = Len(t) + c /\ Len(t) \in Nat /\ c \in Nat
         /\ \A i \in 1 .. Len(u) : u[i] = IF i <= c THEN s[i] ELSE t[i - c]
  <1>1. Len(s) \in Nat /\ Len(t) \in Nat
    OBVIOUS
  <1>2. Len(u) = Len(s) + Len(t)
    BY ConcatProperties
  <1>3. \A i \in 1 .. Len(s) + Len(t) : u[i] = IF i <= Len(s) THEN s[i] ELSE t[i - Len(s)]
    BY ConcatProperties
  <1>4. QED
    BY <1>1, <1>2, <1>3

\* A step that gives the nodes of the first references of a list back.
LEMMA NodesReturned ==
  ASSUME Typing, Typing', Ownership, nodes' = nodes, DOMAIN symtab \subseteq DOMAIN symtab',
         NEW a \in Keys(DOMAIN symtab') \ {<<"pool">>},
         NEW refs \in Seq(Pending), pool' = Released(refs), Len(refs) <= Len(Before[a]),
         \A i \in 1 .. Len(refs) : Before[a][i] = refs[i].node,
         Len(Behind[a]) = Len(Before[a]) - Len(refs),
         \A i \in 1 .. Len(Behind[a]) : Behind[a][i] = Before[a][i + Len(refs)],
         \A k \in Keys(DOMAIN symtab') \ {a, <<"pool">>} : Behind[k] = Before[k]
  PROVE  Ownership'
  <1> DEFINE F == Before
             G == Behind
             p == <<"pool">>
             c == Len(refs)
             back == [i \in 1 .. c |-> refs[c + 1 - i].node]
  <1>1. Owned(F, nodes) /\ nodes \in Nat
    BY Widening, ListsTyped
  <1>2. <<"pool">> \in Keys(DOMAIN symtab')
    BY DEF Keys
  <1>3. /\ DOMAIN G = Keys(DOMAIN symtab') /\ DOMAIN F = DOMAIN G /\ G[p] = back \o F[p]
        /\ F[a] \in Seq(Nat) /\ G[a] \in Seq(Nat) /\ F[p] \in Seq(Nat) /\ G[p] \in Seq(Nat)
        /\ \A k \in DOMAIN F \ {a, p} : G[k] = F[k]
    BY <1>2, StepLists DEF Released
  <1>4. /\ c \in 0 .. Len(F[a]) /\ \A i \in 1 .. c : F[a][i] = refs[i].node
        /\ Len(G[a]) = Len(F[a]) - c /\ \A i \in 1 .. Len(G[a]) : G[a][i] = F[a][i + c]
    BY <1>3
  <1>5. p # a /\ a \in DOMAIN F /\ p \in DOMAIN F
    BY <1>2, <1>3
  <1>6. back \in Seq(Nat) /\ Len(back) = c /\ \A i \in 1 .. c : back[i] = F[a][c + 1 - i]
    <2>1. c \in Nat /\ \A i \in 1 .. c : c + 1 - i \in 1 .. c
      BY <1>4
    <2>2. \A i \in 1 .. c : refs[i].node = F[a][i] /\ F[a][i] \in Nat
      <3> HIDE DEF F, c
      <3> QED
        BY <1>3, <1>4
    <2>3. \A i \in 1 .. c : back[i] = F[a][c + 1 - i] /\ F[a][c + 1 - i] \in Nat
      <3> HIDE DEF F, c
      <3> QED
        BY <2>1, <2>2
    <2>4. back \in [1 .. c -> Nat]
      BY <2>3
    <2> HIDE DEF back, c
    <2>5. QED
      BY <2>1, <2>3, <2>4
  <1> HIDE DEF F, G, p, c, back
  <1>7. /\ Len(G[p]) = Len(F[p]) + c /\ Len(F[p]) \in Nat /\ c \in Nat
        /\ \A i \in 1 .. Len(G[p]) : G[p][i] = IF i <= c THEN F[a][c + 1 - i] ELSE F[p][i - c]
    <2>1. /\ Len(G[p]) = Len(F[p]) + c /\ Len(F[p]) \in Nat /\ c \in Nat
          /\ \A i \in 1 .. Len(G[p]) : G[p][i] = IF i <= c THEN back[i] ELSE F[p][i - c]
      <3>1. PICK first, free, more : first = back /\ free = F[p] /\ more = G[p]
        OBVIOUS
      <3>2. first \in Seq(Nat) /\ free \in Seq(Nat) /\ more = first \o free /\ c = Len(first)
        BY <1>3, <1>6, <3>1
      <3>3. /\ Len(more) = Len(free) + Len(first) /\ Len(free) \in Nat /\ Len(first) \in Nat
            /\ \A i \in 1 .. Len(more) : more[i] = IF i <= Len(first) THEN first[i] ELSE free[i - Len(first)]
        BY <3>2, Joined
      <3>4. QED
        BY <3>1, <3>2, <3>3
    <2>2. QED
      BY <1>6, <2>1
  <1>8. Moves(F, G, a, p, c)
    BY <1>3, <1>4, <1>5, <1>7 DEF Moves
  <1>9. Owned(G, nodes)
    BY <1>1, <1>8, Moved
  <1>10. QED
    BY <1>9, Numbered DEF G

\* One more in front of a list of references, which still is one.
LEMMA OneMore ==
  ASSUME NEW r, NEW s \in Seq(Pending), NEW t \in Seq(Pending), t = <<r>> \o s
  PROVE  In(t) = <<r.node>> \o In(s)
  <1> DEFINE S == Pending \union {r}
  <1>1. Pending \subseteq S /\ r \in S
    OBVIOUS
  <1> HIDE DEF S
  <1>2. <<r>> \in Seq(S) /\ s \in Seq(S) /\ Len(<<r>>) = 1 /\ <<r>>[1] = r
    BY <1>1
  <1>3. t[1] = r /\ Len(t) >= 1
    BY <1>2
  <1>4. t[1] \in Pending
    BY <1>3
  <1>5. QED
    BY <1>3, <1>4, InPushed

\* The references that wait, where they are and what they are of.
LEMMA LambdaRefOwns ==
  ASSUME Typing, Typing', Ownership, LambdaRef
  PROVE  Ownership'
  <1> DEFINE a == <<"lambda">>
  <1>1. PICK r : r = Waiting(RefAddr(Rune), Rune, numLabels')
    OBVIOUS
  <1>2. r.node = NewNode
    BY <1>1 DEF Waiting
  <1>3. lambdas' = <<r>> \o lambdas /\ Alloc /\ symtab' = symtab /\ atLabels' = atLabels
    BY <1>1 DEF LambdaRef
  <1>4. In(lambdas') = <<NewNode>> \o In(lambdas)
    BY <1>2, <1>3, OneMore, ListsTyped, ListsTypedBehind
  <1>5. a \in Keys(DOMAIN symtab') \ {<<"pool">>} /\ Behind[a] = <<NewNode>> \o Before[a]
    BY <1>4, StepLists DEF Keys
  <1>6. \A k \in Keys(DOMAIN symtab') \ {a, <<"pool">>} : Behind[k] = Before[k]
    BY <1>3, StepLists DEF Keys, Entry
  <1> HIDE DEF a
  <1>7. QED
    BY <1>3, <1>5, <1>6, NodeTaken

\* An anonymous label.
LEMMA AtLabelOwns ==
  ASSUME Typing, Typing', Ownership, AtLabel
  PROVE  Ownership'
  <1> DEFINE a == <<"at">>
  <1>1. PICK r : r = Waiting(writeAddr, "", numLabels')
    OBVIOUS
  <1>2. r.node = NewNode
    BY <1>1 DEF Waiting
  <1>3. atLabels' = <<r>> \o atLabels /\ Alloc /\ symtab' = symtab /\ lambdas' = lambdas
    BY <1>1 DEF AtLabel
  <1>4. In(atLabels') = <<NewNode>> \o In(atLabels)
    BY <1>2, <1>3, OneMore, ListsTyped, ListsTypedBehind
  <1>5. a \in Keys(DOMAIN symtab') \ {<<"pool">>} /\ Behind[a] = <<NewNode>> \o Before[a]
    BY <1>4, StepLists DEF Keys
  <1>6. \A k \in Keys(DOMAIN symtab') \ {a, <<"pool">>} : Behind[k] = Before[k]
    BY <1>3, StepLists DEF Keys, Entry
  <1> HIDE DEF a
  <1>7. QED
    BY <1>3, <1>5, <1>6, NodeTaken

\* A reference to what is not yet known.
LEMMA ForwardRefOwns ==
  ASSUME Typing, Ownership, ForwardRef
  PROVE  Ownership'
  <1>1. PICK name, r :
          /\ r.node = NewNode /\ DOMAIN symtab' = DOMAIN symtab \union {name}
          /\ \A other \in DOMAIN symtab' :
               symtab'[other].refs = IF other = name THEN <<r>> \o Entry(name).refs ELSE Entry(other).refs
    BY ForwardRefTyped
  <1>2. Typing' /\ Alloc /\ lambdas' = lambdas /\ atLabels' = atLabels
    BY ForwardRefTyped DEF ForwardRef
  <1> DEFINE a == <<"refs", name>>
  <1>3. name \in DOMAIN symtab' /\ symtab'[name].refs = <<r>> \o Entry(name).refs
    BY <1>1
  <1>4. Entry(name).refs \in Seq(Pending) /\ symtab'[name].refs \in Seq(Pending)
    <2>1. <<>> \in Seq(Pending)
      OBVIOUS
    <2>2. QED
      BY <1>2, <1>3, <2>1, ListsTyped, ListsTypedBehind, EntryRefs DEF HasRefs, RefsIn
  <1>5. In(symtab'[name].refs) = <<NewNode>> \o In(Entry(name).refs)
    BY <1>1, <1>3, <1>4, OneMore
  <1>6. Behind[a] = <<NewNode>> \o Before[a]
    BY <1>2, <1>3, <1>5, StepLists
  <1>7. a \in Keys(DOMAIN symtab') \ {<<"pool">>}
    BY <1>3 DEF Keys
  <1>8. \A k \in Keys(DOMAIN symtab') \ {a, <<"pool">>} : Behind[k] = Before[k]
    BY <1>1, <1>2, StepLists DEF Keys
  <1> HIDE DEF a
  <1>9. QED
    BY <1>1, <1>2, <1>6, <1>7, <1>8, NodeTaken

\* An anonymous label is used up.
LEMMA PopOwns ==
  ASSUME Typing, Typing', Ownership, atLabels # <<>>, PopAtLabel, symtab' = symtab
  PROVE  Ownership'
  <1> DEFINE a == <<"at">>
  <1>1. PICK refs : refs = <<Head(atLabels)>>
    OBVIOUS
  <1>2. /\ lambdas' = lambdas /\ atLabels' = Tail(atLabels) /\ nodes' = nodes
        /\ pool' = Released(refs) /\ atLabels \in Seq(Pending)
    BY <1>1, ListsTyped DEF PopAtLabel
  <1>3. /\ refs \in Seq(Pending) /\ Len(refs) = 1 /\ Len(In(atLabels)) >= 1
        /\ In(atLabels)[1] = refs[1].node
        /\ Len(In(atLabels')) = Len(In(atLabels)) - 1
        /\ \A i \in 1 .. Len(In(atLabels')) : In(atLabels')[i] = In(atLabels)[i + 1]
    BY <1>1, <1>2, InPopped
  <1>4. a \in Keys(DOMAIN symtab') \ {<<"pool">>} /\ Behind[a] = In(atLabels') /\ Before[a] = In(atLabels)
    BY StepLists DEF Keys
  <1>5. \A k \in Keys(DOMAIN symtab') \ {a, <<"pool">>} : Behind[k] = Before[k]
    BY <1>2, StepLists DEF Keys, Entry
  <1> HIDE DEF a
  <1>6. /\ Len(refs) <= Len(Before[a]) /\ Len(Behind[a]) = Len(Before[a]) - Len(refs)
        /\ \A i \in 1 .. Len(refs) : Before[a][i] = refs[i].node
        /\ \A i \in 1 .. Len(Behind[a]) : Behind[a][i] = Before[a][i + Len(refs)]
    BY <1>3, <1>4
  <1>7. QED
    BY <1>2, <1>3, <1>4, <1>5, <1>6, NodesReturned

\* The end of a lambda.
LEMMA LambdaCloseOwns ==
  ASSUME Typing, Typing', Ownership, LambdaClose
  PROVE  Ownership'
  <1> DEFINE a == <<"lambda">>
  <1>1. PICK refs : refs = <<Head(lambdas)>>
    OBVIOUS
  <1>2. /\ lambdas # <<>> /\ lambdas' = Tail(lambdas) /\ atLabels' = atLabels /\ nodes' = nodes
        /\ pool' = Released(refs) /\ symtab' = symtab /\ lambdas \in Seq(Pending)
    BY <1>1, ListsTyped DEF LambdaClose, CanClose
  <1>3. /\ refs \in Seq(Pending) /\ Len(refs) = 1 /\ Len(In(lambdas)) >= 1
        /\ In(lambdas)[1] = refs[1].node
        /\ Len(In(lambdas')) = Len(In(lambdas)) - 1
        /\ \A i \in 1 .. Len(In(lambdas')) : In(lambdas')[i] = In(lambdas)[i + 1]
    BY <1>1, <1>2, InPopped
  <1>4. a \in Keys(DOMAIN symtab') \ {<<"pool">>} /\ Behind[a] = In(lambdas') /\ Before[a] = In(lambdas)
    BY StepLists DEF Keys
  <1>5. \A k \in Keys(DOMAIN symtab') \ {a, <<"pool">>} : Behind[k] = Before[k]
    BY <1>2, StepLists DEF Keys, Entry
  <1> HIDE DEF a
  <1>6. /\ Len(refs) <= Len(Before[a]) /\ Len(Behind[a]) = Len(Before[a]) - Len(refs)
        /\ \A i \in 1 .. Len(refs) : Before[a][i] = refs[i].node
        /\ \A i \in 1 .. Len(Behind[a]) : Behind[a][i] = Before[a][i + Len(refs)]
    BY <1>3, <1>4
  <1>7. QED
    BY <1>2, <1>3, <1>4, <1>5, <1>6, NodesReturned

\* What waited for a label is all free again.
LEMMA LabelOwns ==
  ASSUME Typing, Ownership, GlobalLabel \/ LocalLabel
  PROVE  Ownership'
  <1>1. PICK name :
          /\ Register(name) /\ Typing' /\ Entry(name).refs \in Seq(Pending)
          /\ DOMAIN symtab' = DOMAIN symtab \union {name}
          /\ \A other \in DOMAIN symtab' :
               symtab'[other].refs = IF other = name THEN <<>> ELSE Entry(other).refs
    BY LabelTyped
  <1> DEFINE a == <<"refs", name>>
  <1>2. PICK refs : refs = Entry(name).refs
    OBVIOUS
  <1>3. /\ lambdas' = lambdas /\ atLabels' = atLabels /\ nodes' = nodes
        /\ pool' = Released(refs) /\ refs \in Seq(Pending)
    BY <1>1, <1>2 DEF Register
  <1>4. In(<<>>) = <<>> /\ Len(<<>>) = 0 /\ 1 .. 0 = {}
    BY DEF In
  <1>5. /\ name \in DOMAIN symtab' /\ Behind[a] = <<>> /\ Before[a] = In(refs)
    <2>1. name \in DOMAIN symtab' /\ symtab'[name].refs = <<>>
      BY <1>1
    <2>2. QED
      BY <1>1, <1>2, <1>4, <2>1, StepLists
  <1>6. a \in Keys(DOMAIN symtab') \ {<<"pool">>}
    BY <1>5 DEF Keys
  <1>7. \A k \in Keys(DOMAIN symtab') \ {a, <<"pool">>} : Behind[k] = Before[k]
    BY <1>1, <1>3, StepLists DEF Keys
  <1> HIDE DEF a
  <1>8. Len(In(refs)) = Len(refs) /\ Len(refs) \in Nat /\ \A i \in 1 .. Len(refs) : In(refs)[i] = refs[i].node
    BY <1>3, InTyped
  <1>9. /\ Len(refs) <= Len(Before[a]) /\ Len(Behind[a]) = Len(Before[a]) - Len(refs)
        /\ \A i \in 1 .. Len(refs) : Before[a][i] = refs[i].node
        /\ \A i \in 1 .. Len(Behind[a]) : Behind[a][i] = Before[a][i + Len(refs)]
    BY <1>4, <1>5, <1>8
  <1>10. QED
    BY <1>1, <1>3, <1>6, <1>7, <1>9, NodesReturned

\* A step that refers to a symbol leaves what waits for it.
LEMMA ReferencedOwns ==
  ASSUME Typing, Typing', Ownership, BackwardRef \/ PaddingTo
  PROVE  Ownership'
  <1>1. UNCHANGED lists
    BY DEF BackwardRef, PaddingTo
  <1>2. \E name : symtab' = Referenced(name)
    BY DEF BackwardRef, PaddingTo
  <1>3. /\ DOMAIN symtab \subseteq DOMAIN symtab'
        /\ \A other \in DOMAIN symtab' : symtab'[other].refs = Entry(other).refs
    BY <1>2, ReferencedTyped DEF Typing
  <1>4. QED
    BY <1>1, <1>3, NothingMoves

\* A step that leaves both the table and the lists alone.
LEMMA LeftAlone ==
  ASSUME Typing, Typing', Ownership, UNCHANGED lists, symtab' = symtab
  PROVE  Ownership'
  <1>1. /\ DOMAIN symtab \subseteq DOMAIN symtab'
        /\ \A other \in DOMAIN symtab' : symtab'[other].refs = Entry(other).refs
    BY DEF Entry
  <1>2. QED
    BY <1>1, NothingMoves

\* Nothing is allocated yet.
LEMMA InitOwns ==
  ASSUME Init
  PROVE  Ownership
  <1> DEFINE F == NodesIn(DOMAIN symtab, lambdas, atLabels, pool, symtab)
  <1>1. lambdas = <<>> /\ atLabels = <<>> /\ pool = <<>> /\ nodes = 0 /\ DOMAIN symtab = {}
    BY DEF Init
  <1>2. In(<<>>) = <<>> /\ DOMAIN <<>> = {} /\ <<>> \in Seq(1 .. 0) /\ 1 .. 0 = {}
    BY DEF In
  <1>3. \A k \in DOMAIN F : F[k] = <<>>
    BY <1>1, <1>2 DEF NodesIn, RefsIn
  <1> HIDE DEF F
  <1>4. Owned(F, 0)
    BY <1>2, <1>3 DEF Owned
  <1>5. QED
    BY <1>1, <1>4 DEF Ownership, F

\* Every step keeps each node in one place.
LEMMA NextOwns ==
  ASSUME Typing, Ownership, [Next]_vars
  PROVE  Ownership'
  <1>1. Typing'
    BY NextTyped
  <1>2. CASE LambdaRef
    BY <1>1, <1>2, LambdaRefOwns
  <1>3. CASE AtLabel
    BY <1>1, <1>3, AtLabelOwns
  <1>4. CASE ForwardRef
    BY <1>4, ForwardRefOwns
  <1>5. CASE AtRef
    BY <1>1, <1>5, PopOwns DEF AtRef
  <1>6. CASE PaddingToAt
    BY <1>1, <1>6, PopOwns DEF PaddingToAt
  <1>7. CASE LambdaClose
    BY <1>1, <1>7, LambdaCloseOwns
  <1>8. CASE GlobalLabel \/ LocalLabel
    BY <1>8, LabelOwns
  <1>9. CASE BackwardRef \/ PaddingTo
    BY <1>1, <1>9, ReferencedOwns
  <1>10. CASE Define
    BY <1>10, DefineTyped, NothingMoves
  <1>11. CASE DefinitionHead
    BY <1>11, HeadTyped, NothingMoves
  <1>12. CASE DefinitionBody
    BY <1>12, BodyTyped, NothingMoves
  <1>13. CASE Expand
    BY <1>13, ExpandTyped, NothingMoves
  <1>14. CASE Bytes \/ Padding
    BY <1>1, <1>14, LeftAlone DEF Bytes, Padding
  <1>15. CASE Skip \/ BeginComment \/ InComment
    BY <1>1, <1>15, LeftAlone DEF Skip, BeginComment, InComment
  <1>16. CASE ProcessInclude
    BY <1>1, <1>16, LeftAlone DEF ProcessInclude
  <1>17. CASE EndUnit \/ ReadDeferred \/ Finish
    BY <1>1, <1>17, LeftAlone DEF EndUnit, ReadDeferred, Finish
  <1>18. CASE EndUnitBadly \/ Refuse \/ MissDeferred
    <2>1. Fail
      BY <1>18 DEF EndUnitBadly, Refuse, MissDeferred
    <2>2. QED
      BY <1>1, <2>1, LeftAlone DEF Fail
  <1>19. CASE Done \/ UNCHANGED vars
    BY <1>1, <1>19, LeftAlone DEF Done, vars
  <1>20. QED
    BY <1>2, <1>3, <1>4, <1>5, <1>6, <1>7, <1>8, <1>9, <1>10, <1>11, <1>12, <1>13, <1>14,
       <1>15, <1>16, <1>17, <1>18, <1>19 DEF Next

\* The places where a node is are those that the invariant gives it.
LEMMA OnePlace ==
  ASSUME Typing, Ownership
  PROVE  NodesOwned
  <1> DEFINE F == NodesIn(DOMAIN symtab, lambdas, atLabels, pool, symtab)
  <1>1. AreLists(F, DOMAIN symtab, lambdas, atLabels, pool, symtab) /\ Owned(F, nodes)
    BY ListsTyped, TheLists DEF Ownership
  <1> HIDE DEF F
  <1>2. Lists = {<<k, F[k]>> : k \in DOMAIN F}
    <2>1. /\ F[<<"lambda">>] = In(lambdas) /\ F[<<"at">>] = In(atLabels) /\ F[<<"pool">>] = pool
          /\ DOMAIN F = Keys(DOMAIN symtab)
      BY <1>1 DEF AreLists
    <2>2. \A name \in DOMAIN symtab : F[<<"refs", name>>] = In(symtab[name].refs)
      BY <1>1 DEF AreLists, RefsIn
    <2>3. ASSUME NEW k \in DOMAIN F
          PROVE  <<k, F[k]>> \in Lists
      <3>1. CASE k \in {<<"lambda">>, <<"at">>, <<"pool">>}
        BY <2>1, <3>1 DEF Lists
      <3>2. CASE \E name \in DOMAIN symtab : k = <<"refs", name>>
        BY <2>2, <3>2 DEF Lists
      <3>3. QED
        BY <2>1, <3>1, <3>2 DEF Keys
    <2>4. ASSUME NEW l \in Lists
          PROVE  \E k \in DOMAIN F : l = <<k, F[k]>>
      <3>1. CASE l \in {<<<<"lambda">>, In(lambdas)>>, <<<<"at">>, In(atLabels)>>, <<<<"pool">>, pool>>}
        BY <2>1, <3>1 DEF Keys
      <3>2. CASE \E name \in DOMAIN symtab : l = <<<<"refs", name>>, In(symtab[name].refs)>>
        BY <2>1, <2>2, <3>2 DEF Keys
      <3>3. QED
        BY <3>1, <3>2 DEF Lists
    <2>5. QED
      BY <2>3, <2>4
  <1>3. ASSUME NEW n \in 1 .. nodes
        PROVE  Cardinality(Places(n)) = 1
    <2>1. PICK k \in DOMAIN F : \E i \in DOMAIN F[k] : F[k][i] = n
      BY <1>1 DEF Owned
    <2>2. PICK i \in DOMAIN F[k] : F[k][i] = n
      BY <2>1
    <2>3. \A l \in DOMAIN F : \A j \in DOMAIN F[l] : F[l][j] = n => l = k /\ j = i
      BY <1>1, <2>2 DEF Owned
    <2> DEFINE In1(l) == {<<l[1], p>> : p \in {j \in DOMAIN l[2] : l[2][j] = n}}
    <2>4. In1(<<k, F[k]>>) = {<<k, i>>}
      BY <2>2, <2>3
    <2>5. \A l \in DOMAIN F : l # k => In1(<<l, F[l]>>) = {}
      BY <2>3
    <2>6. Places(n) = UNION {In1(l) : l \in Lists}
      BY DEF Places
    <2> HIDE DEF In1
    <2>7. Places(n) = {<<k, i>>}
      <3>1. Places(n) = UNION {In1(<<l, F[l]>>) : l \in DOMAIN F}
        BY <1>2, <2>6
      <3>2. QED
        BY <2>4, <2>5, <3>1
    <2>8. QED
      BY <2>7, FS_Singleton
  <1>4. QED
    BY <1>3 DEF NodesOwned

\* The invariant holds in every state.
THEOREM Inductive == Spec => []IInv
  <1>1. Init => IInv
    BY InitTyped, InitOwns DEF IInv
  <1>2. IInv /\ [Next]_vars => IInv'
    BY NextTyped, NextOwns DEF IInv
  <1>3. QED
    BY <1>1, <1>2, PTL DEF Spec

\* Every variable has its type, whatever is assembled: what waits is of the kind
\* that a later label fills in, and nothing is written to the zero page or past
\* the end of the memory.
THEOREM TypeCorrect == Spec => []TypeOK
  <1>1. IInv => TypeOK
    BY TypedAsMeant DEF IInv
  <1>2. QED
    BY <1>1, Inductive, PTL

\* A reference that was allocated is in one place of one list or is free: however
\* labels, lambdas, references and padding follow each other, none is lost, and none
\* is given out while something waits in it.
THEOREM EachIsInOnePlace == Spec => []NodesOwned
  <1>1. IInv => NodesOwned
    BY OnePlace DEF IInv
  <1>2. QED
    BY <1>1, Inductive, PTL

-----------------------------------------------------------------------------
(***************************************************************************)
(* Every byte has a symbol: those of what waits are in place before it is  *)
(* filled in.                                                              *)
(***************************************************************************)
Mapped == {s[2] : s \in {t \in symbols : t[1] # "label"}}

Mapping ==
  /\ DOMAIN rom \subseteq Mapped
  /\ \A i \in DOMAIN lambdas : Within(lambdas[i], Mapped)
  /\ \A name \in DOMAIN symtab : \A i \in DOMAIN symtab[name].refs : Within(symtab[name].refs[i], Mapped)

\* The symbols of some bytes.
LEMMA SymbolMembers ==
  ASSUME NEW type, NEW at \in Int, NEW n \in Int, NEW id
  PROVE  /\ \A s \in Symbol(type, at, n, id) : s = <<type, s[2], id>> /\ s[1] = type /\ s[3] = id
         /\ \A a \in at .. at + n - 1 : <<type, a, id>> \in Symbol(type, at, n, id)
         /\ n = 1 => Symbol(type, at, n, id) = {<<type, at, id>>}
  <1>1. \A s \in Symbol(type, at, n, id) : \E a \in at .. at + n - 1 : s = <<type, a, id>>
    BY DEF Symbol
  <1>2. \A a \in at .. at + n - 1 : <<type, a, id>> \in Symbol(type, at, n, id)
    BY DEF Symbol
  <1>3. at .. at + 1 - 1 = {at}
    OBVIOUS
  <1>4. n = 1 => Symbol(type, at, n, id) = {<<type, at, id>>}
    BY <1>1, <1>2, <1>3
  <1>5. QED
    BY <1>1, <1>2, <1>4

\* A symbol is never taken back.
LEMMA MappedGrows ==
  ASSUME symbols \subseteq symbols'
  PROVE  Mapped \subseteq Mapped' /\ \A r : Within(r, Mapped) => Within(r, Mapped')
  <1>1. Mapped \subseteq Mapped'
    BY DEF Mapped
  <1>2. QED
    BY <1>1 DEF Within

\* Symbols of bytes map them.
LEMMA MappedBy ==
  ASSUME NEW type, type # "label", NEW at \in Int, NEW n \in Int, NEW id,
         Symbol(type, at, n, id) \subseteq symbols'
  PROVE  at .. at + n - 1 \subseteq Mapped'
  <1> SUFFICES ASSUME NEW a \in at .. at + n - 1
               PROVE  a \in Mapped'
    OBVIOUS
  <1> DEFINE s == <<type, a, id>>
  <1>1. s \in symbols'
    BY SymbolMembers
  <1>2. s[1] = type /\ s[2] = a
    OBVIOUS
  <1>3. QED
    BY <1>1, <1>2 DEF Mapped

\* What is written has symbols.
LEMMA RefMapped ==
  ASSUME Layout, Mapping, NEW rune, RefFits(rune), NEW id,
         NEW bytes, Len(Opcode(rune) \o bytes) = Len(Opcode(rune)) + Size(rune),
         EmitRef(rune, bytes, id)
  PROVE  /\ symbols \subseteq symbols' /\ DOMAIN rom' \subseteq Mapped'
         /\ RefAddr(rune) .. RefAddr(rune) + Size(rune) - 1 \subseteq Mapped'
  <1> DEFINE n == Len(Opcode(rune))
             w == writeAddr
             at == RefAddr(rune)
             all == Opcode(rune) \o bytes
  <1>1. n \in {0, 1} /\ Size(rune) \in {1, 2} /\ Len(all) = n + Size(rune)
    BY Lengths
  <1>2. w \in Int /\ at = w + n
    BY MemoryFacts DEF Layout, RefAddr
  <1>3. /\ symbols' = symbols \union (Symbol("opcode", w, n, 0) \union Symbol("ref", at, Size(rune), id))
        /\ rom' = Put(rom, w, all)
    BY DEF EmitRef, Emit
  <1> HIDE DEF n, w, at, all
  <1>4. symbols \subseteq symbols'
    BY <1>3
  <1>5. w .. w + n - 1 \subseteq Mapped'
    <2>1. Symbol("opcode", w, n, 0) \subseteq symbols' /\ n \in Int /\ "opcode" # "label"
      BY <1>1, <1>3
    <2>2. QED
      BY <1>2, <2>1, MappedBy, Zenon
  <1>6. at .. at + Size(rune) - 1 \subseteq Mapped'
    <2>1. /\ Symbol("ref", at, Size(rune), id) \subseteq symbols'
          /\ at \in Int /\ Size(rune) \in Int /\ "ref" # "label"
      BY <1>1, <1>2, <1>3
    <2>2. QED
      BY <2>1, MappedBy, Zenon
  <1>7. DOMAIN rom' = DOMAIN rom \union (w .. w + Len(all) - 1)
    BY <1>3 DEF Put
  <1>8. w .. w + Len(all) - 1 \subseteq (w .. w + n - 1) \union (at .. at + Size(rune) - 1)
    <2>1. \A k \in {1, 2} :
            w .. w + (n + k) - 1 \subseteq (w .. w + n - 1) \union (at .. at + k - 1)
      BY <1>1, <1>2
    <2>2. QED
      BY <1>1, <2>1
  <1>9. DOMAIN rom \subseteq Mapped'
    BY <1>4, MappedGrows DEF Mapping
  <1>10. QED
    BY <1>4, <1>5, <1>6, <1>7, <1>8, <1>9 DEF at

\* What waits after a step is what waited before it, or is mapped by the step.
LEMMA MappingKept ==
  ASSUME Mapping, symbols \subseteq symbols', DOMAIN rom' \subseteq Mapped',
         \A i \in DOMAIN lambdas' :
           Within(lambdas'[i], Mapped') \/ \E j \in DOMAIN lambdas : lambdas'[i] = lambdas[j],
         \A name \in DOMAIN symtab' : \A i \in DOMAIN symtab'[name].refs :
           \/ Within(symtab'[name].refs[i], Mapped')
           \/ \E j \in DOMAIN Entry(name).refs : symtab'[name].refs[i] = Entry(name).refs[j]
  PROVE  Mapping'
  <1>1. \A r : Within(r, Mapped) => Within(r, Mapped')
    BY MappedGrows
  <1>2. \A i \in DOMAIN lambdas' : Within(lambdas'[i], Mapped')
    BY <1>1 DEF Mapping
  <1>3. ASSUME NEW name \in DOMAIN symtab', NEW i \in DOMAIN symtab'[name].refs
        PROVE  Within(symtab'[name].refs[i], Mapped')
    <2>1. CASE \E j \in DOMAIN Entry(name).refs : symtab'[name].refs[i] = Entry(name).refs[j]
      <3>1. PICK j \in DOMAIN Entry(name).refs : symtab'[name].refs[i] = Entry(name).refs[j]
        BY <2>1
      <3>2. name \in DOMAIN symtab /\ Entry(name) = symtab[name]
        BY <3>1 DEF Entry, Unknown
      <3>3. Within(symtab[name].refs[j], Mapped)
        BY <3>1, <3>2 DEF Mapping
      <3>4. QED
        BY <1>1, <3>1, <3>2, <3>3
    <2>2. QED
      BY <2>1
  <1>4. QED
    BY <1>2, <1>3 DEF Mapping

\* So it is when what waits is the same.
LEMMA KeepsMapping ==
  ASSUME Mapping, symbols \subseteq symbols', DOMAIN rom' \subseteq Mapped',
         lambdas' = lambdas, \A name \in DOMAIN symtab' : symtab'[name].refs = Entry(name).refs
  PROVE  Mapping'
  BY MappingKept

\* Nor does a step lose a symbol that writes nothing.
LEMMA NothingWritten ==
  ASSUME Mapping, symbols \subseteq symbols', rom' = rom
  PROVE  DOMAIN rom' \subseteq Mapped'
  BY MappedGrows DEF Mapping

LEMMA BytesMapped ==
  ASSUME Typing, Mapping, Bytes
  PROVE  Mapping'
  <1> DEFINE bytes == Token(0).bytes
             w == writeAddr
             n == Len(bytes)
  <1>1. n \in Int /\ w \in Int
    <2>1. IsToken(Token(0)) /\ Token(0).kind = "data"
      BY ReadsToken DEF Bytes
    <2>2. QED
      BY <2>1, MemoryFacts DEF IsToken, Typing, Layout
  <1>2. /\ symbols' = symbols \union Symbol("data", w, n, 0) /\ rom' = Put(rom, w, bytes)
        /\ lambdas' = lambdas /\ symtab' = symtab
    BY DEF Bytes, Emit, lists
  <1> HIDE DEF w, bytes
  <1>3. symbols \subseteq symbols' /\ DOMAIN rom' = DOMAIN rom \union (w .. w + n - 1)
    BY <1>2 DEF Put
  <1> HIDE DEF n
  <1>4. w .. w + n - 1 \subseteq Mapped'
    <2>1. Symbol("data", w, n, 0) \subseteq symbols' /\ "data" # "label"
      BY <1>2
    <2>2. QED
      BY <1>1, <2>1, MappedBy, Zenon
  <1>5. DOMAIN rom \subseteq Mapped'
    BY <1>3, MappedGrows DEF Mapping
  <1>6. QED
    BY <1>2, <1>3, <1>4, <1>5, KeepsMapping DEF Entry

\* A reference to what is known.
LEMMA ReferMapped ==
  ASSUME Typing, Mapping, NEW label, label.addr \in Int, Refer(label)
  PROVE  symbols \subseteq symbols' /\ DOMAIN rom' \subseteq Mapped'
  <1> DEFINE bytes == Value(Rune, RefAddr(Rune), label.addr)
  <1>1. RefFits(Rune) /\ EmitRef(Rune, bytes, label.id)
    BY DEF Refer, CanRefer
  <1>2. RefAddr(Rune) \in Int
    BY <1>1, RefInMemory, MemoryFacts DEF Typing
  <1>3. Len(Opcode(Rune) \o bytes) = Len(Opcode(Rune)) + Size(Rune)
    BY <1>2, Lengths
  <1> HIDE DEF bytes
  <1>4. QED
    BY <1>1, <1>3, RefMapped DEF Typing

\* One to what is not, which waits to be filled in.
LEMMA PlaceholderMapped ==
  ASSUME Typing, Mapping, NEW rune, RefFits(rune), NEW id, EmitRef(rune, Placeholder(rune), id)
  PROVE  /\ symbols \subseteq symbols' /\ DOMAIN rom' \subseteq Mapped'
         /\ Within(Waiting(RefAddr(rune), rune, id), Mapped')
  <1>1. Len(Opcode(rune) \o Placeholder(rune)) = Len(Opcode(rune)) + Size(rune)
    BY Lengths
  <1>2. /\ symbols \subseteq symbols' /\ DOMAIN rom' \subseteq Mapped'
        /\ RefAddr(rune) .. RefAddr(rune) + Size(rune) - 1 \subseteq Mapped'
    BY <1>1, RefMapped DEF Typing
  <1> DEFINE r == Waiting(RefAddr(rune), rune, id)
  <1>3. r.addr = RefAddr(rune) /\ r.rune = rune
    BY DEF Waiting
  <1> HIDE DEF r
  <1>4. Within(r, Mapped')
    BY <1>2, <1>3 DEF Within
  <1>5. QED
    BY <1>2, <1>4 DEF r

LEMMA LambdaRefMapped ==
  ASSUME Typing, Mapping, LambdaRef
  PROVE  Mapping'
  <1> DEFINE id == numLabels + 1
             r == Waiting(RefAddr(Rune), Rune, id)
  <1>1. /\ RefFits(Rune) /\ EmitRef(Rune, Placeholder(Rune), id)
        /\ lambdas' = <<r>> \o lambdas /\ symtab' = symtab
    BY DEF LambdaRef
  <1> HIDE DEF id
  <1>2. symbols \subseteq symbols' /\ DOMAIN rom' \subseteq Mapped' /\ Within(r, Mapped')
    BY <1>1, PlaceholderMapped
  <1> HIDE DEF r
  <1>3. \A i \in DOMAIN lambdas' :
          lambdas'[i] = r \/ \E j \in DOMAIN lambdas : lambdas'[i] = lambdas[j]
    <2>1. lambdas \in Seq(Placed)
      BY DEF Typing, Waits
    <2>2. QED
      BY <1>1, <2>1
  <1>4. QED
    BY <1>1, <1>2, <1>3, MappingKept DEF Entry

LEMMA AtRefMapped ==
  ASSUME Typing, Mapping, AtRef
  PROVE  Mapping'
  <1>1. Head(atLabels).addr \in Int
    <2>1. Head(atLabels) \in Pending
      BY DEF AtRef, Typing, Waits
    <2>2. QED
      BY <2>1, MemoryFacts DEF Pending
  <1>2. symbols \subseteq symbols' /\ DOMAIN rom' \subseteq Mapped'
    BY <1>1, ReferMapped DEF AtRef
  <1>3. lambdas' = lambdas /\ symtab' = symtab
    BY DEF AtRef, PopAtLabel
  <1>4. QED
    BY <1>2, <1>3, KeepsMapping DEF Entry

LEMMA BackwardRefMapped ==
  ASSUME Typing, Mapping, BackwardRef
  PROVE  Mapping'
  <1> DEFINE name == FullName(RefTo)
             e == Entry(name)
  <1>1. Refer(e) /\ symtab' = Referenced(name) /\ lambdas' = lambdas
    BY DEF BackwardRef, lists
  <1> HIDE DEF name
  <1>2. e.addr \in Int
    <2>1. IsEntry(e)
      BY EntryTyped DEF Typing
    <2>2. QED
      BY <2>1, MemoryFacts DEF IsEntry
  <1>3. symbols \subseteq symbols' /\ DOMAIN rom' \subseteq Mapped'
    <2> HIDE DEF e
    <2>1. QED
      BY <1>1, <1>2, ReferMapped
  <1>4. QED
    BY <1>1, <1>3, ReferencedTyped, KeepsMapping DEF Typing

LEMMA ForwardRefMapped ==
  ASSUME Typing, Mapping, ForwardRef
  PROVE  Mapping'
  <1> DEFINE name == FullName(RefTo)
             e == Entry(name)
             id == IdFor(e)
             r == Waiting(RefAddr(Rune), Rune, id)
  <1>1. RefFits(Rune) /\ EmitRef(Rune, Placeholder(Rune), id) /\ lambdas' = lambdas
    BY DEF ForwardRef
  <1>2. \A other \in DOMAIN symtab' :
          symtab'[other].refs = IF other = name THEN <<r>> \o e.refs ELSE Entry(other).refs
    BY ForwardRefTyped
  <1>3. e.refs \in Seq(Placed)
    <2>1. IsEntry(e)
      BY EntryTyped DEF Typing
    <2>2. QED
      BY <2>1 DEF IsEntry
  <1> HIDE DEF id, name
  <1>4. symbols \subseteq symbols' /\ DOMAIN rom' \subseteq Mapped' /\ Within(r, Mapped')
    BY <1>1, PlaceholderMapped
  <1> HIDE DEF r
  <1>5. ASSUME NEW other \in DOMAIN symtab', NEW i \in DOMAIN symtab'[other].refs
        PROVE  \/ symtab'[other].refs[i] = r
               \/ \E j \in DOMAIN Entry(other).refs : symtab'[other].refs[i] = Entry(other).refs[j]
    <2>1. CASE other # name
      BY <1>2, <1>5, <2>1
    <2>2. CASE other = name
      <3>1. symtab'[other].refs = <<r>> \o e.refs /\ Entry(other) = e
        BY <1>2, <2>2
      <3> HIDE DEF e
      <3>2. QED
        BY <1>3, <1>5, <3>1
    <2>3. QED
      BY <2>1, <2>2
  <1>6. QED
    BY <1>1, <1>4, <1>5, MappingKept

\* What a label or the end of a lambda fills in was mapped when it was left.
LEMMA LabelMapped ==
  ASSUME Typing, Mapping, GlobalLabel \/ LocalLabel
  PROVE  Mapping'
  <1>1. PICK name :
          /\ Register(name) /\ Typing' /\ DOMAIN symtab' = DOMAIN symtab \union {name}
          /\ \A other \in DOMAIN symtab' :
               symtab'[other].refs = IF other = name THEN <<>> ELSE Entry(other).refs
    BY LabelTyped
  <1> DEFINE refs == Entry(name).refs
  <1>2. symbols \subseteq symbols' /\ rom' = FilledIn(refs) /\ lambdas' = lambdas
    BY <1>1 DEF Register
  <1>3. refs \in Seq(Placed)
    <2>1. IsEntry(Entry(name))
      BY EntryTyped DEF Typing
    <2>2. QED
      BY <2>1 DEF IsEntry
  <1>4. \A i \in DOMAIN refs : Within(refs[i], Mapped)
    <2>1. name \in DOMAIN symtab => \A i \in DOMAIN symtab[name].refs : Within(symtab[name].refs[i], Mapped)
      BY DEF Mapping
    <2>2. name \notin DOMAIN symtab => DOMAIN refs = {}
      BY DEF Entry, Unknown
    <2>3. QED
      BY <2>1, <2>2 DEF Entry
  <1> HIDE DEF refs
  <1>5. DOMAIN rom' \subseteq Mapped
    BY <1>2, <1>3, <1>4, AllFilledIn DEF Typing, Mapping
  <1>6. \A other \in DOMAIN symtab' : \A i \in DOMAIN symtab'[other].refs :
          \E j \in DOMAIN Entry(other).refs : symtab'[other].refs[i] = Entry(other).refs[j]
    BY <1>1
  <1>7. QED
    BY <1>2, <1>5, <1>6, MappedGrows, MappingKept

LEMMA LambdaCloseMapped ==
  ASSUME Typing, Mapping, LambdaClose
  PROVE  Mapping'
  <1> DEFINE r == Head(lambdas)
  <1>1. /\ rom' = Put(rom, r.addr, Value(r.rune, r.addr, writeAddr)) /\ symbols \subseteq symbols'
        /\ lambdas' = Tail(lambdas) /\ symtab' = symtab /\ lambdas # <<>>
    BY DEF LambdaClose, CanClose
  <1>2. lambdas \in Seq(Placed)
    BY DEF Typing, Waits
  <1>3. r = lambdas[1] /\ 1 \in DOMAIN lambdas /\ r \in Placed
    BY <1>1, <1>2
  <1>4. Within(r, Mapped)
    <2> HIDE DEF r
    <2>1. Within(lambdas[1], Mapped)
      BY <1>3 DEF Mapping
    <2>2. QED
      BY <1>3, <2>1
  <1>5. writeAddr \in Int /\ DOMAIN rom \subseteq Mapped
    BY MemoryFacts DEF Typing, Layout, Mapping
  <1>6. \A i \in DOMAIN lambdas' : \E j \in DOMAIN lambdas : lambdas'[i] = lambdas[j]
    BY <1>1, <1>2
  <1> HIDE DEF r
  <1>7. FilledFrom(rom', rom, Value(r.rune, r.addr, writeAddr), Mapped)
    BY <1>1, <1>3, <1>4, <1>5, FillsPlaced
  <1>8. DOMAIN rom' \subseteq Mapped'
    BY <1>1, <1>7, MappedGrows DEF FilledFrom
  <1>9. QED
    BY <1>1, <1>6, <1>8, MappingKept DEF Entry

\* Steps that write nothing and leave what waits.
LEMMA OthersMapped ==
  ASSUME Typing, Mapping, symbols \subseteq symbols', rom' = rom, lambdas' = lambdas,
         \/ symtab' = symtab
         \/ \A name \in DOMAIN symtab' : symtab'[name].refs = Entry(name).refs
  PROVE  Mapping'
  BY NothingWritten, KeepsMapping DEF Entry

LEMMA NextMapped ==
  ASSUME Typing, Mapping, [Next]_vars
  PROVE  Mapping'
  <1>1. CASE Bytes
    BY <1>1, BytesMapped
  <1>2. CASE LambdaRef
    BY <1>2, LambdaRefMapped
  <1>3. CASE AtRef
    BY <1>3, AtRefMapped
  <1>4. CASE BackwardRef
    BY <1>4, BackwardRefMapped
  <1>5. CASE ForwardRef
    BY <1>5, ForwardRefMapped
  <1>6. CASE GlobalLabel \/ LocalLabel
    BY <1>6, LabelMapped
  <1>7. CASE LambdaClose
    BY <1>7, LambdaCloseMapped
  <1>8. CASE AtLabel \/ PaddingToAt
    BY <1>8, OthersMapped DEF AtLabel, PaddingToAt, PopAtLabel
  <1>9. CASE Padding
    BY <1>9, OthersMapped DEF Padding, lists
  <1>10. CASE PaddingTo
    <2>1. \E name : symtab' = Referenced(name)
      BY <1>10 DEF PaddingTo
    <2>2. \A name \in DOMAIN symtab' : symtab'[name].refs = Entry(name).refs
      BY <2>1, ReferencedTyped DEF Typing
    <2>3. QED
      BY <1>10, <2>2, OthersMapped DEF PaddingTo, lists
  <1>11. CASE Define
    BY <1>11, DefineTyped, OthersMapped DEF Define, output, lists
  <1>12. CASE DefinitionHead
    BY <1>12, HeadTyped, OthersMapped DEF DefinitionHead, output, lists
  <1>13. CASE DefinitionBody
    BY <1>13, BodyTyped, OthersMapped DEF DefinitionBody, output, lists
  <1>14. CASE Expand
    BY <1>14, ExpandTyped, OthersMapped DEF Expand, output, lists
  <1>15. CASE Skip \/ BeginComment \/ InComment
    BY <1>15, OthersMapped DEF Skip, BeginComment, InComment, output, lists
  <1>16. CASE ProcessInclude \/ EndUnit \/ ReadDeferred
    BY <1>16, OthersMapped DEF ProcessInclude, EndUnit, ReadDeferred, output, lists
  <1>17. CASE EndUnitBadly \/ Refuse \/ MissDeferred
    <2>1. Fail
      BY <1>17 DEF EndUnitBadly, Refuse, MissDeferred
    <2>2. QED
      BY <2>1, OthersMapped DEF Fail, output, lists
  <1>18. CASE Finish
    BY <1>18, OthersMapped DEF Finish, lists
  <1>19. CASE Done \/ UNCHANGED vars
    BY <1>19, OthersMapped DEF Done, vars, output, lists
  <1>20. QED
    BY <1>1, <1>2, <1>3, <1>4, <1>5, <1>6, <1>7, <1>8, <1>9, <1>10, <1>11, <1>12, <1>13,
       <1>14, <1>15, <1>16, <1>17, <1>18, <1>19 DEF Next

LEMMA InitMapped ==
  ASSUME Init
  PROVE  Mapping
  BY DEF Init, Mapping

\* Every byte of the image has a symbol, for every program: that of what a label or
\* the end of a lambda fills in is the one its placeholder was given.
THEOREM EachByteHasASymbol == Spec => []EveryByteMapped
  <1>1. Init => Typing /\ Mapping
    BY InitTyped, InitMapped
  <1>2. Typing /\ Mapping /\ [Next]_vars => (Typing /\ Mapping)'
    BY NextTyped, NextMapped
  <1>3. Mapping => EveryByteMapped
    BY DEF Mapping, Mapped, EveryByteMapped
  <1>4. QED
    BY <1>1, <1>2, <1>3, PTL DEF Spec

-----------------------------------------------------------------------------
(***************************************************************************)
(* The numbers of labels: one that was given is that of a label, of a      *)
(* lambda that is open or of a name that is waited for, and only of one.   *)
(***************************************************************************)
Labels == {s \in symbols : s[1] = "label"}
Labelled == {s[3] : s \in Labels}
Open == {lambdas[i].id : i \in DOMAIN lambdas}
Forwards == {name \in DOMAIN symtab : symtab[name].type = "forward"}
Expected == {symtab[name].id : name \in Forwards}
Numbers == Labelled \union Open \union Expected

\* The symbol of a label, where it is in r.
SymbolOf(r) == <<"label", r.addr, r.id>>

Apart ==
  /\ Numbers \subseteq 1 .. numLabels
  /\ Labelled \intersect (Open \union Expected) = {} /\ Open \intersect Expected = {}
  /\ \A i, j \in DOMAIN lambdas : lambdas[i].id = lambdas[j].id => i = j
  /\ \A x, y \in Forwards : symtab[x].id = symtab[y].id => x = y
  /\ \A s, t \in Labels : s[3] = t[3] => s = t

Known ==
  /\ \A name \in DOMAIN symtab : symtab[name].type = "label" => SymbolOf(symtab[name]) \in symbols
  /\ \A i \in DOMAIN atLabels : SymbolOf(atLabels[i]) \in symbols
  /\ \A s \in symbols : s[1] = "ref" => s[3] \in Numbers

Settled == phase = "done" /\ success => Open = {} /\ Expected = {}

Numbering == Apart /\ Known /\ Settled

\* As far as its number goes, f is the entry that e was.
Alike(f, e) ==
  /\ f.type = "forward" <=> e.type = "forward"
  /\ f.type = "forward" => f.id = e.id
  /\ f.type = "label" => e.type = "label" /\ SymbolOf(f) = SymbolOf(e)

\* The names waited for, when those in names may have changed.
TableAlike(names) ==
  /\ DOMAIN symtab \subseteq DOMAIN symtab'
  /\ \A name \in DOMAIN symtab' \ names : Alike(symtab'[name], Entry(name))

\* Symbols of bytes add no label.
LEMMA NoLabel ==
  ASSUME NEW syms, symbols' = symbols \union syms, \A s \in syms : s[1] # "label"
  PROVE  Labels' = Labels /\ Labelled' = Labelled
  BY DEF Labels, Labelled

\* The symbol of a label adds its number.
LEMMA NewLabel ==
  ASSUME Apart, NEW a, NEW id, symbols' = symbols \union {<<"label", a, id>>}
  PROVE  /\ Labels' = Labels \union {<<"label", a, id>>} /\ Labelled' = Labelled \union {id}
         /\ \A s \in symbols' : s[1] = "ref" => s \in symbols
         /\ id \notin Labelled => \A s, t \in Labels' : s[3] = t[3] => s = t
  <1> DEFINE new == <<"label", a, id>>
  <1>1. new[1] = "label" /\ new[3] = id /\ "label" # "ref"
    OBVIOUS
  <1>2. symbols' = symbols \union {new}
    OBVIOUS
  <1> HIDE DEF new
  <1>3. Labels' = Labels \union {new}
    BY <1>1, <1>2 DEF Labels
  <1>4. Labelled' = Labelled \union {id}
    BY <1>1, <1>3 DEF Labelled
  <1>5. \A s \in symbols' : s[1] = "ref" => s \in symbols
    BY <1>1, <1>2
  <1>6. ASSUME id \notin Labelled, NEW s \in Labels', NEW t \in Labels', s[3] = t[3]
        PROVE  s = t
    BY <1>1, <1>3, <1>6 DEF Labelled, Apart
  <1>7. QED
    BY <1>3, <1>4, <1>5, <1>6 DEF new

\* The symbols of a reference and of its opcode.
LEMMA RefSymbols ==
  ASSUME Layout, NEW rune, NEW id, NEW bytes, EmitRef(rune, bytes, id)
  PROVE  \E syms : /\ symbols' = symbols \union syms
                   /\ \A s \in syms : s[1] # "label" /\ (s[1] = "ref" => s[3] = id)
  <1> DEFINE n == Len(Opcode(rune))
             at == RefAddr(rune)
             opcodes == Symbol("opcode", writeAddr, n, 0)
             refs == Symbol("ref", at, Size(rune), id)
  <1>1. n \in {0, 1} /\ Size(rune) \in {1, 2}
    BY Lengths
  <1>2. writeAddr \in Int /\ at \in Int
    BY <1>1, MemoryFacts DEF Layout, RefAddr
  <1>3. symbols' = symbols \union (opcodes \union refs)
    BY DEF EmitRef, Emit
  <1> HIDE DEF n, at
  <1>4. \A s \in opcodes : s[1] = "opcode"
    BY <1>1, <1>2, SymbolMembers
  <1>5. \A s \in refs : s[1] = "ref" /\ s[3] = id
    BY <1>1, <1>2, SymbolMembers
  <1> HIDE DEF opcodes, refs
  <1> DEFINE syms == opcodes \union refs
  <1>6. \A s \in syms : s[1] # "label" /\ (s[1] = "ref" => s[3] = id)
    <2> TAKE s \in syms
    <2>1. CASE s \in opcodes
      BY <1>4, <2>1
    <2>2. CASE s \in refs
      BY <1>5, <2>2
    <2>3. QED
      BY <2>1, <2>2
  <1> HIDE DEF syms
  <1>7. symbols' = symbols \union syms
    BY <1>3 DEF syms
  <1>8. QED
    BY <1>6, <1>7

\* What is waited for, when the table is as it was but for one name.
LEMMA ForwardsAlike ==
  ASSUME NEW names, TableAlike(names)
  PROVE  /\ Forwards' \ names = Forwards \ names
         /\ \A name \in Forwards \ names : symtab'[name].id = symtab[name].id
  <1>1. ASSUME NEW name \in DOMAIN symtab' \ names
        PROVE  name \in Forwards' <=> name \in Forwards
    BY DEF TableAlike, Alike, Forwards, Entry, Unknown
  <1>2. ASSUME NEW name \in Forwards \ names
        PROVE  name \in DOMAIN symtab' /\ symtab'[name].id = symtab[name].id
    BY DEF TableAlike, Alike, Forwards, Entry
  <1>3. Forwards' \subseteq DOMAIN symtab'
    BY DEF Forwards
  <1>4. QED
    BY <1>1, <1>2, <1>3

LEMMA SameForwards ==
  ASSUME TableAlike({})
  PROVE  /\ Forwards' = Forwards /\ Expected' = Expected
         /\ \A name \in Forwards : symtab'[name].id = symtab[name].id
  <1>1. Forwards' = Forwards /\ \A name \in Forwards : symtab'[name].id = symtab[name].id
    BY ForwardsAlike
  <1>2. QED
    BY <1>1 DEF Expected

\* The names that are defined keep their labels.
LEMMA DefinedKept ==
  ASSUME Known, symbols \subseteq symbols', NEW names, TableAlike(names)
  PROVE  \A name \in DOMAIN symtab' \ names :
           symtab'[name].type = "label" => SymbolOf(symtab'[name]) \in symbols'
  <1> SUFFICES ASSUME NEW name \in DOMAIN symtab' \ names, symtab'[name].type = "label"
               PROVE  SymbolOf(symtab'[name]) \in symbols'
    OBVIOUS
  <1>1. Entry(name).type = "label" /\ SymbolOf(symtab'[name]) = SymbolOf(Entry(name))
    BY DEF TableAlike, Alike
  <1>2. name \in DOMAIN symtab /\ Entry(name) = symtab[name]
    BY <1>1 DEF Entry, Unknown
  <1>3. QED
    BY <1>1, <1>2 DEF Known

AtLabelsKept == \A i \in DOMAIN atLabels' : \E j \in DOMAIN atLabels : atLabels'[i] = atLabels[j]

\* A step that gives no number keeps them apart.
LEMMA NumbersKept ==
  ASSUME Apart, Known, TableAlike({}), lambdas' = lambdas, numLabels' = numLabels, AtLabelsKept,
         NEW syms, symbols' = symbols \union syms,
         \A s \in syms : s[1] # "label" /\ (s[1] = "ref" => s[3] \in Numbers)
  PROVE  Apart' /\ Known'
  <1>1. Labels' = Labels /\ Labelled' = Labelled
    BY NoLabel
  <1>2. Open' = Open
    BY DEF Open
  <1>3. /\ Forwards' = Forwards /\ Expected' = Expected
        /\ \A name \in Forwards : symtab'[name].id = symtab[name].id
    BY SameForwards
  <1>4. Numbers' = Numbers
    BY <1>1, <1>2, <1>3 DEF Numbers
  <1>5. Apart'
    BY <1>1, <1>2, <1>3, <1>4 DEF Apart
  <1>6. \A name \in DOMAIN symtab' :
          symtab'[name].type = "label" => SymbolOf(symtab'[name]) \in symbols'
    BY DefinedKept
  <1>7. \A i \in DOMAIN atLabels' : SymbolOf(atLabels'[i]) \in symbols'
    BY DEF AtLabelsKept, Known
  <1>8. \A s \in symbols' : s[1] = "ref" => s[3] \in Numbers'
    BY <1>4 DEF Known
  <1>9. QED
    BY <1>5, <1>6, <1>7, <1>8 DEF Known

\* A table that is the same, or in which a name is only referred to.
LEMMA SameTable ==
  ASSUME symtab' = symtab
  PROVE  TableAlike({})
  BY DEF TableAlike, Alike, Entry

LEMMA ReferencedAlike ==
  ASSUME Typing, NEW name, symtab' = Referenced(name)
  PROVE  TableAlike({})
  <1> DEFINE e == Entry(name)
             f == [e EXCEPT !.referenced = TRUE]
  <1>1. symtab' = With(name, f)
    BY DEF Referenced
  <1>2. IsEntry(e)
    BY EntryTyped DEF Typing
  <1>3. IsEntry(f) /\ f.type = e.type /\ f.id = e.id /\ f.addr = e.addr
    <2> HIDE DEF e
    <2>1. IsEntry(f)
      BY <1>2, ReferencedEntry
    <2>2. QED
      BY <1>2, <2>1 DEF IsEntry
  <1> HIDE DEF f
  <1>4. /\ DOMAIN symtab' = DOMAIN symtab \union {name}
        /\ \A other \in DOMAIN symtab' : symtab'[other] = IF other = name THEN f ELSE Entry(other)
    BY <1>1, <1>3, WithTable DEF Typing
  <1>5. Alike(f, e)
    <2> HIDE DEF e
    <2>1. QED
      BY <1>3 DEF Alike, SymbolOf
  <1>6. QED
    BY <1>4, <1>5 DEF TableAlike, Alike

\* Defining a macro leaves what is waited for, and no label is known that was not.
LEMMA WithAlike ==
  ASSUME Typing, NEW name, NEW f, symtab' = With(name, f), Alike(f, Entry(name))
  PROVE  TableAlike({})
  BY DEF TableAlike, Alike, With, Entry

LEMMA DefineAlike ==
  ASSUME Typing, Define
  PROVE  TableAlike({})
  <1> DEFINE name == Token(0).name
  <1>1. symtab' = With(name, Unknown) /\ Entry(name).type = "unknown"
    BY DEF Define, CanDefine
  <1>2. Alike(Unknown, Entry(name))
    BY <1>1 DEF Alike, Unknown
  <1> HIDE DEF name
  <1>3. QED
    BY <1>1, <1>2, WithAlike

LEMMA HeadAlike ==
  ASSUME Typing, DefinitionHead
  PROVE  TableAlike({})
  <1> DEFINE name == defining.name
             macro == [Unknown EXCEPT !.type = "macro"]
  <1>1. symtab' = symtab \/ symtab' = With(name, macro)
    BY DEF DefinitionHead
  <1>2. macro.type = "macro"
    BY DEF Unknown
  <1>3. Entry(name).type # "forward"
    BY DEF DefinitionHead, ReadsDefinition, Typing, Defining
  <1> HIDE DEF macro, name
  <1>4. Alike(macro, Entry(name))
    BY <1>2, <1>3 DEF Alike
  <1>5. QED
    BY <1>1, <1>4, WithAlike, SameTable

LEMMA BodyAlike ==
  ASSUME Typing, DefinitionBody
  PROVE  TableAlike({})
  <1> DEFINE name == defining.name
             token == Token(0)
             grown == [symtab EXCEPT ![name].body = Append(@, token)]
  <1>1. symtab' = symtab \/ symtab' = grown
    BY DEF DefinitionBody
  <1> HIDE DEF token
  <1>2. CASE symtab' = grown
    <2>1. symtab = [other \in DOMAIN symtab |-> symtab[other]]
      BY DEF Typing, Table
    <2>2. DOMAIN symtab' = DOMAIN symtab /\ \A other \in DOMAIN symtab \ {name} : symtab'[other] = symtab[other]
      BY <1>2, <2>1
    <2>3. ASSUME name \in DOMAIN symtab
          PROVE  Alike(symtab'[name], Entry(name))
      <3> DEFINE e == symtab[name]
                 f == [e EXCEPT !.body = Append(@, token)]
      <3>1. symtab'[name] = f /\ Entry(name) = e
        BY <1>2, <2>1, <2>3 DEF Entry
      <3>2. IsEntry(e)
        BY <2>3 DEF Typing, Table
      <3> HIDE DEF e
      <3>3. f.type = e.type /\ f.id = e.id /\ f.addr = e.addr
        BY <3>2 DEF IsEntry
      <3> HIDE DEF f
      <3>4. QED
        BY <3>1, <3>3 DEF Alike, SymbolOf
    <2>4. QED
      BY <2>2, <2>3 DEF TableAlike, Alike, Entry
  <1>3. QED
    BY <1>1, <1>2, SameTable

\* A number is given to a lambda, to a name or to an anonymous label.
LEMMA LambdaRefNumbers ==
  ASSUME Typing, Apart, Known, LambdaRef
  PROVE  Apart' /\ Known'
  <1> DEFINE id == numLabels + 1
             r == Waiting(RefAddr(Rune), Rune, id)
  <1>1. /\ EmitRef(Rune, Placeholder(Rune), id) /\ numLabels' = id
        /\ lambdas' = <<r>> \o lambdas /\ symtab' = symtab /\ atLabels' = atLabels
    BY DEF LambdaRef
  <1>2. r.id = id
    BY DEF Waiting
  <1>3. numLabels \in Nat /\ lambdas \in Seq(Placed)
    BY DEF Typing, Layout, Waits
  <1>4. id = numLabels + 1
    OBVIOUS
  <1> HIDE DEF id, r
  <1>5. PICK syms : /\ symbols' = symbols \union syms
                    /\ \A s \in syms : s[1] # "label" /\ (s[1] = "ref" => s[3] = id)
    BY <1>1, RefSymbols DEF Typing
  <1>6. Labels' = Labels /\ Labelled' = Labelled
    BY <1>5, NoLabel
  <1>7. TableAlike({})
    BY <1>1, SameTable
  <1>8. /\ Forwards' = Forwards /\ Expected' = Expected
        /\ \A name \in Forwards : symtab'[name].id = symtab[name].id
    BY <1>7, SameForwards
  <1>9. /\ Len(lambdas') = Len(lambdas) + 1 /\ lambdas'[1] = r
        /\ DOMAIN lambdas' = 1 .. Len(lambdas') /\ DOMAIN lambdas = 1 .. Len(lambdas)
        /\ \A i \in 2 .. Len(lambdas') : lambdas'[i] = lambdas[i - 1] /\ i - 1 \in 1 .. Len(lambdas)
        /\ \A i \in 1 .. Len(lambdas) : lambdas'[i + 1] = lambdas[i] /\ i + 1 \in 1 .. Len(lambdas')
        /\ Len(lambdas) \in Nat
    BY <1>1, <1>3
  <1>10. Open' = Open \union {id}
    <2>1. ASSUME NEW i \in DOMAIN lambdas'
          PROVE  lambdas'[i].id \in Open \union {id}
      <3>1. i = 1 \/ i \in 2 .. Len(lambdas')
        BY <1>9
      <3>2. QED
        BY <1>2, <1>9, <3>1 DEF Open
    <2>2. ASSUME NEW i \in DOMAIN lambdas
          PROVE  lambdas[i].id \in Open'
      BY <1>9 DEF Open
    <2>3. id \in Open'
      <3>1. 1 \in DOMAIN lambdas'
        BY <1>9
      <3>2. QED
        BY <1>2, <1>9, <3>1 DEF Open
    <2>4. QED
      BY <2>1, <2>2, <2>3 DEF Open
  <1>11. id \notin Numbers /\ Numbers \subseteq 1 .. id /\ id \in 1 .. id
    BY <1>3, <1>4 DEF Apart
  <1>12. Numbers' = Numbers \union {id}
    BY <1>6, <1>8, <1>10 DEF Numbers
  <1>13. \A i, j \in DOMAIN lambdas' : lambdas'[i].id = lambdas'[j].id => i = j
    <2>1. \A i \in 2 .. Len(lambdas') : lambdas'[i].id # id
      BY <1>9, <1>11 DEF Numbers, Open
    <2>2. \A i, j \in 2 .. Len(lambdas') : lambdas'[i].id = lambdas'[j].id => i = j
      <3>1. ASSUME NEW i \in 2 .. Len(lambdas'), NEW j \in 2 .. Len(lambdas'),
                   lambdas'[i].id = lambdas'[j].id
            PROVE  i = j
        <4>1. i - 1 = j - 1
          BY <1>9, <3>1, SMTT(30) DEF Apart
        <4>2. QED
          BY <1>9, <4>1
      <3>2. QED
        BY <3>1
    <2>3. \A i \in DOMAIN lambdas' : i = 1 \/ i \in 2 .. Len(lambdas')
      BY <1>9
    <2>4. QED
      BY <1>2, <1>9, <2>1, <2>2, <2>3
  <1>14. Apart'
    BY <1>1, <1>6, <1>8, <1>10, <1>11, <1>12, <1>13 DEF Apart, Numbers
  <1>15. Known'
    <2>1. \A name \in DOMAIN symtab' :
            symtab'[name].type = "label" => SymbolOf(symtab'[name]) \in symbols'
      BY <1>5, <1>7, DefinedKept
    <2>2. \A i \in DOMAIN atLabels' : SymbolOf(atLabels'[i]) \in symbols'
      BY <1>1, <1>5 DEF Known
    <2>3. \A s \in symbols' : s[1] = "ref" => s[3] \in Numbers'
      BY <1>5, <1>12 DEF Known
    <2>4. QED
      BY <2>1, <2>2, <2>3 DEF Known
  <1>16. QED
    BY <1>14, <1>15

\* The step of a name that a reference waits for.
LEMMA ForwardAlike ==
  ASSUME Typing, ForwardRef
  PROVE  LET name == FullName(RefTo)
             e == Entry(name)
             id == IdFor(e)
         IN  /\ TableAlike({name}) /\ EmitRef(Rune, Placeholder(Rune), id)
             /\ name \in DOMAIN symtab' /\ symtab'[name].type = "forward" /\ symtab'[name].id = id
             /\ e.type \in {"unknown", "forward"}
             /\ numLabels' = IF e.type = "unknown" THEN numLabels + 1 ELSE numLabels
             /\ UNCHANGED <<lambdas, atLabels>>
  <1> DEFINE name == FullName(RefTo)
             e == Entry(name)
             id == IdFor(e)
             r == Waiting(RefAddr(Rune), Rune, id)
             f == Forward(e, r)
  <1>1. /\ e.type \in {"unknown", "forward"} /\ symtab' = With(name, f)
        /\ EmitRef(Rune, Placeholder(Rune), id) /\ UNCHANGED <<lambdas, atLabels>>
        /\ numLabels' = IF e.type = "unknown" THEN numLabels + 1 ELSE numLabels
    BY DEF ForwardRef
  <1>2. IsEntry(e)
    BY EntryTyped DEF Typing
  <1>3. r.id = id
    BY DEF Waiting
  <1>4. f.type = "forward" /\ f.id = id
    <2> HIDE DEF e, r
    <2> QED
      BY <1>2, <1>3 DEF IsEntry, Forward
  <1>5. TableAlike({name}) /\ name \in DOMAIN symtab' /\ symtab'[name] = f
    <2> HIDE DEF f, name
    <2> QED
      BY <1>1 DEF TableAlike, Alike, With, Entry
  <1>6. QED
    BY <1>1, <1>4, <1>5

LEMMA ForwardRefNumbers ==
  ASSUME Typing, Apart, Known, ForwardRef
  PROVE  Apart' /\ Known'
  <1> DEFINE name == FullName(RefTo)
             e == Entry(name)
             id == IdFor(e)
  <1>1. /\ TableAlike({name}) /\ EmitRef(Rune, Placeholder(Rune), id)
        /\ name \in DOMAIN symtab' /\ symtab'[name].type = "forward" /\ symtab'[name].id = id
        /\ e.type \in {"unknown", "forward"}
        /\ numLabels' = IF e.type = "unknown" THEN numLabels + 1 ELSE numLabels
        /\ UNCHANGED <<lambdas, atLabels>>
    BY ForwardAlike
  <1>2. /\ name \in Forwards <=> e.type = "forward"
        /\ e.type = "forward" => e = symtab[name]
        /\ id = IF e.type = "unknown" THEN numLabels + 1 ELSE e.id
    BY DEF Forwards, Entry, Unknown, IdFor
  <1> HIDE DEF id, e, name
  <1>3. PICK syms : /\ symbols' = symbols \union syms
                    /\ \A s \in syms : s[1] # "label" /\ (s[1] = "ref" => s[3] = id)
    BY <1>1, RefSymbols DEF Typing
  <1>4. Labels' = Labels /\ Labelled' = Labelled /\ Open' = Open
    BY <1>1, <1>3, NoLabel DEF Open
  <1>5. name \in Forwards'
    BY <1>1 DEF Forwards
  <1>6. /\ Forwards' = Forwards \union {name}
        /\ \A other \in Forwards \ {name} : symtab'[other].id = symtab[other].id
    BY <1>1, <1>5, ForwardsAlike
  <1>7. /\ \A i \in DOMAIN atLabels' : SymbolOf(atLabels'[i]) \in symbols'
        /\ \A other \in DOMAIN symtab' :
             symtab'[other].type = "label" => SymbolOf(symtab'[other]) \in symbols'
    BY <1>1, <1>3, DefinedKept DEF Known
  <1>8. CASE e.type = "unknown"
    <2>1. numLabels \in Nat /\ id = numLabels + 1 /\ numLabels' = id /\ name \notin Forwards
      BY <1>1, <1>2, <1>8 DEF Typing, Layout
    <2>2. id \notin Numbers /\ Numbers \subseteq 1 .. id /\ id \in 1 .. id
      BY <2>1 DEF Apart
    <2>3. Expected' = Expected \union {id}
      BY <1>1, <1>6, <2>1 DEF Expected
    <2>4. Numbers' = Numbers \union {id}
      BY <1>4, <2>3 DEF Numbers
    <2>5. ASSUME NEW x \in Forwards', NEW y \in Forwards', symtab'[x].id = symtab'[y].id
          PROVE  x = y
      <3>1. \A z \in Forwards \ {name} : symtab'[z].id # id
        BY <1>6, <2>2 DEF Numbers, Expected
      <3>2. QED
        BY <1>1, <1>6, <2>5, <3>1 DEF Apart
    <2>6. Apart'
      BY <1>1, <1>4, <2>1, <2>2, <2>3, <2>4, <2>5 DEF Apart, Numbers
    <2>7. QED
      BY <1>3, <1>7, <2>4, <2>6 DEF Known
  <1>9. CASE e.type = "forward"
    <2>1. numLabels' = numLabels /\ id = symtab[name].id /\ name \in Forwards /\ Forwards' = Forwards
      BY <1>1, <1>2, <1>6, <1>9
    <2>2. \A other \in Forwards : symtab'[other].id = symtab[other].id
      BY <1>1, <1>6, <2>1
    <2>3. Expected' = Expected /\ id \in Expected
      BY <2>1, <2>2 DEF Expected
    <2>4. Numbers' = Numbers /\ id \in Numbers
      BY <1>4, <2>3 DEF Numbers
    <2>5. Apart'
      BY <1>1, <1>4, <2>1, <2>2, <2>3, <2>4 DEF Apart
    <2>6. QED
      BY <1>3, <1>7, <2>4, <2>5 DEF Known
  <1>10. QED
    BY <1>1, <1>8, <1>9

LEMMA AtLabelNumbers ==
  ASSUME Typing, Apart, Known, AtLabel
  PROVE  Apart' /\ Known'
  <1> DEFINE id == numLabels + 1
             r == Waiting(writeAddr, "", id)
  <1>1. /\ numLabels' = id /\ symbols' = symbols \union Symbol("label", writeAddr, 1, id)
        /\ atLabels' = <<r>> \o atLabels /\ symtab' = symtab /\ lambdas' = lambdas
    BY DEF AtLabel
  <1>2. SymbolOf(r) = <<"label", writeAddr, id>>
    BY DEF Waiting, SymbolOf
  <1>3. numLabels \in Nat /\ writeAddr \in Int /\ atLabels \in Seq(Pending) /\ id = numLabels + 1
    BY MemoryFacts DEF Typing, Layout, Waits
  <1> HIDE DEF id, r
  <1>4. symbols' = symbols \union {SymbolOf(r)}
    <2>1. Symbol("label", writeAddr, 1, id) = {<<"label", writeAddr, id>>}
      BY <1>3, SymbolMembers
    <2>2. QED
      BY <1>1, <1>2, <2>1
  <1>5. id \notin Numbers /\ Numbers \subseteq 1 .. id /\ id \in 1 .. id
    BY <1>3 DEF Apart
  <1>6. /\ Labelled' = Labelled \union {id}
        /\ \A s \in symbols' : s[1] = "ref" => s \in symbols
        /\ \A s, t \in Labels' : s[3] = t[3] => s = t
    <2>1. symbols' = symbols \union {<<"label", writeAddr, id>>} /\ id \notin Labelled
      BY <1>2, <1>4, <1>5 DEF Numbers
    <2>2. QED
      BY <2>1, NewLabel
  <1>7. TableAlike({}) /\ Open' = Open
    BY <1>1, SameTable DEF Open
  <1>8. /\ Forwards' = Forwards /\ Expected' = Expected
        /\ \A name \in Forwards : symtab'[name].id = symtab[name].id
    BY <1>7, SameForwards
  <1>9. Numbers' = Numbers \union {id}
    BY <1>6, <1>7, <1>8 DEF Numbers
  <1>10. Apart'
    BY <1>1, <1>5, <1>6, <1>7, <1>8, <1>9 DEF Apart, Numbers
  <1>11. Known'
    <2>1. \A name \in DOMAIN symtab' :
            symtab'[name].type = "label" => SymbolOf(symtab'[name]) \in symbols'
      BY <1>4, <1>7, DefinedKept
    <2>2. \A i \in DOMAIN atLabels' : SymbolOf(atLabels'[i]) \in symbols'
      <3>1. \A i \in DOMAIN atLabels' :
              atLabels'[i] = r \/ \E j \in DOMAIN atLabels : atLabels'[i] = atLabels[j]
        BY <1>1, <1>3
      <3>2. QED
        BY <1>4, <3>1 DEF Known
    <2>3. \A s \in symbols' : s[1] = "ref" => s[3] \in Numbers'
      BY <1>6, <1>9 DEF Known
    <2>4. QED
      BY <2>1, <2>2, <2>3 DEF Known
  <1>12. QED
    BY <1>10, <1>11

\* The step of a name that is defined: the number that was waited for is the label's.
LEMMA RegisterAlike ==
  ASSUME Typing, NEW name, Register(name)
  PROVE  LET e == Entry(name)
             id == IdFor(e)
         IN  /\ TableAlike({name}) /\ symbols' = symbols \union {<<"label", writeAddr, id>>}
             /\ name \in DOMAIN symtab' /\ symtab'[name].type = "label"
             /\ SymbolOf(symtab'[name]) = <<"label", writeAddr, id>>
             /\ e.type \in {"unknown", "forward"}
             /\ numLabels' = IF e.type = "unknown" THEN numLabels + 1 ELSE numLabels
             /\ UNCHANGED <<lambdas, atLabels>>
  <1> DEFINE e == Entry(name)
             id == IdFor(e)
             f == Defined(e)
  <1>1. /\ e.type \in {"unknown", "forward"} /\ symtab' = With(name, f)
        /\ symbols' = symbols \union Symbol("label", writeAddr, 1, id)
        /\ numLabels' = IF e.type = "unknown" THEN numLabels + 1 ELSE numLabels
        /\ UNCHANGED <<lambdas, atLabels>>
    BY DEF Register, CanRegister
  <1>2. IsEntry(e)
    BY EntryTyped DEF Typing
  <1>3. f.type = "label" /\ f.id = id /\ f.addr = writeAddr
    <2> HIDE DEF e
    <2> QED
      BY <1>2 DEF IsEntry, Defined
  <1>4. Symbol("label", writeAddr, 1, id) = {<<"label", writeAddr, id>>}
    <2>1. writeAddr \in Int
      BY MemoryFacts DEF Typing, Layout
    <2>2. QED
      BY <2>1, SymbolMembers
  <1>5. TableAlike({name}) /\ name \in DOMAIN symtab' /\ symtab'[name] = f
    <2> HIDE DEF f
    <2> QED
      BY <1>1 DEF TableAlike, Alike, With, Entry
  <1>6. SymbolOf(f) = <<"label", writeAddr, id>>
    <2> HIDE DEF f, id
    <2> QED
      BY <1>3 DEF SymbolOf
  <1>7. QED
    BY <1>1, <1>3, <1>4, <1>5, <1>6

LEMMA LabelNumbers ==
  ASSUME Typing, Apart, Known, GlobalLabel \/ LocalLabel
  PROVE  Apart' /\ Known'
  <1>1. PICK name : Register(name)
    BY LabelTyped
  <1> DEFINE e == Entry(name)
             id == IdFor(e)
             new == <<"label", writeAddr, id>>
  <1>2. /\ TableAlike({name}) /\ symbols' = symbols \union {new}
        /\ name \in DOMAIN symtab' /\ symtab'[name].type = "label"
        /\ SymbolOf(symtab'[name]) = new
        /\ e.type \in {"unknown", "forward"}
        /\ numLabels' = IF e.type = "unknown" THEN numLabels + 1 ELSE numLabels
        /\ UNCHANGED <<lambdas, atLabels>>
    BY <1>1, RegisterAlike
  <1>3. /\ name \in Forwards <=> e.type = "forward"
        /\ e.type = "forward" => e = symtab[name]
        /\ id = IF e.type = "unknown" THEN numLabels + 1 ELSE e.id
        /\ numLabels \in Nat
    BY DEF Forwards, Entry, Unknown, IdFor, Typing, Layout
  <1> HIDE DEF e, id
  <1>4. /\ id \notin Labelled \union Open /\ id \in 1 .. numLabels'
        /\ \A other \in Forwards \ {name} : symtab[other].id # id
        /\ Numbers \subseteq 1 .. numLabels'
    <2>1. CASE e.type = "unknown"
      <3>1. numLabels' = id /\ id = numLabels + 1 /\ Numbers \subseteq 1 .. numLabels
        BY <1>2, <1>3, <2>1 DEF Apart
      <3>2. id \notin Numbers /\ Numbers \subseteq 1 .. id /\ id \in 1 .. id
        BY <1>3, <3>1
      <3>3. QED
        BY <3>1, <3>2 DEF Numbers, Expected
    <2>2. CASE e.type = "forward"
      <3>1. numLabels' = numLabels /\ name \in Forwards /\ id = symtab[name].id
        BY <1>2, <1>3, <2>2
      <3>2. id \in Expected /\ id \in Numbers
        BY <3>1 DEF Expected, Numbers
      <3>3. QED
        BY <3>1, <3>2 DEF Apart
    <2>3. QED
      BY <1>2, <2>1, <2>2
  <1>5. /\ Labelled' = Labelled \union {id}
        /\ \A s \in symbols' : s[1] = "ref" => s \in symbols
        /\ \A s, t \in Labels' : s[3] = t[3] => s = t
    BY <1>2, <1>4, NewLabel
  <1> HIDE DEF new
  <1>6. Open' = Open
    BY <1>2 DEF Open
  <1>7. /\ Forwards' = Forwards \ {name}
        /\ \A other \in Forwards \ {name} : symtab'[other].id = symtab[other].id
    <2>1. name \notin Forwards'
      BY <1>2 DEF Forwards
    <2>2. QED
      BY <1>2, <2>1, ForwardsAlike
  <1>8. /\ Expected' \subseteq Expected \ {id}
        /\ Expected \subseteq Expected' \union {id}
    <2>1. ASSUME NEW other \in Forwards'
          PROVE  symtab'[other].id \in Expected \ {id}
      BY <1>4, <1>7, <2>1 DEF Expected
    <2>2. ASSUME NEW other \in Forwards
          PROVE  symtab[other].id \in Expected' \union {id}
      <3>1. CASE other = name
        BY <1>3, <2>2, <3>1
      <3>2. CASE other # name
        BY <1>7, <2>2, <3>2 DEF Expected
      <3>3. QED
        BY <3>1, <3>2
    <2>3. QED
      BY <2>1, <2>2 DEF Expected
  <1>9. Numbers' = Numbers \union {id}
    BY <1>5, <1>6, <1>8 DEF Numbers
  <1>10. Apart'
    <2>1. Numbers' \subseteq 1 .. numLabels'
      BY <1>4, <1>9
    <2>2. Labelled' \intersect (Open' \union Expected') = {} /\ Open' \intersect Expected' = {}
      BY <1>4, <1>5, <1>6, <1>8 DEF Apart
    <2>3. \A x, y \in Forwards' : symtab'[x].id = symtab'[y].id => x = y
      BY <1>7 DEF Apart
    <2>4. QED
      BY <1>2, <1>5, <2>1, <2>2, <2>3 DEF Apart
  <1>11. Known'
    <2>1. \A other \in DOMAIN symtab' \ {name} :
            symtab'[other].type = "label" => SymbolOf(symtab'[other]) \in symbols'
      BY <1>2, DefinedKept
    <2>2. \A i \in DOMAIN atLabels' : SymbolOf(atLabels'[i]) \in symbols'
      BY <1>2 DEF Known
    <2>3. \A s \in symbols' : s[1] = "ref" => s[3] \in Numbers'
      BY <1>5, <1>9 DEF Known
    <2>4. QED
      BY <1>2, <2>1, <2>2, <2>3 DEF Known
  <1>12. QED
    BY <1>10, <1>11

\* The end of a lambda is the label its beginning was numbered for.
LEMMA LambdaCloseNumbers ==
  ASSUME Typing, Apart, Known, LambdaClose
  PROVE  Apart' /\ Known'
  <1> DEFINE r == Head(lambdas)
             id == r.id
             new == <<"label", writeAddr, id>>
  <1>1. /\ symbols' = symbols \union Symbol("label", writeAddr, 1, id)
        /\ lambdas' = Tail(lambdas) /\ lambdas # <<>>
        /\ symtab' = symtab /\ atLabels' = atLabels /\ numLabels' = numLabels
    BY DEF LambdaClose, CanClose, layout
  <1>2. lambdas \in Seq(Placed) /\ writeAddr \in Int
    BY MemoryFacts DEF Typing, Waits, Layout
  <1>3. /\ r = lambdas[1] /\ DOMAIN lambdas = 1 .. Len(lambdas) /\ Len(lambdas) \in Nat
        /\ 1 \in 1 .. Len(lambdas)
        /\ DOMAIN lambdas' = 1 .. Len(lambdas) - 1
        /\ \A i \in 1 .. Len(lambdas) - 1 : lambdas'[i] = lambdas[i + 1] /\ i + 1 \in 2 .. Len(lambdas)
        /\ \A i \in 2 .. Len(lambdas) : lambdas[i] = lambdas'[i - 1] /\ i - 1 \in 1 .. Len(lambdas) - 1
    BY <1>1, <1>2
  <1> HIDE DEF r
  <1>4. id \in Open /\ id \notin Labelled \union Expected
    <2>1. id \in Open
      BY <1>3 DEF Open
    <2>2. QED
      BY <2>1 DEF Apart
  <1>5. symbols' = symbols \union {new}
    <2>1. Symbol("label", writeAddr, 1, id) = {new}
      BY <1>2, SymbolMembers
    <2>2. QED
      BY <1>1, <2>1
  <1>6. /\ Labelled' = Labelled \union {id}
        /\ \A s \in symbols' : s[1] = "ref" => s \in symbols
        /\ \A s, t \in Labels' : s[3] = t[3] => s = t
    BY <1>4, <1>5, NewLabel
  <1>7. TableAlike({})
    BY <1>1, SameTable
  <1>8. /\ Forwards' = Forwards /\ Expected' = Expected
        /\ \A name \in Forwards : symtab'[name].id = symtab[name].id
    BY <1>7, SameForwards
  <1> HIDE DEF new
  <1>9. \A i \in 2 .. Len(lambdas) : lambdas[i].id # id
    <2>1. ASSUME NEW i \in 2 .. Len(lambdas), lambdas[i].id = id
          PROVE  FALSE
      <3>1. i \in DOMAIN lambdas /\ 1 \in DOMAIN lambdas /\ i # 1
        BY <1>3
      <3>2. lambdas[i].id = lambdas[1].id
        BY <1>3, <2>1
      <3>3. QED
        BY <3>1, <3>2 DEF Apart
    <2>2. QED
      BY <2>1
  <1>10. Open' \subseteq Open \ {id} /\ Open \subseteq Open' \union {id}
    <2>1. ASSUME NEW i \in DOMAIN lambdas'
          PROVE  lambdas'[i].id \in Open \ {id}
      <3>1. lambdas'[i] = lambdas[i + 1] /\ i + 1 \in 2 .. Len(lambdas) /\ i + 1 \in DOMAIN lambdas
        BY <1>3
      <3>2. QED
        BY <1>9, <3>1 DEF Open
    <2>2. ASSUME NEW i \in DOMAIN lambdas
          PROVE  lambdas[i].id \in Open' \union {id}
      <3>1. CASE i = 1
        BY <1>3, <3>1
      <3>2. CASE i # 1
        <4>1. i \in 2 .. Len(lambdas)
          BY <1>3, <3>2
        <4>2. QED
          BY <1>3, <4>1 DEF Open
      <3>3. QED
        BY <3>1, <3>2
    <2>3. QED
      BY <2>1, <2>2 DEF Open
  <1>11. Numbers' = Numbers
    BY <1>4, <1>6, <1>8, <1>10 DEF Numbers
  <1>12. Apart'
    <2>1. \A i, j \in DOMAIN lambdas' : lambdas'[i].id = lambdas'[j].id => i = j
      <3>1. ASSUME NEW i \in DOMAIN lambdas', NEW j \in DOMAIN lambdas', lambdas'[i].id = lambdas'[j].id
            PROVE  i = j
        <4>1. i + 1 = j + 1
          <5>1. i + 1 \in DOMAIN lambdas /\ j + 1 \in DOMAIN lambdas
            BY <1>3
          <5>2. lambdas[i + 1].id = lambdas[j + 1].id
            BY <1>3, <3>1
          <5>3. QED
            BY <5>1, <5>2 DEF Apart
        <4>2. QED
          BY <1>3, <4>1
      <3>2. QED
        BY <3>1
    <2>2. Labelled' \intersect (Open' \union Expected') = {} /\ Open' \intersect Expected' = {}
      BY <1>4, <1>6, <1>8, <1>10 DEF Apart
    <2>3. QED
      BY <1>1, <1>6, <1>8, <1>11, <2>1, <2>2 DEF Apart
  <1>13. Known'
    <2>1. \A name \in DOMAIN symtab' :
            symtab'[name].type = "label" => SymbolOf(symtab'[name]) \in symbols'
      BY <1>5, <1>7, DefinedKept
    <2>2. \A i \in DOMAIN atLabels' : SymbolOf(atLabels'[i]) \in symbols'
      BY <1>1, <1>5 DEF Known
    <2>3. \A s \in symbols' : s[1] = "ref" => s[3] \in Numbers'
      BY <1>6, <1>11 DEF Known
    <2>4. QED
      BY <2>1, <2>2, <2>3 DEF Known
  <1>14. QED
    BY <1>12, <1>13

\* A reference to a label has its number.
LEMMA ReferNumbers ==
  ASSUME Typing, Apart, Known, TableAlike({}), lambdas' = lambdas, numLabels' = numLabels,
         AtLabelsKept, NEW label, Refer(label), label.id \in Labelled
  PROVE  Apart' /\ Known'
  <1>1. \E bytes : EmitRef(Rune, bytes, label.id)
    BY DEF Refer
  <1>2. PICK syms : /\ symbols' = symbols \union syms
                    /\ \A s \in syms : s[1] # "label" /\ (s[1] = "ref" => s[3] = label.id)
    BY <1>1, RefSymbols DEF Typing
  <1>3. label.id \in Numbers
    BY DEF Numbers
  <1>4. QED
    BY <1>2, <1>3, NumbersKept

LEMMA LabelledBy ==
  ASSUME NEW r, SymbolOf(r) \in symbols
  PROVE  r.id \in Labelled
  <1> DEFINE s == SymbolOf(r)
  <1>1. s[1] = "label" /\ s[3] = r.id
    BY DEF SymbolOf
  <1>2. s \in Labels
    BY <1>1 DEF Labels
  <1>3. QED
    BY <1>1, <1>2 DEF Labelled

LEMMA PopKeepsAtLabels ==
  ASSUME Typing, atLabels # <<>>, PopAtLabel
  PROVE  AtLabelsKept /\ lambdas' = lambdas /\ Head(atLabels) = atLabels[1] /\ 1 \in DOMAIN atLabels
  BY DEF Typing, Waits, PopAtLabel, AtLabelsKept

LEMMA AtRefNumbers ==
  ASSUME Typing, Apart, Known, AtRef
  PROVE  Apart' /\ Known'
  <1>1. /\ atLabels # <<>> /\ PopAtLabel /\ Refer(Head(atLabels))
        /\ symtab' = symtab /\ numLabels' = numLabels
    BY DEF AtRef
  <1>2. AtLabelsKept /\ lambdas' = lambdas /\ Head(atLabels) = atLabels[1] /\ 1 \in DOMAIN atLabels
    BY <1>1, PopKeepsAtLabels
  <1>3. Head(atLabels).id \in Labelled
    BY <1>2, LabelledBy DEF Known
  <1>4. QED
    BY <1>1, <1>2, <1>3, SameTable, ReferNumbers

LEMMA BackwardRefNumbers ==
  ASSUME Typing, Apart, Known, BackwardRef
  PROVE  Apart' /\ Known'
  <1> DEFINE name == FullName(RefTo)
             e == Entry(name)
  <1>1. e.type = "label" /\ Refer(e) /\ symtab' = Referenced(name) /\ UNCHANGED <<lambdas, atLabels, numLabels>>
    BY DEF BackwardRef, lists
  <1> HIDE DEF name
  <1>2. e.id \in Labelled
    <2>1. name \in DOMAIN symtab /\ e = symtab[name]
      BY <1>1 DEF Entry, Unknown
    <2>2. SymbolOf(symtab[name]) \in symbols
      BY <1>1, <2>1 DEF Known
    <2>3. QED
      BY <2>1, <2>2, LabelledBy
  <1>3. TableAlike({}) /\ AtLabelsKept
    BY <1>1, ReferencedAlike DEF AtLabelsKept
  <1> HIDE DEF e
  <1>4. QED
    BY <1>1, <1>2, <1>3, ReferNumbers

LEMMA BytesNumbers ==
  ASSUME Typing, Apart, Known, Bytes
  PROVE  Apart' /\ Known'
  <1> DEFINE n == Len(Token(0).bytes)
             syms == Symbol("data", writeAddr, n, 0)
  <1>1. n \in Int /\ writeAddr \in Int
    <2>1. IsToken(Token(0)) /\ Token(0).kind = "data"
      BY ReadsToken DEF Bytes
    <2>2. QED
      BY <2>1, MemoryFacts DEF IsToken, Typing, Layout
  <1>2. symbols' = symbols \union syms /\ UNCHANGED <<lambdas, atLabels, numLabels, symtab>>
    BY DEF Bytes, Emit, lists
  <1> HIDE DEF n
  <1>3. \A s \in syms : s[1] = "data"
    BY <1>1, SymbolMembers
  <1> HIDE DEF syms
  <1>4. TableAlike({}) /\ AtLabelsKept
    BY <1>2, SameTable DEF AtLabelsKept
  <1>5. \A s \in syms : s[1] # "label" /\ s[1] # "ref"
    BY <1>3
  <1>6. QED
    BY <1>2, <1>4, <1>5, NumbersKept

\* A step that gives no symbols, either.
LEMMA OthersNumbers ==
  ASSUME Apart, Known, TableAlike({}), UNCHANGED <<lambdas, numLabels, symbols>>,
         AtLabelsKept \/ atLabels' = atLabels
  PROVE  Apart' /\ Known'
  <1>1. symbols' = symbols \union {} /\ AtLabelsKept
    BY DEF AtLabelsKept
  <1>2. QED
    BY <1>1, NumbersKept

LEMMA NextNumbers ==
  ASSUME Typing, Apart, Known, [Next]_vars
  PROVE  Apart' /\ Known'
  <1>1. CASE LambdaRef
    BY <1>1, LambdaRefNumbers
  <1>2. CASE ForwardRef
    BY <1>2, ForwardRefNumbers
  <1>3. CASE AtLabel
    BY <1>3, AtLabelNumbers
  <1>4. CASE GlobalLabel \/ LocalLabel
    BY <1>4, LabelNumbers
  <1>5. CASE LambdaClose
    BY <1>5, LambdaCloseNumbers
  <1>6. CASE AtRef
    BY <1>6, AtRefNumbers
  <1>7. CASE BackwardRef
    BY <1>7, BackwardRefNumbers
  <1>8. CASE Bytes
    BY <1>8, BytesNumbers
  <1>9. CASE PaddingToAt
    <2>1. /\ atLabels # <<>> /\ PopAtLabel /\ symtab' = symtab
          /\ numLabels' = numLabels /\ symbols' = symbols
      BY <1>9 DEF PaddingToAt
    <2>2. QED
      BY <2>1, PopKeepsAtLabels, SameTable, OthersNumbers
  <1>10. CASE PaddingTo
    <2>1. PICK name : symtab' = Referenced(name)
      BY <1>10 DEF PaddingTo
    <2>2. QED
      BY <1>10, <2>1, ReferencedAlike, OthersNumbers DEF PaddingTo, lists
  <1>11. CASE Padding
    BY <1>11, SameTable, OthersNumbers DEF Padding, lists
  <1>12. CASE Define
    BY <1>12, DefineAlike, OthersNumbers DEF Define, layout, lists, output
  <1>13. CASE DefinitionHead
    BY <1>13, HeadAlike, OthersNumbers DEF DefinitionHead, layout, lists, output
  <1>14. CASE DefinitionBody
    BY <1>14, BodyAlike, OthersNumbers DEF DefinitionBody, layout, lists, output
  <1>15. CASE Expand
    BY <1>15, ReferencedAlike, OthersNumbers DEF Expand, layout, lists, output
  <1>16. CASE Skip \/ BeginComment \/ InComment
    BY <1>16, SameTable, OthersNumbers DEF Skip, BeginComment, InComment, layout, lists, output
  <1>17. CASE ProcessInclude \/ EndUnit \/ ReadDeferred
    BY <1>17, SameTable, OthersNumbers DEF ProcessInclude, EndUnit, ReadDeferred, layout, lists, output
  <1>18. CASE EndUnitBadly \/ Refuse \/ MissDeferred
    <2>1. Fail
      BY <1>18 DEF EndUnitBadly, Refuse, MissDeferred
    <2>2. QED
      BY <2>1, SameTable, OthersNumbers DEF Fail, layout, lists, output
  <1>19. CASE Finish
    BY <1>19, SameTable, OthersNumbers DEF Finish, layout, lists
  <1>20. CASE Done \/ UNCHANGED vars
    BY <1>20, SameTable, OthersNumbers DEF Done, vars, layout, lists, output
  <1>21. QED
    BY <1>1, <1>2, <1>3, <1>4, <1>5, <1>6, <1>7, <1>8, <1>9, <1>10, <1>11, <1>12, <1>13,
       <1>14, <1>15, <1>16, <1>17, <1>18, <1>19, <1>20 DEF Next

\* A program is accepted when nothing waits any more.
LEMMA NextSettled ==
  ASSUME Settled, [Next]_vars
  PROVE  Settled'
  <1>1. CASE Finish
    <2>1. /\ success' => lambdas' = <<>>
          /\ success' => \A name \in DOMAIN symtab' : symtab'[name].type \in {"macro", "label"}
      BY <1>1 DEF Finish, lists
    <2>2. QED
      BY <2>1 DEF Settled, Open, Expected, Forwards
  <1>2. CASE EndUnitBadly \/ Refuse \/ MissDeferred
    BY <1>2 DEF EndUnitBadly, Refuse, MissDeferred, Fail, Settled
  <1>3. CASE Done \/ UNCHANGED vars
    BY <1>3 DEF Done, vars, input, lists, Settled, Open, Expected, Forwards
  <1>4. CASE EndUnit \/ ReadDeferred \/ Skip \/ BeginComment \/ InComment
    BY <1>4 DEF EndUnit, ReadDeferred, Skip, BeginComment, InComment, Reads, input, Settled
  <1>5. CASE Define \/ DefinitionHead \/ DefinitionBody \/ Expand \/ ProcessInclude
    BY <1>5 DEF Define, DefinitionHead, DefinitionBody, ReadsDefinition, Expand, ProcessInclude,
                Reads, input, Settled
  <1>6. CASE Consume /\ phase # "done"
    BY <1>6 DEF Consume, input, Settled
  <1>7. CASE LambdaRef \/ AtRef \/ BackwardRef \/ ForwardRef
    BY <1>6, <1>7 DEF LambdaRef, AtRef, BackwardRef, ForwardRef, ReadsRef, Reads
  <1>8. CASE Bytes \/ GlobalLabel \/ LocalLabel \/ AtLabel \/ LambdaClose
    BY <1>6, <1>8 DEF Bytes, GlobalLabel, LocalLabel, Register, AtLabel, LambdaClose, Reads
  <1>9. CASE Padding \/ PaddingToAt \/ PaddingTo
    BY <1>6, <1>9 DEF Padding, PaddingToAt, PaddingTo, Reads
  <1>10. QED
    BY <1>1, <1>2, <1>3, <1>4, <1>5, <1>7, <1>8, <1>9 DEF Next

LEMMA InitNumbers ==
  ASSUME Init
  PROVE  Numbering
  <1>1. /\ symbols = {} /\ lambdas = <<>> /\ atLabels = <<>> /\ DOMAIN symtab = {}
        /\ numLabels = 0 /\ phase = "pass"
    BY DEF Init
  <1>2. Labels = {} /\ Labelled = {} /\ Open = {} /\ Forwards = {} /\ Expected = {}
    BY <1>1 DEF Labels, Labelled, Open, Forwards, Expected
  <1>3. QED
    BY <1>1, <1>2 DEF Numbering, Apart, Known, Settled, Numbers

\* A number is that of one label, a name has the number and the address of its label,
\* and every reference of a program that is accepted has the number of a label.
LEMMA NumbersAsMeant ==
  ASSUME Numbering
  PROVE  NumbersAgree
  <1>1. \A s, t \in Labels : s[3] = t[3] => s = t
    BY DEF Numbering, Apart
  <1>2. ASSUME NEW name \in DOMAIN symtab, symtab[name].type = "label"
        PROVE  <<"label", symtab[name].addr, symtab[name].id>> \in Labels
    <2> DEFINE s == <<"label", symtab[name].addr, symtab[name].id>>
    <2>1. s \in symbols
      BY <1>2 DEF Numbering, Known, SymbolOf
    <2>2. s[1] = "label"
      OBVIOUS
    <2> HIDE DEF s
    <2>3. s \in Labels
      BY <2>1, <2>2 DEF Labels
    <2>4. QED
      BY <2>3 DEF s
  <1>3. ASSUME phase = "done", success, NEW s \in symbols, s[1] = "ref"
        PROVE  \E label \in Labels : label[3] = s[3]
    BY <1>3 DEF Numbering, Known, Settled, Numbers, Labelled
  <1>4. QED
    BY <1>1, <1>2, <1>3 DEF NumbersAgree, Labels

\* The same of every program: the number that a reference was given before its label
\* was known, or its lambda closed, is the number that the label gets.
THEOREM NumbersAreOfLabels == Spec => []NumbersAgree
  <1>1. Init => Typing /\ Numbering
    BY InitTyped, InitNumbers
  <1>2. Typing /\ Numbering /\ [Next]_vars => (Typing /\ Numbering)'
    BY NextTyped, NextNumbers, NextSettled DEF Numbering
  <1>3. Numbering => NumbersAgree
    BY NumbersAsMeant
  <1>4. QED
    BY <1>1, <1>2, <1>3, PTL DEF Spec
=============================================================================
