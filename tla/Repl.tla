-------------------------------- MODULE Repl --------------------------------
(***************************************************************************)
(* The loop of the REPL (src/src/repl.c).  Every turn assembles            *)
(* src/src/repl.tal, which includes a signature, made up of the symbolic   *)
(* stacks the checker has printed last, and what is typed; checks it; and, *)
(* if nothing is wrong, executes it on a machine that keeps its stacks.    *)
(* What the checker prints is kept by its hook, be the line executed or    *)
(* not.                                                                    *)
(*                                                                         *)
(* Values are bytes, and of their names only the length is kept.  The      *)
(* assembler and the checker are here what a line needs of them: a token   *)
(* fails, the runs of the checker are followed in its order, and a jump is *)
(* made once (Chess).                                                      *)
(***************************************************************************)
EXTENDS Integers, Sequences, FiniteSets

CONSTANTS
  MaxArgs,        \* the values a signature may have for a stack
  MaxToken,       \* the length of the longest token, and so of a name
  SignatureSize,  \* of the buffer for the tokens of a signature
  StackSize,      \* 256
  TypedLines,     \* bounds of the model: what is typed at a prompt, in tokens,
  MaxPrompts      \* and how often

Tokens ==
  {"literal", "add", "pop", "stash", "?{", "leave", "\\reset", "[", "]", "bad token"}

ASSUME StackSizeAssumption == StackSize \in Nat \ {0}
ASSUME LimitsAssumption == MaxArgs \in Nat /\ MaxToken \in Nat /\ SignatureSize \in Nat
ASSUME LinesAssumption == TypedLines \subseteq Seq(Tokens)

VARIABLES
  stage,      \* "turn", "line", "check" or "run"
  terminated, \* nothing more is typed
  symbolic,   \* print_stack_state: the lengths of the names on each stack
  names,      \* the arena the names are in, "none" or, once it was reset, "gone"
  arena,      \* current_arena
  sizes,      \* of the stacks of the machine
  signature,  \* what was read as one
  input, depth, prompts,   \* the tokens of the line, mark_depth, prompts so far
  entries, jumps, errors,  \* of the checker: runs to follow, jumps made, errors
  machine,    \* the next token it executes, and whether it is to be reset
  \* History: what the runs of the checker came to, whether the turn before has
  \* printed nothing, and why the stacks may differ.
  ends, kept, differ

replVars ==
  <<stage, terminated, symbolic, names, arena, sizes, signature, input, depth, prompts,
    entries, jumps, errors, machine, ends, kept, differ>>

Stacks == {"wst", "rst"}
NoValues == [s \in Stacks |-> <<>>]
SizesOf(st) == [s \in Stacks |-> Len(st[s])]

NoRun == [at |-> 0, reset |-> FALSE]

InitRepl ==
  /\ stage = "turn" /\ terminated = FALSE /\ symbolic = NoValues /\ names = "none" /\ arena = "a"
  /\ sizes = SizesOf(NoValues) /\ signature = NoValues
  /\ input = <<>> /\ depth = 0 /\ prompts = 0
  /\ entries = <<>> /\ jumps = {} /\ errors = 0 /\ machine = NoRun
  /\ ends = {} /\ kept = FALSE /\ differ = {}

-----------------------------------------------------------------------------
(***************************************************************************)
(* A turn begins: the arena of the turn before the last is used again, and *)
(* the signature is written out and read.                                  *)
(***************************************************************************)
SlipOther(a) == a   \* one arena for all turns

Other(a) == IF a = "a" THEN "b" ELSE "a"

\* The names after a reset of an arena.
Surviving(a) == IF names = a THEN "gone" ELSE names

\* The names and the dot between the stacks, each with its end.
Buffered(st) ==
  LET values == st.wst \o st.rst
      sum[n \in 0 .. Len(values)] == IF n = 0 THEN 2 ELSE sum[n - 1] + values[n] + 1
  IN  sum[Len(values)]

\* A stack that has too many values is written with three dots, which are one
\* more argument.  The comment is then none, as it is when it does not fit its
\* buffer, and the routine has no signature.
ReadAs(st) ==
  IF (\E s \in Stacks : Len(st[s]) > MaxArgs) \/ Buffered(st) > SignatureSize
  THEN NoValues ELSE st

Readable(st) ==
  \A s \in Stacks : \A i \in DOMAIN st[s] : i <= MaxArgs => st[s][i] <= MaxToken

\* Names that are gone may be read as anything: as they were, or as none.
MayRead == {symbolic} \union (IF Surviving(Other(arena)) = "gone" THEN {NoValues} ELSE {})

BeginTurn ==
  /\ arena' = Other(arena) /\ names' = Surviving(arena')
  /\ depth' = 0 /\ input' = <<>> /\ entries' = <<>> /\ jumps' = {} /\ errors' = 0 /\ ends' = {}
  /\ machine' = NoRun
  /\ UNCHANGED <<terminated, symbolic, sizes, prompts>>

\* What cannot be assembled ends the turn before a line is read.
Unreadable ==
  /\ stage = "turn" /\ ~terminated /\ BeginTurn
  /\ ~Readable(symbolic) \/ names' = "gone"
  /\ kept' = TRUE
  /\ UNCHANGED <<stage, signature, differ>>

ReadSignature ==
  /\ stage = "turn" /\ ~terminated /\ BeginTurn
  /\ \E st \in MayRead : Readable(st) /\ signature' = ReadAs(st)
  /\ stage' = "line"
  /\ differ' = differ
       \union (IF names' = "gone" THEN {"gone"} ELSE {})
       \union (IF signature' # symbolic THEN {"long"} ELSE {})
  /\ UNCHANGED kept

-----------------------------------------------------------------------------
(***************************************************************************)
(* What is typed.  While a mark is open there is another prompt.           *)
(***************************************************************************)
Opened(tokens) ==
  Len(SelectSeq(tokens, LAMBDA t : t = "[")) - Len(SelectSeq(tokens, LAMBDA t : t = "]"))

Prompting == stage = "line" /\ (input = <<>> \/ depth > 0)

\* What the runs of the checker have printed in this turn.
Printed == {e \in ends : e.how = "printed"}

\* The end of a turn in which nothing is executed.
GiveUp == stage' = "turn" /\ kept' = (Printed = {})

CheckLine ==
  /\ stage' = "check"
  /\ entries' = <<[at |-> 1, st |-> signature]>>
  /\ UNCHANGED kept

TypeLine(line) ==
  /\ Prompting /\ prompts < MaxPrompts /\ prompts' = prompts + 1
  /\ input' = input \o line /\ depth' = depth + Opened(line)
  /\ LET fails == \E i \in DOMAIN line : line[i] = "bad token"
     IN  \/ /\ fails \/ (input' = <<>> /\ depth' = 0)
            /\ GiveUp /\ UNCHANGED entries
         \/ /\ ~fails /\ depth' > 0
            /\ UNCHANGED <<stage, kept, entries>>
         \/ /\ ~fails /\ depth' <= 0 /\ input' # <<>>
            /\ CheckLine
  /\ UNCHANGED <<terminated, symbolic, names, arena, sizes, signature, jumps, errors, machine, ends,
                 differ>>

\* The turn in which what is typed comes to its end is the last one.
EndOfInput ==
  /\ Prompting /\ terminated' = TRUE
  /\ IF input = <<>> THEN GiveUp /\ UNCHANGED entries ELSE CheckLine
  /\ UNCHANGED <<symbolic, names, arena, sizes, signature, input, depth, prompts, jumps, errors,
                 machine, ends, differ>>

-----------------------------------------------------------------------------
(***************************************************************************)
(* The checker, a token of a run at a time.                                *)
(***************************************************************************)
Now == Head(entries)
Token(at) == input[at]

Takes(t) ==
  CASE t = "add" -> 2
    [] t \in {"pop", "stash", "?{"} -> 1
    [] OTHER -> 0

Top(stack) == stack[Len(stack)]

\* The size of a stack is a byte, too: with one value more than that counts, the
\* stack is empty again, and no overflow is noticed.
Pushed(stack, length) == IF Len(stack) + 1 = StackSize THEN <<>> ELSE Append(stack, length)

Applied(t, st) ==
  LET wst == st.wst
      rest == SubSeq(wst, 1, Len(wst) - Takes(t))
  IN  CASE t = "literal" -> [st EXCEPT !.wst = Pushed(wst, 1)]
        [] t = "add" -> [st EXCEPT !.wst = Pushed(rest, wst[Len(wst) - 1] + 1 + Top(wst))]
        [] t \in {"pop", "?{"} -> [st EXCEPT !.wst = rest]
        [] t = "stash" -> [st EXCEPT !.wst = rest, !.rst = Pushed(@, Top(wst))]
        [] OTHER -> st

\* A run that ends has printed, left before that, failed, or made a jump again.
EndRun(how) ==
  entries' = Tail(entries) /\ ends' = ends \union {[how |-> how, sizes |-> SizesOf(Now.st)]}

\* The hook: what is printed last is kept.
PrintStacks ==
  /\ symbolic' = Now.st /\ names' = arena
  /\ EndRun("printed")
  /\ UNCHANGED <<jumps, errors>>

Fail == EndRun("failed") /\ errors' = errors + 1 /\ UNCHANGED <<symbolic, names, jumps>>

\* The jump over what is in the lambda is followed, and the rest is the fork.
Branch(st) ==
  /\ jumps' = jumps \union {Now.at}
  /\ LET fork == [at |-> Now.at + 1, st |-> st]
     IN  IF Now.at \in jumps
         THEN /\ entries' = <<fork>> \o Tail(entries)
              /\ ends' = ends \union {[how |-> "cut", sizes |-> SizesOf(st)]}
         ELSE /\ entries' = <<[at |-> Now.at + 2, st |-> st], fork>> \o Tail(entries)
              /\ UNCHANGED ends
  /\ UNCHANGED <<symbolic, names, errors>>

Leave ==
  IF Now.st # NoValues THEN Fail
  ELSE EndRun("left") /\ UNCHANGED <<symbolic, names, jumps, errors>>

Sequential(t) ==
  /\ entries' = <<[at |-> Now.at + 1, st |-> Applied(t, Now.st)]>> \o Tail(entries)
  /\ UNCHANGED <<symbolic, names, jumps, errors, ends>>

\* The line is followed by what prints, a short and a DEO: they find no room, or the
\* short fills the stack and it is empty when the DEO is to take it.
NoRoomToPrint == Len(Now.st.wst) + 2 >= StackSize

CheckStep ==
  /\ stage = "check" /\ entries # <<>>
  /\ IF Now.at > Len(input) THEN IF NoRoomToPrint THEN Fail ELSE PrintStacks
     ELSE LET t == Token(Now.at)
          IN  IF t = "leave" THEN Leave
              ELSE IF Takes(t) > Len(Now.st.wst) THEN Fail
              ELSE IF t = "?{" THEN Branch(Applied(t, Now.st)) ELSE Sequential(t)
  /\ UNCHANGED <<stage, terminated, arena, sizes, signature, input, depth, prompts, machine, kept,
                 differ>>

Rejected ==
  /\ stage = "check" /\ entries = <<>> /\ errors > 0 /\ GiveUp
  /\ differ' = differ \union (IF Printed # {} THEN {"rejected"} ELSE {})
  /\ UNCHANGED <<terminated, symbolic, names, arena, sizes, signature, input, depth, prompts,
                 entries, jumps, errors, machine, ends>>

Accepted ==
  /\ stage = "check" /\ entries = <<>> /\ errors = 0
  /\ stage' = "run" /\ machine' = [at |-> 1, reset |-> FALSE]
  /\ differ' = differ \union (IF Cardinality(ends) > 1 \/ Printed = {} THEN {"forked"} ELSE {})
  /\ UNCHANGED <<terminated, symbolic, names, arena, sizes, signature, input, depth, prompts,
                 entries, jumps, errors, ends, kept>>

-----------------------------------------------------------------------------
(***************************************************************************)
(* The machine, a token at a time; a condition may hold or fail.           *)
(***************************************************************************)
Gives(t, s) ==
  CASE s = "wst" -> (IF t \in {"literal", "add"} THEN 1 ELSE 0) - Takes(t)
    [] s = "rst" -> IF t = "stash" THEN 1 ELSE 0

RunStep ==
  /\ stage = "run" /\ machine.at <= Len(input) /\ Token(machine.at) # "leave"
  /\ LET t == Token(machine.at)
     IN  /\ sizes' = [s \in Stacks |-> (sizes[s] + Gives(t, s)) % StackSize]
         /\ \E step \in {1, 2} :
              /\ step = 2 => t = "?{"
              /\ machine' = [at |-> machine.at + step, reset |-> machine.reset \/ t = "\\reset"]
  /\ UNCHANGED <<stage, terminated, symbolic, names, arena, signature, input, depth, prompts,
                 entries, jumps, errors, ends, kept, differ>>

SlipForgotten(st) == st   \* only the machine is reset

Forgotten(st) == NoValues

EndTurn ==
  /\ stage = "run" /\ (machine.at <= Len(input) => Token(machine.at) = "leave")
  /\ stage' = "turn" /\ kept' = (Printed = {})
  /\ IF machine.reset
     THEN /\ sizes' = SizesOf(NoValues)
          /\ symbolic' = Forgotten(symbolic) /\ names' = "none" /\ differ' = {}
     ELSE UNCHANGED <<sizes, symbolic, names, differ>>
  /\ UNCHANGED <<terminated, arena, signature, input, depth, prompts, entries, jumps,
                 errors, machine, ends>>

NextRepl ==
  \/ Unreadable \/ ReadSignature
  \/ (\E line \in TypedLines : TypeLine(line))
  \/ EndOfInput
  \/ CheckStep \/ Rejected \/ Accepted
  \/ RunStep \/ EndTurn

ReplSpec == InitRepl /\ [][NextRepl]_replVars

-----------------------------------------------------------------------------
(***************************************************************************)
(* Properties.                                                             *)
(***************************************************************************)

\* The stacks a line is checked with have the sizes of the machine's, unless
\* since the last reset a line was rejected after it had printed, ended in
\* several ways or before it printed, had stacks too long for a signature, or
\* one whose names were gone.  A reset always sets this right.
StacksAgree ==
  stage \in {"turn", "line"} /\ differ = {} =>
    /\ SizesOf(symbolic) = sizes
    /\ stage = "line" => SizesOf(signature) = sizes

\* The names in the signature are still there, unless the turn before has
\* printed nothing.
NamesAlive == stage = "line" /\ names = "gone" => kept

\* A line is checked with what the machine has.
ReplExact == StacksAgree /\ NamesAlive
=============================================================================
