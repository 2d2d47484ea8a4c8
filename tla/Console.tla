------------------------------ MODULE Console ------------------------------
(***************************************************************************)
(* The console device (src/src/devices/console.c) under its two hosts: the *)
(* command line program (src/src/cli.c), which sends the arguments and     *)
(* then waits for each character, and the GUI (src/src/gui.c), which in    *)
(* each frame sends what there is and collects what is written in lines.   *)
(* An execution of the program may set its vector, ask for its end and     *)
(* write a character.                                                      *)
(***************************************************************************)
EXTENDS Integers, Sequences

CONSTANTS
  ArgumentLists,  \* for each argument its length
  BufferSize,     \* CONSOLE_BUFFER_SIZE
  MaxTyped,       \* bounds of the model: how much is typed
  MaxWritten      \* and written

ASSUME ArgumentsAssumption == \A lengths \in ArgumentLists : lengths \in Seq(Nat)
ASSUME BufferAssumption == BufferSize \in Nat /\ BufferSize > 1

VARIABLES
  app,            \* the host, "cli" or "gui"
  phase,          \* what it does: "reset", "args", "input", "frame", "ended"
  argv, arg, ch,  \* the arguments, and how far they are sent
  console,        \* the type and the value that the program may read
  vector,         \* the program has one
  state,          \* the system's port for it: 0 until the program leaves
  typed, stdinClosed,
  quits,          \* the GUI was asked to end
  buffers, log,   \* of the GUI: characters in each, and what was logged
  \* History: what was sent, a character was sent to a program that had left,
  \* and the lengths of the lines written.
  sent, late, lines

programVars == <<vector, state, buffers, log, lines>>
consoleVars ==
  <<app, phase, argv, arg, ch, console, typed, stdinClosed, quits, sent, late, programVars>>

Streams == {"out", "err"}
States == {0, 128, 129}   \* running, and left with the exit code 0 or 1

ExitCode(s) == IF s = 0 THEN -1 ELSE s % 128

\* Values: a character of an argument, one typed, a newline and zero.
Character(i, j) == <<i, j>>
Typed(n) == <<0, n>>
NewLine == <<0, -1>>
Zero == <<0, 0>>

Event(type, value) == [type |-> type, value |-> value]

InitConsole ==
  /\ app \in {"cli", "gui"} /\ phase = "reset"
  /\ argv \in ArgumentLists /\ arg = 1 /\ ch = 1
  /\ console = Event(IF argv = <<>> THEN "NONE" ELSE "STDIN", Zero)
  /\ vector = FALSE /\ state = 0
  /\ typed = 0 /\ stdinClosed = FALSE /\ quits = FALSE
  /\ buffers = [b \in Streams |-> 0] /\ log = [b \in Streams |-> <<>>]
  /\ sent = <<>> /\ late = FALSE /\ lines = [b \in Streams |-> <<0>>]

-----------------------------------------------------------------------------
(***************************************************************************)
(* Executions of the program.                                              *)
(***************************************************************************)

\* A line is logged when it ends and when the buffer is full but for the zero.
Flush(b, length) ==
  log' = [log EXCEPT ![b] = Append(@, length)] /\ buffers' = [buffers EXCEPT ![b] = 0]

Full(length) == length >= BufferSize - 1

PutChar(b) ==
  LET length == buffers[b] + 1
  IN  /\ lines' = [lines EXCEPT ![b][Len(lines[b])] = @ + 1]
      /\ IF Full(length) THEN Flush(b, length)
         ELSE buffers' = [buffers EXCEPT ![b] = length] /\ UNCHANGED log

PutNewLine(b) ==
  /\ lines' = [lines EXCEPT ![b] = Append(@, 0)]
  /\ Flush(b, buffers[b])

HasWritten(b) ==
  LET sum[n \in 0 .. Len(lines[b])] == IF n = 0 THEN -1 ELSE sum[n - 1] + lines[b][n] + 1
  IN  sum[Len(lines[b])]

\* What is written under the command line program is out at once.
Execution ==
  /\ vector' \in BOOLEAN /\ state' \in States
  /\ \/ UNCHANGED <<buffers, log, lines>>
     \/ /\ app = "gui"
        /\ HasWritten("out") + HasWritten("err") < MaxWritten
        /\ \E b \in Streams : PutChar(b) \/ PutNewLine(b)

Send(type, value) ==
  /\ console' = Event(type, value) /\ sent' = Append(sent, console')
  /\ IF vector THEN Execution ELSE UNCHANGED programVars

-----------------------------------------------------------------------------
(***************************************************************************)
(* Both hosts execute the program once and then send its arguments; only   *)
(* the command line program looks whether there is still someone to listen.*)
(***************************************************************************)
Unread == UNCHANGED <<typed, stdinClosed, late>>

Failed(s) == ExitCode(s) > 0

Reset ==
  /\ phase = "reset" /\ Execution
  /\ phase' = IF app = "cli" /\ Failed(state') THEN "ended" ELSE "args"
  /\ UNCHANGED <<app, argv, arg, ch, console, quits, sent>> /\ Unread

SendArg ==
  /\ phase = "args" /\ arg <= Len(argv)
  /\ IF ch <= argv[arg]
     THEN Send("ARG", Character(arg, ch)) /\ ch' = ch + 1 /\ UNCHANGED arg
     ELSE /\ Send(IF arg = Len(argv) THEN "END" ELSE "ARG_SEP", NewLine)
          /\ arg' = arg + 1 /\ ch' = 1
  /\ UNCHANGED <<app, phase, argv, quits>> /\ Unread

ArgsSent ==
  /\ phase = "args" /\ arg > Len(argv)
  /\ phase' = IF app = "cli" /\ Failed(state) THEN "ended" ELSE "input"
  /\ UNCHANGED <<app, argv, arg, ch, console, quits, sent, programVars>> /\ Unread

\* A character that was read, or the end of what there is to read.
Input(isEnd) ==
  /\ IF isEnd THEN Send("END", Zero) /\ UNCHANGED typed
     ELSE typed < MaxTyped /\ typed' = typed + 1 /\ Send("STDIN", Typed(typed'))
  /\ stdinClosed' = isEnd
  /\ late' = (late \/ state # 0)
  /\ UNCHANGED <<app, argv, arg, ch>>

SlipListens == ExitCode(state) <= 0 /\ vector

Listens == ExitCode(state) < 0 /\ vector   \* and if it does not the host ends

FgetcSends ==
  /\ app = "cli" /\ phase = "input" /\ Listens
  /\ \E isEnd \in BOOLEAN : Input(isEnd) /\ phase' = IF isEnd THEN "ended" ELSE phase
  /\ UNCHANGED quits

Ends ==
  /\ app = "cli" /\ phase = "input" /\ ~Listens /\ phase' = "ended"
  /\ UNCHANGED <<app, argv, arg, ch, console, quits, sent, programVars>> /\ Unread

\* A frame sends what was typed until now, and executes other vectors.
FrameBegins ==
  /\ app = "gui" /\ phase = "input" /\ phase' = "frame"
  /\ quits' = (quits \/ Failed(state))
  /\ UNCHANGED <<app, argv, arg, ch, console, sent, programVars>> /\ Unread

PollSends ==
  /\ phase = "frame" /\ ~stdinClosed
  /\ \E isEnd \in BOOLEAN : Input(isEnd)
  /\ UNCHANGED <<phase, quits>>

FrameEnds ==
  /\ phase = "frame" /\ phase' = IF quits THEN "ended" ELSE "input"
  /\ Execution
  /\ UNCHANGED <<app, argv, arg, ch, console, quits, sent>> /\ Unread

NextConsole ==
  \/ Reset \/ SendArg \/ ArgsSent
  \/ FgetcSends \/ Ends
  \/ FrameBegins \/ PollSends \/ FrameEnds

ConsoleSpec == InitConsole /\ [][NextConsole]_consoleVars

-----------------------------------------------------------------------------
(***************************************************************************)
(* Properties.                                                             *)
(***************************************************************************)

\* The first of some sequences, by their number, one after the other.
Joined(parts) ==
  LET joined[n \in 0 .. Len(parts)] == IF n = 0 THEN <<>> ELSE joined[n - 1] \o parts[n]
  IN  joined

\* An argument with what separates it from the next, or ends the last.
ArgEvents(i) ==
  [j \in 1 .. argv[i] |-> Event("ARG", Character(i, j))] \o
  <<Event(IF i < Len(argv) THEN "ARG_SEP" ELSE "END", NewLine)>>

ArgsTold == Joined([i \in 1 .. Len(argv) |-> ArgEvents(i)])

\* All that there is to tell: the arguments, what was typed, and the end.
ToTell ==
  ArgsTold[Len(argv)]
  \o [n \in 1 .. typed |-> Event("STDIN", Typed(n))]
  \o (IF stdinClosed THEN <<Event("END", Zero)>> ELSE <<>>)

\* It is told in this order and once; of a program that neither left nor has
\* stopped to listen nothing is kept, and the arguments come before a frame.
InputExact ==
  /\ Len(sent) <= Len(ToTell) /\ \A i \in 1 .. Len(sent) : sent[i] = ToTell[i]
  /\ phase \in {"input", "frame"} => sent = ToTell
  /\ app = "cli" /\ phase = "ended" /\ state = 0 /\ vector => sent = ToTell /\ stdinClosed

\* The command line program sends nothing that was typed to a program that has
\* left, be it with the exit code 0.
LeftAlone == app = "cli" => ~late

\* The pieces of a line that fill a buffer, but for its zero; and all of an ended one.
Room == BufferSize - 1

Whole(length) == [i \in 1 .. length \div Room |-> Room]

Pieces(length) == Append(Whole(length), length % Room)

\* What is logged of some lines, the last of which has not ended.
Logged(written) ==
  Joined([i \in 1 .. Len(written) - 1 |-> Pieces(written[i])])[Len(written) - 1]
  \o Whole(written[Len(written)])

\* The GUI logs every line that was written, a long one in pieces that fit, and
\* keeps what it has not logged.
OutputExact ==
  app = "gui" => \A b \in Streams :
    /\ log[b] = Logged(lines[b])
    /\ buffers[b] = lines[b][Len(lines[b])] % Room

\* What a host tells a program, and whom it tells, and what it makes of what the
\* program writes.
ConsoleExact == InputExact /\ LeftAlone /\ OutputExact
=============================================================================
