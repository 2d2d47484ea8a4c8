# Verification of buxn

buxn is a Uxn/Varvara toolchain in C: a virtual machine with its devices, a
one-pass assembler, a static checker ("chess"), a debugger core with a wire
protocol, and programs around them (`buxn-cli`, `buxn-gui`, `buxn-asm`, a REPL,
and some generators). This directory holds TLA+ models of the parts of it that
have behaviour worth checking, the TLC configurations that check them, and the
proofs that TLAPS checks. Paths below are relative to the repository; the
sources are under `src/src/` and `src/include/buxn/`.

`PROJECT.json` lists the runs, the lines each definition models, the hazards
and the theorems.

## Inventory

For every component: its state, its operations, whom it talks to, what is hard
about it, and what makes it correct. The last column says where it is modelled;
"later" refers to the plan below.

| component | state | operations and interactions | hard behaviour | correct when | model |
|---|---|---|---|---|---|
| Audio hand-off, `gui.c`, `devices/audio.c` | two staging buffers, one atomic pointer, a flag to submit, finished counters and their acknowledgements, per device advance and age | `buxn_audio_send` and VU reads inside vectors on the main thread; `try_submit_audio` after them; `frame()` runs the vectors of notes that ended; `audio_callback` on sokol's thread merges, renders and counts | two threads without a lock; a submission that fails; a note replaced before it was taken; the envelope run by both threads | no buffer is touched by both, no note is lost, replayed or reordered, every end is counted once and told to the program | `AudioHandoff`, `AudioMailbox` |
| Debugger breakpoints, `dbg/core.c` | 256 breakpoints, how many ids are in use, the union of their masks | `BRKP_SET`; the search before each instruction | summaries kept by hand; decoding ahead of the machine | the summaries are exact, and the search reports what the instruction will do | `DbgBreakpoints` |
| Debugger core, wire, integration, `dbg/core.c`, `dbg/wire.c`, `dbg.c`, `dbg/transports/fd.c` | the standing command, flags of the wire, both ends of a descriptor, the machine's hook pointer | the hook before each instruction; requests and answers over a descriptor; the host polls between vectors and takes the hook in and out | a peer that asks or leaves at any moment, answers owed across pauses, steps that cross vectors | pauses have a reason, none is missed, one answer per request in order, the machine never waits for a debugger that left | `Debugger`, `DbgSession` |
| Message encoding, `dbg/protocol.c` | none | one visitor over bserial for both directions | none of its own | reading gives what was written | not modelled |
| Transports, `dbg/transports/{from_str,stream,file}.c`, `dbg-wrapper.c` | a descriptor | parse an address, open it | the operating system's | | not modelled |
| Debug symbols, `dbg/symtab.c` | a table read from a file | write, read, look up | pools of strings | look-up finds the symbol of an address | not modelled |
| Uxn machine, `vm/exec.h`, `vm/vm.c` | memory, two stacks of 256 bytes with 8-bit pointers, 256 device bytes | `buxn_vm_execute`, `buxn_vm_reset`, 256 opcodes by macros; calls devices on DEI and DEO and the hook on every instruction | keep, return and short modes and every wrap-around; stack pointers kept twice | each opcode does what its signature says | `UxnWords`, `UxnCpu`, `UxnReference` |
| System device, `devices/system.c` | ports, the exit code, the palette | expansion operations on 16 banks, stack pointers, debug, exit | clipping, overlap, the second copy of the pointers | an operation changes what it is about | with the machine; the exit code with `Console`, themes with `Screen`; debug and metadata not modelled |
| File devices, `devices/file.c`, `physfs.c` | per device a handle, a mode, the last stat and a buffer of one directory line; the host's pool of directory buffers | name, read, write, append, stat, delete through ports | lazily opened handles that are files, directories or marks; listings cut anywhere; opens that fail | a handle is closed as it was opened, none leaks, a listing is exact | `FileDevice` |
| Assembler, `asm/asm.c` | symbol table, write address, lists of forward references, lambdas and anonymous labels, macros, includes | `buxn_asm`: one pass over units and tokens; calls back for bytes, symbols and reports | references patched when a label appears; scopes, nesting, expansion and inclusion | the ROM is the one a layout of the whole program gives, with its symbols and warnings | `AsmLexer`, `Asm`, `AsmLayout` |
| Static checker, `asm/chess.c` | infos and casts by address, a list of entries to run, a run with two symbolic stacks, the jumps made, the nodes of split values | comments are parsed as symbols arrive; at the end every routine with a signature is executed symbolically, once per fork | half values, forks that outlive their run, jumps made in other runs, sizes that wrap | what it accepts keeps to its signatures when run, what it reports is real, and it comes to an end | `ChessAnnotations`, `Chess`, `ChessComments`, `ChessReference` |
| Annotations, `asm/annotation.c` | a stack of open comments | routes comments to the handlers of `bindgen.c` | nesting | a handler gets its whole comment | not modelled; the checker has its own parser |
| Drivers and viewers, `asm.c`, `asm/sym-view.c` | options | command lines, files and messages | | | not modelled |
| Screen, `devices/screen.c`, `gui.c` | two layers with margins, a dirty rectangle each, registers; textures of the host | pixel, fill, runs of tiles with auto-advance, resize; the GUI renders the dirty rectangles | pixels changed outside of the rectangle, margins, places that wrap, a new size in the middle | the picture is what was drawn, and what changed is redrawn | `Screen`, `Picture` |
| Console, `devices/console.c`, `cli.c`, `gui.c` | a type and a value; the place in the arguments; line buffers of the GUI | arguments, input and its end as events; lines of output to the log | the exit of the program, or of its vector, between events; a line longer than its buffer | events in order, once, until it exits; no character of output lost | `Console` |
| Controller, mouse, date | fields; the touches the GUI follows | the host turns touches, the mouse and keys into fields and vectors | fingers in any order, releases another window gets | taps are clicks, no button stays down, every whole turn and character is told once | `GuiInput`; `datetime.c` reads a clock and is not modelled |
| GUI host, `gui.c`, `*/platform.c` | devices, textures | callbacks of sokol: init, event, frame, cleanup | its threads | | with the devices, the audio and the debugger; overlays and platforms not |
| REPL, `repl.c`, `repl.tal` | the machine and the symbolic stacks kept between lines, two arenas used in turn, open marks | read the stacks as a signature, read lines, assemble, check, run; soft reset | what the checker saw last is not what ran; names in an arena that is reset; limits on a signature | a line is checked with the stacks the machine has | `Repl` |
| Metadata and embedded ROMs, `metadata.c`, `bembd.h`, `rom2exe.c` | none | parse a header or a footer | | | not modelled |
| Generators, `bindgen.c`, `ctags.c`, `romviz.c` | none | print what the assembler reports | | | not modelled |
| Libraries, `deps/`, `libs.c` | | | | | third-party |

`PROJECT.json` lists 40 hazards at the lines where they bite, each with the
properties that would catch it, and with a note where a property exempts what
the code does. One has no property: whether a step over ends depends on the
program being stepped.

## Modules

| module | models | abstracts |
|---|---|---|
| `AudioHandoff` | `gui.c` 340-460 and 588-640, `devices/audio.c` | what notes sound like: a note is its number among those sent to its device |
| `AudioMailbox` | specification: one place per device, a newer note replaces an older one, and the last one arrives | |
| `DbgBreakpoints` | `BRKP_SET`, the decoding and the search in `dbg/core.c` | instructions are records of what they are about |
| `Debugger` | the hook, the wire, polling, taking the hook in and out | the program: any instruction may come next, the return stack goes anywhere |
| `DbgSession` | specification: what a debugger sees at its end of the wire | |
| `FileDevice` | `devices/file.c` over `physfs.c` | bytes: a file is a length, a line of a listing its number |
| `UxnWords` | bytes and shorts, `buxn_system_deo`'s expansion | words have a small base, `Nibble` |
| `UxnCpu` | `vm/exec.h`, `vm/vm.c`, the debugger's `DEV_WRITE`, the system device's ports | the dispatch: any opcode may be next |
| `UxnReference` | specification: every opcode from its signature, over stacks that are rings | |
| `AsmLexer` | `asm/asm.c` 302-612: the reader that holds one character back, tokens and texts with their places | which characters a token is made of |
| `Asm` | `asm/asm.c` 616-2421: units, symbols, references, lambdas, labels, padding, comments, macros, files | a token is a record of what it means; names have no length, labels no generated names, reports no wording |
| `AsmLayout` | specification: the program written out and laid out first, then every byte of it | |
| `ChessAnnotations` | `asm/chess.c` 44-232, 489-522, 2083-2482, 2556-2646: what is kept of symbols, and how comments become signatures and casts | a token of a comment is a record of what it means and how long it is |
| `ChessComments` | specification: what a comment means, read as a whole | |
| `Chess` | `asm/chess.c` 403-1919, 1926-2077, 2484-2554: symbolic execution | names, traces, warnings and the wording of reports |
| `ChessReference` | specification: a machine that runs the code, over bytes that are known or not | |
| `Screen` | `devices/screen.c`, and the layers and textures of `gui.c` | a color of a theme is a pair; blending of layers is the GPU's |
| `Picture` | specification: two pictures without margins, on which each operation colors pixels | |
| `Console` | `devices/console.c`, `cli.c` 153-187, the console of `gui.c` | characters are numbered; a program is what it does in an execution |
| `GuiInput` | `process_touch` and `event` of `gui.c`, `devices/mouse.c`, `devices/controller.c` and their headers | where the pointer is |
| `Repl` | `repl.c` with `repl.tal`, and the limits on signatures in `asm/chess.c` and `asm/asm.c` | a line is made of ten kinds of tokens; values are bytes, of their names only the length is kept |

`MC...` modules give constants their values for TLC; `..._proofs` modules hold
theorems, and `NumberFacts` the lemmas about numbers that several of them need. An operator named `Slip...` is its neighbour with a plausible mistake
in it. No specification uses one; each is there to show that a property breaks
when the code does.

### Audio

`AudioHandoff` has two processes. `mpc` says where the main thread is: which
callback of sokol runs, and where in `try_submit_audio` or in `buxn_audio_send`
it stands. `apc` says where `audio_callback` is. A copy or a clear of a buffer
is a place and not a step, so that a data race is a state with both threads at
such a place; `Poll`, `Submit`, `Release` are the accesses to the atomic
pointer. Two accesses race in the code: a read of the VU port calls
`buxn_audio_envelope`, which sets `advance` to zero past the release, while the
renderer uses it. In the model `EndRender` may see either value.

The history variables `sent`, `received`, `notified`, `open` and `silenced`
belong to properties only.

`EndsCounted` says that a note's end is counted unless a read of the VU port
stopped the note first: then the renderer finds the device already stopped and
nobody counts it. That is what the code does, so it is an exemption, and a
hazard in the list.

Fairness: sokol calls `frame()` again and again whatever else it calls, hence
strong fairness of `BeginFrame`; both threads go on once they are called, hence
weak fairness of `MainWorks` and `AudioWorks`. Vectors are assumed to end.

### Debugger

`Debugger` extends `DbgBreakpoints`: the table there is the core's. `place`
walks through `buxn_dbg_hook`, one place before each message written or read,
since the debugger may send or leave between any two. `Update` is the host's
poll between vectors, which requests a pause when the descriptor is readable
and puts the hook in or takes it out. `Init` leaves open whether the host polls:
the GUI does, the command line program does not.

The debugger may also send something that is no request (`Babble`): a malformed
message, or one of another kind. When its turn comes the wire reads no more
(`wire.c:83-90`), as if the input had ended, with what is left of it unread (`noise`);
execution goes on, and each poll that finds it requests a pause that ends at once.
In `DbgSession` a break may end without a request in that case only when all the
requests made before were answered.

After the debugger left, a write may succeed or fail (it may be buffered), each
write for itself. Partial reads and writes of the descriptor are not told from
whole ones.

Fairness is the machine's only: its thread goes on unless it waits for a
request (weak fairness of `Hook \/ Execute`), a host polls and runs vectors
again and again (strong fairness of each, as each is disabled while a vector
runs). The debugger promises nothing. `RequestsAnswered` needs a host that
polls, and says so.

### Files

Each write to a port of `file.c` that opens or closes something is an action;
a read of a directory is a loop, and so several. `host` is what PhysicsFS has
open, `Free` or not, so that a leaked or doubly used handle can be seen.

`ListingInOrder` exempts a directory opened after another was left in the
middle of a line: no request empties the buffer, and the rest of the old line
comes first. `ShortReadMeansEnd` exempts a line too long for the buffer, which
ends the read in the code.

### Machine

`UxnCpu` is written the way the macros of `exec.h` are: pointers into arrays,
operands popped one after the other from the stack or, in keep mode, from a copy
of its pointer. It keeps the interpreter's local copies of the stack pointers
apart from the machine's, as the code does, with the points at which it saves
and loads them. `UxnReference` has no pointers: it takes operands and results
from the signatures written over the opcodes. `IsUxn` is a refinement from one
to the other.

### Assembler

`AsmLexer` makes a step of every character that is read, and one of every
failing read, of which there may be `MaxFailures`. `TokensExact` finds the tokens
and texts of a file by what separates them, with no state. It says nothing of a
carriage return without a line feed, which the code counts as a line of its own
or not, depending on what reads it.

`Asm` reads records instead of characters. `units` is the C stack: the main
file, and upon it the macros being expanded and the files being included, each
with its place; `Depth` counts them the way the code does, which is one less
while the main file is open. An action stands for everything a token does.
Comments and definitions of macros are loops over tokens in the code, and so take
a step per token, with `comment` and `defining` for where the loop is. A token
that fails ends the assembly (`phase` is `done`), except a reference that turns
out too far when its label appears: the code reports it, goes on to the end of
the unit and fails there.

A reference that must wait is a node of a list: `refs` of its symbol, `lambdas`,
or, for an anonymous label, `atLabels`; `pool` is the free list. Nodes have
numbers, so that `NodesOwned` can say that no node is on two lists or lost.
The pool is reused across all three.

`AsmLayout` has no lists and no order. `Program` writes macros and files out in
one sequence of tokens; then scopes, partners of brackets, addresses, targets
and bytes are each defined over that sequence. `IsLayout` compares: a program is
accepted if and only if it has a layout, and then the bytes are the layout's.
It exempts the bytes, and only them, of a program that pads back over what it
wrote: there, a label that appears late fills in what has been overwritten, and
the order decides. `SymbolsAgree` and `WarningsExact` compare the other outputs, for all
programs. `EveryByteMapped`, of `Asm`, needs no layout.

`ProgramsAssumption` says what the reader gives to the pass: a rune of those
there are, and numbers that fit. `Asm` declares no RECURSIVE operator, so that
theorems can be proved about it; `AsmLayout` does, and is for TLC.

### Checker

`ChessAnnotations` takes a step per symbol, as the assembler reports them. What
a comment is shows only at an arrow or at an exclamation mark, so its tokens
are kept in `anno.tokens` until then, while there is room for them and for their
characters (`HasRoom`), and replayed; `Parse` is the first stage and `Stage2` the second. `AnnotationsExact` (`ChessComments`) reads each comment as a
whole instead: from where it opens to where it closes, as a text that is split at its
seal, its arrow and its dots, or is prose. Of the comments about an address the
first that means something counts.

In `Chess` one step is one instruction with its cast, one fall into a routine,
or the start or the end of a run. Inside a step an instruction is a function
from record to record, because its parts fail in the middle: `m.done` stands
for the terminated run that the rest of the C functions checks. A value is a
set of the bits of its semantics with its number; `whole` is the node of the
value that was split, `split` says which split of that node, and only the
history uses it. `nodes` has the heap of these nodes and the free list.

A literal may be a quoted instruction, as in `LIT ADD`: what `RomAt` reads is then the
byte the instruction is encoded in, `Encoded`, which only has to be a byte. Operands,
pushes, signatures and casts are each a loop over a list, here a recursive
function of how far it has got, `after`.

`ChessReference` runs a machine over stacks of bytes that are a number, unknown,
or half of the return address, and explores every path of it (`Reached`). It
executes the code of what is called, and trusts only sealed signatures; for
reports it goes by the contract instead, as the checker does, where any call
returns and any condition may hold.

The code does not keep its promise for every program. `doubts` records, as
history, the events after which it may not, and the properties exempt programs
in which the one they are vulnerable to has occurred. Each is what the code
does, found by the model and seen again in the C code, compiled into a harness
whose answers on about 12,000 programs were the model's:

* `cut`: the map of jumps is one for all runs (`chess.c:1190`), so that a jump
  is not followed when another run has made it, with whatever stacks. A loop
  that grows the stack with every turn is accepted after its first turn; code
  that two routines jump to is checked for the first only.
* `recycled`: the nodes of a run's split values are freed with the run
  (`chess.c:2071`), while its forks hold halves that point to them. Two halves
  may join to the value of another run.
* `forgotten`: whether a routine ends is one flag; a run that calls or
  jumps to its own routine clears what another has set (`chess.c:1135`). A routine
  that ends may be reported not to.
* `full`: a stack of 256 bytes has a size of 0 (`chess.c:694-714`).
* `wide`: a byte constant is not cut to a byte when it is computed, so that
  later conditions and addresses use bits the machine has not.
* `back`: a return to a known address is no jump for the map. With `&l ;&l
  STH2 !fn` the checker follows a subroutine back into the run for ever.

A routine that only calls itself, `@fn ( -- ) fn JMP2r`, is accepted, as the
call is taken to return: that is the contract, and `Sound` holds since the
machine never leaves by a wrong way; `EndsSomewhere` goes by the contract.

Fairness: the checker is one loop on one thread, hence weak fairness of
all its steps; it is written as `Fairness` so that TLC need not evaluate ENABLED of
the whole of `Next`.

### Screen, console and hands

`Screen` keeps the flat arrays with margins, as the code does, and steps at a
port that does something: `Draw` is a pixel, a fill or a whole run of tiles, with
the resize that may come first. `Frame` renders what is dirty. Positions are
shorts with a sign, and `PaintTile` adds margins modulo 2^16 as the code does.
A fill with the position beyond the margins could write outside of the array;
`FillsInside` keeps the model from it. `TexturesExact` is the
host's side, `IsPicture` the program's. Neither holds for every draw within the array:

* a fill whose columns begin left of the margin, or end past the far one, goes on in
  the rows above or below (`screen.c:178-183`), outside of the rectangle it notes
  (`FillStrays`);
* a tile takes its place modulo 2^16 (`screen.c:229-230`), while the rectangle does
  not: a run that goes past 2^16, and on a screen wider than 2^15 a tile at a negative place,
  paints elsewhere (`TileStrays`: the tile's end is not a short, and it is not passed over).

An address (`rA`) is an `int`, and grows with each run; `LastAddress` bounds how far `MaxDraws`
draws can move it. `Memory` is assumed to have bytes up to there: their bits are 0 or
1. Blendings are below 16, and a run is at most 16 tiles, as the ports' four bits make them.

`strayed` records, as history, the layers in which this has happened since the last
theme or new size, either of which makes all of the screen dirty; `TexturesExact`
exempts them, and `IsPicture` the steps that end in one. The run has positions far off,
where each property fails without its exemption. These are fills that stray; no tile of the
run's small screen and short runs does, and the theorems are what covers the tiles.

`Console` has one execution of the program per event: it may take or drop its
vector, leave, and write. Its parts are `InputExact` (told in order, once and
all), `LeftAlone` and `OutputExact`. As in the code, exit code 0 is not noticed
before the arguments are sent, nor by the GUI at all.

`GuiInput` gives hands their freedom: any finger, key or button, in any
order, and another window that takes the keys. What the program knows is kept in
`seen`, and `HandsExact` compares. A touch that is cancelled counts as a tap,
and releasing one of two keys for a button releases the button; both are
what the code does.

`Repl` is a turn at a time: the signature is read, then lines while a mark is
open, then every run of the checker is followed, in its order, and what it prints
is kept by the hook; if there is no error the machine executes, and a
condition may hold or fail. The stacks of the machine and those the next line is
checked with should be the same. The code does not keep this for every line, so
`differ` records, as history, what has come between since the last reset, and
`ReplExact` exempts it. Each was seen again in the C code of the REPL:

* `forked`: the runs of a line end in several ways, and the last to print is
  kept; or none of them prints, as in `POP BRK`, and the stacks of the line before
  are. The comment at `repl.c:130` takes an overflow or an underflow to be the only
  reason for a difference.
* `rejected`: a line that is not executed, since one of its runs fails, is kept
  if another has printed.
* `long`: more than eight values on a stack, or names too long together, and the
  signature is dropped with a warning; the next line is checked with empty stacks.
* `gone`: the names are in the arena of their turn. After a turn that prints
  nothing it is reset, and the signature is read from what is left there.

A stack of the checker has the size of the machine's, whose pointer is a byte, so that
both are empty again after one value too many (`Pushed`), and what prints needs
room for a short on top (`NoRoomToPrint`). With 6 for 256, the run fills a stack and
passes its end.

A name longer than a token, as a sum of sums soon has, cannot be read: every turn
from then on fails before its prompt, and the loop never reads a line again
(`Unreadable`). `\reset` sets everything else right.

The devices share nothing, so that `MCDevices` lets a behaviour use one of them, or the REPL:
their product would have states but no behaviour that is new.

## Runs

| run | asks | bounds | states |
|---|---|---|---|
| `audio` | races, loss, order, ends, refinement of the mailbox, liveness | two devices; two notes to one, one to the other | 198,645 |
| `breakpoints` | the table and the search | three ids, nine breakpoints, every instruction on four addresses and two ports | 1,331 (all tables) |
| `debugger` | pauses and the session | one request type of each kind, 3 requests (noise takes the place of the last), 2 ids, vectors of 2 instructions and BRK, return stack 0 or 1 | 7,251,123 |
| `debugger_live` | requests answered, leaving | the same with 2 requests and one id | 488,456 |
| `devices` | files: handles and listings; screen: picture and textures; console: events and lines; hands; the REPL's stacks | two file devices, a file, a directory of three lines, requests of up to 2; a screen of 3x2 resized to 2x2, tiles of 2x2, places at, before and past its edges, two draws, runs of up to 2 tiles; two arguments of up to one character, 2 typed, 3 written, lines of 2; three fingers, three keys, 3 of each input; four lines of 15, signatures of 2 values, names of 3, stacks of 6 | 695,089 |
| `uxn` | every opcode in every mode | bytes of two bits, stacks of 4, memory of two banks of 16; two or three instructions | 73,810 |
| `asm` | the ROM, symbols and warnings of a program, and the lists | a byte has 8 values, so 64 addresses; nesting up to 2; all programs of up to 4 or 5 tokens from five families, macros and includes from combinations: 61,639 programs | 365,070 |
| `chess` | annotations, soundness, ends, reports, termination | bytes of 4 bits, 16 addresses of zero page, 2 arguments, 9 tokens and 36 characters kept; 10,293 programs from families; machine stacks of 20 | 382,786 |
| `asm_lexer` | tokens and texts at their places | files of up to 6 characters of 5 kinds; tokens of 2, texts of 3; one failing read | 543,028 |
| `dbg_access` | finding | as `breakpoints` | |
| `dbg_shadow` | finding | as `breakpoints` | |
| `lexer_bytes` | finding | as `asm_lexer`, with up to 3 characters | |

Why these are enough:

* Two notes on one device let one replace, follow or be lost to another; the
  second device is there because a buffer carries notes of several and the loops
  over devices can be interrupted in between. The proofs remove both bounds.
* Three breakpoint ids are the least with a gap between two in use. Four
  addresses, of which two are the zero page, contain every wrap-around. The
  proofs remove these bounds, too.
* Three requests let one be answered, one be on its way and one be unread while
  a vector ends; a step over two vectors needs two instructions and a BRK.
* A third device would add no interaction: devices share the file system
  and the pool of directory buffers only. Lines of 2, too long, and 1, read in
  pieces of at most 2, are cut at every place.
* Two draws let one be over another, with a frame, a theme or a resize between
  any two steps; positions are beyond each edge and at it, and shorts that
  wrap. Tiles differ however they are mirrored, and runs go forth and back.
* One argument may be empty and one not; 3 characters written fill a line of 2, pass
  it, or end in it. Three fingers are one more than are followed; two of
  the keys are for one button.
* Four lines let stacks grow past a signature, be printed by one line, kept by
  another that prints nothing, lost, and used by the last. The lines typed have every
  token, two jumps one after the other, and each way of a run to end; every
  exemption occurs.
* With bytes of 16 values there are 256 addresses: a zero page of 16 and room for
  every program. The programs of `chess` are chosen by what they reach: comments
  of every sequence of up to four tokens of four kinds, and longer ones from where
  a text changes its meaning or its characters just fill the 36 there are; every opcode in every mode on known and on
  unknown operands, with one byte too few and too many left; every sequence of
  up to a few shuffles of halves and of return addresses; bodies with any two jumps, calls or
  forks between three labels; casts, literals and falls into routines. Every doubt
  occurs, and most programs have none.
* In words of two bits most instructions wrap somewhere, and shorts of two bytes
  still differ from bytes; a machine starts with every height of its stack.

* With 8 values of a byte a one-byte relative reference reaches 4 back and 3 on,
  so a program of four tokens can be within, at and past both ends of its reach,
  write up to the end of the memory and wrap around to the zero page. Five tokens
  let two references wait in each of two lists, released in either order and reused.
  A nesting of 2 is the least where depth, recursion and inclusion meet.
* Six characters hold two tokens and what is around them, a text with a quote in
  it, and every pair of line ends; the limits are small enough to be passed.

`CHECK_DEADLOCK FALSE` is set for `uxn` only: a vector of the model may have no
instruction left to run. `devices` uses symmetry between the two file devices and a view
without what no step and no property depends on; it checks no liveness.

### Findings

* `dbg_access`: the hook takes a short access to be at two neighbouring
  addresses, but LDZ2, STZ2, DEI2 and DEO2 wrap around in their page. A
  breakpoint on address 0 misses a short stored at 0xff.
* `dbg_shadow`: the search stops at the first breakpoint tripped. One that does
  not pause hides a pausing one with a higher id.
* `lexer_bytes`: a line end of two characters is one byte to the reader, so the
  byte offsets in symbols and reports are too small after it. `doc/asm.md`
  promises the precise byte offset.

## Proofs

Each theorem is `Spec => []Property` (or the step or refinement it names) for every
value of the constants that keeps the named assumptions. Few of the properties are
inductive; each module states the invariant that is, `IInv`, and TLC has checked it on
the bounds above before it was proved.

| module | for any | theorems |
|---|---|---|
| `AudioHandoff_proofs` | number of devices and of notes | `TypeCorrect`, `RaceFree`, `NotesInOrder`, `LastNoteKept`, `EndsNeverAhead`, `EndsNeverMissed`, `ImplementsMailbox` |
| `Debugger_proofs` | table, addresses, page size, vectors, depth of the stack, number of requests | `TableCorrect`, `SearchCorrect` of `DbgBreakpoints`; `TypeCorrect`, `PausesAreJustified`, `NothingIsRunPast`, `IsASession` |
| `Devices_proofs` | files: number of devices, files, directories, lengths of requests; console: arguments, size of the buffers, amount typed and written; hands: fingers, keys and buttons, number of inputs; screen: sizes, positions, tiles, length of runs, number of draws | `OwnsWhatItHolds`, `ReadsToTheEnd`, `ReadsInOrder` of `FileDevice`; `TellsAndLogs` of `Console`, `SeesHands` of `GuiInput`, `ShowsWhatIsDrawn` and `IsAPicture` of `Screen` |
| `UxnCpu_proofs` | size of a byte, number of banks, memory, instructions | `StaysInBounds`, `ExpandsExactly`, `ImplementsTheReference` |
| `Asm_proofs` | program, size of a byte, depth of nesting | `TypeCorrect`, `EachIsInOnePlace`, `EachByteHasASymbol`, `NumbersAreOfLabels` |
| `Chess_proofs` | program, size of a byte, number of arguments and of characters for one, bytes of instructions | `CheckerTypesAreKept`, `AnnotationsAreRead` |
| `Input_proofs` | tokenizer: text of a file, lengths of tokens and texts, number of failing reads; REPL: lines, size of the stacks, limits on signatures, number of prompts | `TokensFound` of `AsmLexer`, `ChecksWhatIsThere` of `Repl` |

**Audio.** `IInv` says who owns which buffer (the pointer's target, what the audio
thread took and what the main thread fills are different buffers, except
between submitting and swapping), what a buffer that is neither may hold
(nothing once it is cleared, or what was submitted before), and how far each note
has come (received, submitted, staged, sent, in this order). Without the
ownership, nothing forbids that a swap hands the audio thread's buffer to the main
thread; without what idle buffers hold, a stale note may come back.

**Breakpoints.** The summaries are exact, which is inductive as it stands, and the
search reports the first breakpoint really tripped.

**Debugger.** The properties are about what the debugger sees and what the machine
does; that they follow needs what is on the way between them. `Queue` numbers the
requests: those unread are the last of those asked, and an answer is owed for
at most the one being treated. `Hangup`: the output fails only because the
debugger has left, the input also when something that is no request came after all the
requests (`Babbled`). `Phase` says at which places the hook may be in, and that without it
nothing stands and no breakpoint is left. `Pledge` relates the standing command
to the goal the debugger was promised, and `Verdict` what the hook has decided to
the instruction, until it runs: without these a pause could lose its reason between
the decision and the message, or a step its target. `Talk` gives the last
message at each place, which is what maps a step to one of `DbgSession`: its
variables are the model's own (`IsASession` is its safety; that
every request is answered is liveness and stays with TLC).

**Files.** `HandlesOwned` is not inductive: a device opens what is free, and nothing in it
says that there is something free, or that a handle of a file is not one of a
directory. `HostOK` says what an open handle is of, `RequestOK` that there is one
request at a time. That a handle and a directory buffer are left when a device
opens one is a count: each other device holds at most one (`OneIsFree`). For
`ReadsInOrder`, `Reading` says where a device is in the listing: it has read the lines
before the host's position but for what is in its buffer. Lines are as
many as the listing has, so that this is an induction; it is made over the set of
numbers at which a fact fails, in `NumberFacts`, as the induction
theorems of the library cannot be used.

**Console.** `ConsoleExact` compares what a program was told with the whole of what there
is to tell, of which the arguments are a part until the last is sent. `Sending` says
which part: the arguments before the present one, with their separators, and its
characters so far. It also says that the command line program reads on only as
long as the input is not closed, without which an end could be told twice. What is
written is a list of the lengths of lines; the log must hold, of each, its whole pieces
and the rest, so a character more is a step of division (`LoggedChar`), and the end of a
line closes it with a rest that may be empty (`LoggedLine`). Both are about sequences
one after the other, `Joined`, a recursive function whose values `JoinedExact` derives
once.

**Hands.** `HandsExact`, which compares what the program was told with what hands did,
is inductive with `AtRest`: between two events there is no turn of the wheel and no
character, as the code takes them back when it has told them, so neither is told twice.
The part of a turn that an event has over is cut off, as in the code, and not counted.

**Screen.** A texture shows its layer outside of the rectangle that is noted (`Fresh`), not
only outside of what the frame clamps it to (`Clamped`, which cuts off nothing that is on
the screen: `CutOff`); so every step that changes a pixel must widen the rectangle over it.
The layer is a flat array, and what has to be shown is that a place in it is one
pixel: `PlaceExact` and `PixelPlace` go from one to the other by division. A dot
beyond the margin ends in a margin (`DotKeeps`); a fill that has not strayed and a tile at a
short stay in their columns and rows (`FillKeeps`, `TileKeeps`). A run is an
induction on how many of its tiles are drawn (`RunKeeps`): each is within what the
whole run notes (`ReachCovers`), whichever way it goes, so that what is noted at its end
covers all of it. A theme and a new size note everything, which is why they
end what has strayed.

`IsAPicture` maps the flat arrays to pictures, cut at the margins. What a step
leaves at each pixel is stated once (`DotShows`, `FillShows`, `RunShows`) and used twice,
for the rectangles and for the pictures. A run is painted tile after tile, and the picture names
the last one that paints; `OneMoreTile` is the step from one to the other
(`LastPainted`). Colors of a tile are the same on both sides if its bytes are in
`Memory`, for which `AddressInv` bounds the address by the number of draws. A screen that
has been asked for a new size is cleared before it is looked at or drawn on (`Looked`).

**REPL.** The checker follows its runs one after the other and forgets each when it ends;
only then does the machine take one of their ways, whichever its conditions
decide. What a line's run leaves in `ends` does not say where the machine may be in the
middle of the line. The invariant says that while the line is checked there is a set of
places (a token, with the sizes of the stacks there) that has the first one; each place in
it either has all its successors in the set, or is the end of the line with its sizes
printed, or is still to be followed (`Covers`). A step of the checker adds to the set
the places it finds; when nothing is left to follow, the set is closed, and the
machine, which begins in it, cannot leave it (`Executed`). If all runs printed one and the
same result, that is what the machine comes to. A run that was cut short at a
jump made before spoils this, and is one of the ends that make `forked`. `Agreed`
carries the sizes from turn to turn as far as `differ` is empty, and `Named` says which of
the two arenas holds the names: the one before the present one, unless the turn
before printed nothing.

**Machine.** `TypeOK` is inductive by itself once every operand is known to be a byte or
a short in its mode: this is where each pointer, address and word wraps. `ExpandsExactly`
compares the loops of the expansion operation, which copy up or down in memory, with
what they should do to each byte, overlapping or not, across the end of a bank. For
`ImplementsTheReference` a stack with a pointer is mapped to a ring seen from its top;
operands popped one by one, or read past a copy of the pointer, are the values at
their depth in the ring; results pushed one by one (`PushedFirst` is the stack after the
first n) are the ring with all of them on top. What each opcode does is then the
same expression on both sides.

**Assembler.** `Typing` is what each variable ranges over, with four facts that keep
it: a unit is of a file or a macro that exists, only forward references have nodes that wait
(so no definition drops a list), a macro is defined under a name for which nothing
waits, and references are written within memory. `Ownership` is `NodesOwned`
in the form that is easiest to move: lists by what they are for, in which
each node ever allocated is exactly once. Every action that touches lists is then
a take from the pool or of a new number, a move of a whole or of part of a list, or a
release, and each of these keeps it.

`EveryByteMapped` holds because a reference is reported when it is read, not when it is
filled in: `Mapping` adds that whatever waits, in the list of a symbol or of lambdas, has
its addresses mapped already (`Within`), so that bytes filled in at the end are mapped
as well. `Numbering` is what makes `NumbersAgree` inductive. Numbers belong to
labels, to lambdas still open or to names that are waited for, and no two of these
share one (`Apart`); a label in the table or in front of an anonymous reference has
been reported with its address, and a reference has a number of one of the three kinds
(`Known`); in a program that is accepted nothing is left open (`Settled`), so that only
labels are left. `NumbersAgree` is the first conjunct of `SymbolsAgree`; that these are
as many labels as the layout has, at its addresses, stays with TLC.

**Checker.** `TypeOK` says what the C code takes for granted of its pointers and
sizes: no node of a split value is both free and in use, what is run was marked as a
routine, a half has a node with its whole. It needs the same of everything a value
can come from: of the stacks of runs that wait, which outlive the run that made
them, of signatures and casts (`Plain`: no constants and no halves), and of the
comment that is being read (`IsComment`: what may become the signature of a label is
about a label that is in the table, as only then is there something to mark). Most
of the proof is not about states, however, but about records: `Good` is what
`IInv` says of a record, each operator that an instruction is built from takes a
good one to a good one, and `Execute` composes them. The loops over operands,
signatures and casts are recursive functions; each has a lemma that carries `Good`
from one of its values to the next. An opcode got as many operands as it takes
(`Operands`), so that what is pushed exists (`Shuffled`). A value is good for a
number of nodes, and a step never takes nodes away, only frees them: that is why a
value that waits stays one. It also is why `recycled` is a doubt and not a type
error: a node that was freed and taken again still is a node.

`AnnotationsExact` only speaks of programs that have been read; `CInv` is what holds on
the way. It says which symbol a comment would be about now (`IsCurrent`), what has been
made of the comment that is open (`IsReading`), and that the tables hold what the comments
already closed have told (`HasSignatures`, `HasCasts`). While a comment is open, `Parsed`
relates its tokens so far to the record being filled: before an arrow or a seal they are
kept as they are; after it, the record has the sides that the text splits into there
(`IsText`); a comment that was given up can mean nothing any more, however it
goes on (`Obstructed`): with room for some tokens there is room for fewer (`RoomLess`), so that
one kept too many is in the way of every reading. `Stage2Step` keeps this over one token, `ReplayedRead` over those
that were kept, and `ParsedMeans` says that at the end it is the one reading the text
has, or that there is none. The rest is about places: a comment closes once and no other opens
in it (`CommentRuns`, `OneOpens`), what it is about does not change in it (`AboutOpen`),
and one that closes comes after all those that have told something (`ToldClosed`), so
that the first stays the first (`EarliestExact`).

**Reader.** `TokensExact` compares the tokens read with those there are, which `Starts`
finds from the end of the file to its beginning. `LexerInv` cuts the file at the
cursor: what was found (`Found`) followed by what there is from the cursor on (`Starts` at
it) is all there is, and a token that is being read is as much of it as lies before the cursor.
A step moves one character from the right to the left. `Starts`, `Joined`
and the line of a character are recursive functions, of which `StartsExact`, `JoinedExact`
and the like derive the values once. A carriage return that is alone is excluded by the
property, and after a read that fails nothing more is claimed.

The assumptions are those of the modules on their constants, and TLC evaluates
each for the values of the runs: there is an audio device, the null pointer is no buffer, the
zero page fits in the memory, breakpoints and instructions have their types
(`DbgBreakpoints`); the host has a directory
buffer for each device (`BUXN_NUM_FILE_DEVICES` of them), paths and marks differ, lengths are numbers
(`FileDevice`); arguments have lengths, and a buffer has room for a character and its
zero (`Console`); a modifier is the button of some key and there is a value for no finger
(`GuiInput`); the screen's ports are shorts, sizes are natural
numbers, controls name a layer, and bytes that tiles are in have bits (`Screen`); a stack has a size, the limits of a signature are numbers, and lines are
made of the ten tokens (`Repl`); a byte has at least four values, there are two banks, the machines,
vectors and inputs to start from have their types, and the bitwise operators
on bytes and shorts stay in them (`UxnCpu`, `UxnWords`); a byte has at least four values and
the reader gives tokens (`Asm`); the assembler reports symbols of the kinds there
are, a comment is not interrupted and comes to its end, as both drivers call `buxn_chess_end`
only if the assembler succeeded (`asm.c:654`, `repl.c:190`), an instruction is a byte, and a
stack has room for a signature (`Chess`); a file is of the characters there are, and the buffers for tokens
and texts have a length (`AsmLexer`).

Only model-checked, and why:

* every liveness property (`EndsNotified`, `RequestsAnswered`,
  `LeavesWithDebugger`, `Decides`, the liveness of the mailbox): the prover handles
  neither fairness nor ENABLED;
* `IsLayout`, `WarningsExact`, `SymbolsAgree` beyond its first part, and what the checker promises of the programs it accepts
  (`Sound`, `EndsSomewhere`, `ReportsAreReal`): their references are
  recursive over sequences, programs or runs, and what these compute
  for every input is induction over data.

## Plan

1. **Symbol table** (`Symtab`): `dbg/symtab.c` over a file that ends anywhere.
2. **Annotations**: `asm/annotation.c` with the handlers of `bindgen.c`.

Modules to be proved about use no RECURSIVE operators.

## Not modelled

Beyond what the inventory says: the bytes the debugger's messages are encoded in
and the table of symbols it shows (without state, or a file that is read once);
the drivers `asm.c`, `bindgen.c`, `ctags.c`, `romviz.c`, `rom2exe.c`
(batch programs over the assembler's callbacks); files and formatting of `repl.c`; the
metadata of a ROM; the debugger's overlay and the platforms of the GUI. Of the
checker, its warnings, traces, names of values, its
reuse of entries, and the host's hook on a DEO, which prints a stack. `Chess`
also leaves out the comparison of routines' types in signatures
(`chess.c:807-819`): no parsed annotation makes a value with that bit.

## How to run

    tlc -workers 2 -config AudioHandoff.cfg MCAudioHandoff
    tlapm AudioHandoff_proofs.tla

and so for the others: `PROJECT.json` names the module and the configuration of
every run. The `debugger` and `devices` runs take about two minutes each, `asm` and `chess`
more than one, the others less.
