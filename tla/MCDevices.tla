----------------------------- MODULE MCDevices -----------------------------
(***************************************************************************)
(* The devices and the REPL for TLC.  They share no state, so that a run   *)
(* of the model uses one of them: two file devices that are alike, with    *)
(* one file, and one directory with a line that is too long between two    *)
(* others; a small screen; the console; the pointer; the keyboard; or the  *)
(* REPL.                                                                   *)
(***************************************************************************)
EXTENDS FileDevice, Screen, Console, GuiInput, Repl, TLC

VARIABLE using

MCListing == [dir \in Dirs |-> <<2, TooLong, 1>>]
DevicesAlike == Permutations(Devices)

\* A memory with rows of tiles that differ however they are mirrored.
MCMemory == [i \in 0 .. 260 |-> (3 * i + i \div 4 + 1) % 4]

Auto(mx, my, ma, ml) == [mx |-> mx, my |-> my, ma |-> ma, ml |-> ml]
MCAutos == {Auto(FALSE, TRUE, TRUE, 1), Auto(TRUE, TRUE, FALSE, 1)}

Pixel(layer, fill, toLeft, toTop) ==
  [layer |-> layer, color |-> 2, fill |-> fill, left |-> toLeft, up |-> toTop]
MCPixels ==
  {Pixel("bg", FALSE, FALSE, FALSE), Pixel("bg", TRUE, FALSE, TRUE), Pixel("bg", TRUE, FALSE, FALSE)}

Sprite(layer, fx, fy, deep, blend) ==
  [layer |-> layer, fx |-> fx, fy |-> fy, deep |-> deep, blend |-> blend]
MCTiles == {Sprite("bg", TRUE, FALSE, FALSE, 6), Sprite("bg", FALSE, TRUE, TRUE, 5)}

MCArguments == UNION {[1 .. n -> 0 .. 1] : n \in 0 .. 2}

MCButtonOf == [k \in Keys |-> IF k = "up" THEN "UP" ELSE "A"]

MCLines ==
  {<<>>, <<"literal">>, <<"literal", "literal">>, <<"pop">>, <<"add">>, <<"stash">>,
   <<"?{", "pop">>, <<"?{", "leave">>, <<"literal", "?{", "\\reset">>,
   <<"?{", "literal", "?{", "literal">>, <<"leave">>, <<"\\reset">>, <<"[">>, <<"]">>, <<"bad token">>}

-----------------------------------------------------------------------------
MCInit ==
  /\ using \in {"file", "screen", "console", "pointer", "keyboard", "repl"}
  /\ Init /\ InitScreen /\ InitConsole /\ InitInput /\ InitRepl
  /\ using # "file" => size = [f \in Files |-> NULL]
  /\ using # "console" => app = "cli" /\ argv = <<>>

\* A host of the console comes to an end.
ConsoleOver == phase = "ended" /\ UNCHANGED consoleVars

\* Nothing more is typed at the REPL.
ReplOver == terminated /\ stage = "turn" /\ UNCHANGED replVars

MCNext ==
  \/ using = "file" /\ Next /\ UNCHANGED <<using, screenVars, consoleVars, inputVars, replVars>>
  \/ using = "screen" /\ NextScreen /\ UNCHANGED <<using, vars, consoleVars, inputVars, replVars>>
  \/ /\ using = "console" /\ (NextConsole \/ ConsoleOver)
     /\ UNCHANGED <<using, vars, screenVars, inputVars, replVars>>
  \/ /\ using = "pointer" /\ NextPointer
     /\ UNCHANGED <<using, vars, screenVars, consoleVars, keyVars, replVars>>
  \/ /\ using = "keyboard" /\ NextKeyboard
     /\ UNCHANGED <<using, vars, screenVars, consoleVars, pointerVars, replVars>>
  \/ /\ using = "repl" /\ (NextRepl \/ ReplOver)
     /\ UNCHANGED <<using, vars, screenVars, consoleVars, inputVars>>

MCSpec == MCInit /\ [][MCNext]_<<using, vars, screenVars, consoleVars, inputVars, replVars>>

\* What a file device remembers of a handle it no longer has, what its buffer
\* holds of a line read to the end, and the success port: no step depends on them.
RelevantFiles ==
  <<[d \in Devices |->
       <<handle[d], IF handle[d] = NULL THEN <<>> ELSE <<mode[d], stat[d]>>, path[d],
         IF dirPos[d] < dirLen[d] THEN <<dirEntry[d], dirPos[d], dirLen[d]>> ELSE <<>>,
         got[d], fresh[d]>>],
    host, size, request, asked>>

\* The state of the device that is used: that of the others is the first.
Relevant ==
  <<using, CASE using = "file" -> RelevantFiles
             [] using = "screen" -> screenVars
             [] using = "console" -> consoleVars
             [] using = "repl" -> replVars
             [] OTHER -> inputVars>>
=============================================================================
