------------------------------ MODULE Debugger ------------------------------
(***************************************************************************)
(* A virtual machine under a remote debugger: the hook of the debugger     *)
(* core (src/src/dbg/core.c), the wire it talks through                    *)
(* (src/src/dbg/wire.c) over a file descriptor                             *)
(* (src/src/dbg/transports/fd.c), the host that looks for requests while   *)
(* no vector runs and takes the hook in and out (src/src/dbg.c), and the   *)
(* debugger at the other end, which asks whatever it likes whenever it     *)
(* likes, may send what is no request, and leaves when it likes.           *)
(*                                                                         *)
(* Every read and write of the descriptor is a step: the debugger may send *)
(* or leave between any two of them.  A request arrives as a whole.  The   *)
(* program is not modelled: a vector runs any instructions, and the return *)
(* stack goes up and down.                                                 *)
(*                                                                         *)
(* An operator named Slip... is the next one as a plausible mistake would  *)
(* leave it; the specification does not use it.  It shows that a property  *)
(* depends on the code it alters.                                          *)
(***************************************************************************)
EXTENDS DbgBreakpoints, Sequences

CONSTANTS
  MaxDepth,  \* bound of the model: how high the return stack grows
  MaxSteps,  \* bound of the model: instructions of a vector, before its BRK
  MaxAsks    \* bound of the model: how many requests the debugger makes; noise
             \* takes the place of the last

ASSUME BoundsAssumption == MaxDepth \in Nat /\ MaxSteps \in Nat /\ MaxAsks \in Nat

VARIABLES
  \* The core: standing_cmd, executing.
  standing, standingRsp, executing,
  \* The wire: whether in and out are not NULL, should_send_pause,
  \* should_send_reply, cmd.
  in, out, pauseDue, replyDue, cmd,
  \* The connection: the requests not read yet; whether something follows them
  \* that is no request, and if it was read; whether the debugger is there.
  requests, noise, open,
  \* The host: whether it is one that polls; whether its machine has the hook.
  polls, hooked,
  \* The machine: where it is, the instruction next to run, the return stack
  \* pointer, how many more instructions the vector may have; and the locals of
  \* the hook: execution_just_started, should_pause, brkp_id.
  place, instr, rsp, fuel, starts, shouldPause, brkpId,
  \* History: the last message sent, how many requests were made and answered;
  \* what the last pause ended with, and at which depth; whether a pause was
  \* requested, and an instruction run, since.
  said, asked, replied, goal, polled, moved

core == <<table, standing, standingRsp, executing>>
wire == <<in, out, pauseDue, replyDue, cmd>>
connection == <<requests, noise, open>>
host == <<polls, hooked>>
locals == <<starts, shouldPause, brkpId>>
machine == <<instr, rsp, fuel>>
session == <<said, asked, replied>>
promise == <<goal, polled, moved>>
vars == <<core, wire, connection, host, place, machine, locals, session, promise>>

(***************************************************************************)
(* Places of the machine's thread:                                         *)
(*   "host"      no vector runs                                            *)
(*   "begin"     the hook is about to tell of the vector                   *)
(*   "match"     the hook is about to decide whether to break              *)
(*   "break"     buxn_dbg_begin_break()                                    *)
(*   "pausing", "replying", "reading"   buxn_dbg_next_command()            *)
(*   "leaving", "endBreak"              buxn_dbg_end_break()               *)
(*   "fetch"     the hook is about to look for BRK                         *)
(*   "execute"   the instruction runs                                      *)
(***************************************************************************)
Pausing == {"pausing", "replying", "reading"}
Breaking == Pausing \union {"break", "leaving", "endBreak"}
Places == Breaking \union {"host", "begin", "match", "fetch", "execute"}

Request(type, id, brkp) == [type |-> type, id |-> id, brkp |-> brkp]
LeavingTypes == {"RESUME", "STEP_IN", "STEP_OVER", "STEP_OUT"}

\* INFO stands for all commands that only read, WRITE for MEM_WRITE and
\* DEV_WRITE.
Requests ==
  {Request(type, NoId, NoBrkp) : type \in LeavingTypes \union {"INFO", "WRITE"}}
    \union {Request("BRKP_SET", id, brkp) : id \in Ids, brkp \in Breakpoints \union {NoBrkp}}

NoCommand == [n |-> 0, req |-> Request("NONE", NoId, NoBrkp)]

Init ==
  /\ InitTable
  /\ standing = "PAUSE" /\ standingRsp = 0 /\ executing = FALSE
  /\ in = TRUE /\ out = TRUE /\ pauseDue = FALSE /\ replyDue = FALSE /\ cmd = NoCommand
  /\ requests = <<>> /\ noise = "none" /\ open = TRUE
  /\ polls \in BOOLEAN /\ hooked = TRUE
  /\ place = "host" /\ instr \in {s \in Situations : s.op = "BRK"} /\ rsp = 0 /\ fuel = 0
  /\ starts = FALSE /\ shouldPause = FALSE /\ brkpId = NoId
  /\ said = "END_EXEC" /\ asked = 0 /\ replied = 0
  /\ goal = [type |-> "STEP_IN", rsp |-> 0] /\ polled = TRUE /\ moved = FALSE

-----------------------------------------------------------------------------
(***************************************************************************)
(* The debugger.                                                           *)
(***************************************************************************)
Ask ==
  /\ open
  /\ noise = "none"
  /\ asked < MaxAsks
  /\ asked' = asked + 1
  /\ \E req \in Requests : requests' = Append(requests, [n |-> asked + 1, req |-> req])
  /\ UNCHANGED <<core, wire, noise, open, host, place, machine, locals, said, replied, promise>>

\* Something that is no request: malformed, or another kind of message.  What
\* follows it is noise, too, for the machine reads no more.
Babble ==
  /\ open
  /\ asked < MaxAsks
  /\ noise' = "unread"
  /\ UNCHANGED <<core, wire, requests, open, host, place, machine, locals, session, promise>>

Close ==
  /\ open
  /\ open' = FALSE
  /\ UNCHANGED <<core, wire, requests, noise, host, place, machine, locals, session, promise>>

-----------------------------------------------------------------------------
(***************************************************************************)
(* The host.                                                               *)
(***************************************************************************)

SlipShouldHook(command) == nbrkps # 0

\* buxn_dbg_should_hook()
ShouldHook(command) == command # "EXECUTE" \/ nbrkps # 0

SlipUpdate ==   \* only a debugger that left is noticed
  /\ place = "host"
  /\ polls
  /\ standing' = IF ~open THEN "PAUSE" ELSE standing
  /\ polled' = (polled \/ ~open)
  /\ hooked' = ShouldHook(standing')
  /\ UNCHANGED <<table, standingRsp, executing, wire, connection, polls, place, machine,
                 locals, session, goal, moved>>

\* buxn_dbg_integration_update(): something to read, be it noise or the end of
\* the input, requests a pause.
Update ==
  /\ place = "host"
  /\ polls
  /\ LET readable == requests # <<>> \/ noise = "unread" \/ ~open
     IN  /\ standing' = IF readable THEN "PAUSE" ELSE standing
         /\ polled' = (polled \/ readable)
  /\ hooked' = ShouldHook(standing')
  /\ UNCHANGED <<table, standingRsp, executing, wire, connection, polls, place, machine,
                 locals, session, goal, moved>>

\* The next instruction is s: the hook runs first, if the vector was entered
\* with it.
Reach(s) ==
  /\ instr' = s
  /\ starts' = FALSE
  /\ place' = IF ~hooked THEN "execute" ELSE IF executing THEN "match" ELSE "begin"

StartVector ==
  /\ place = "host"
  /\ fuel' = MaxSteps
  /\ \E s \in Situations : Reach(s)
  /\ UNCHANGED <<core, wire, connection, host, rsp, shouldPause, brkpId, session, promise>>

-----------------------------------------------------------------------------
(***************************************************************************)
(* The wire.  A write may fail once the debugger has left.                 *)
(***************************************************************************)
Outcomes == IF open THEN {TRUE} ELSE BOOLEAN

\* A message that is not an answer.
Send(message) ==
  \E ok \in Outcomes :
     /\ out' = (out /\ ok)
     /\ said' = IF out /\ ok THEN message ELSE said

\* One whose failure closes the input, too.
SendOrHangUp(message) ==
  /\ Send(message)
  /\ in' = (in /\ out')

\* buxn_dbg_wire_maybe_reply()
MaybeReply ==
  IF out /\ replyDue
  THEN /\ SendOrHangUp(IF cmd.req.type \in LeavingTypes THEN "LEAVE" ELSE "REPLY")
       /\ replyDue' = FALSE
       /\ replied' = IF out' THEN cmd.n ELSE replied
  ELSE UNCHANGED <<in, out, said, replyDue, replied>>

-----------------------------------------------------------------------------
(***************************************************************************)
(* The hook.                                                               *)
(***************************************************************************)
BeginExec ==
  /\ place = "begin"
  /\ executing' = TRUE
  /\ starts' = TRUE
  /\ Send("BEGIN_EXEC")
  /\ place' = "match"
  /\ UNCHANGED <<table, standing, standingRsp, in, pauseDue, replyDue, cmd, connection, host,
                 machine, shouldPause, brkpId, asked, replied, promise>>

PausesAt(id) == id # NoId /\ "PAUSE" \in brkps[id].mask

\* The standing command asks for a pause.
StandingPauses ==
  \/ standing = "PAUSE"
  \/ standing = "STEP_OUT" /\ rsp < standingRsp
  \/ standing = "STEP_OVER" /\ rsp = standingRsp

Decide ==
  /\ place = "match"
  /\ brkpId' = Match(instr, starts)
  /\ shouldPause' = (PausesAt(brkpId') \/ StandingPauses)
  /\ place' = IF shouldPause' \/ brkpId' # NoId THEN "break" ELSE "fetch"
  /\ UNCHANGED <<core, wire, connection, host, machine, starts, session, promise>>

BeginBreak ==
  /\ place = "break"
  /\ Send("BEGIN_BREAK")
  /\ pauseDue' = (pauseDue \/ out)
  /\ place' = IF shouldPause THEN "pausing" ELSE "leaving"
  /\ UNCHANGED <<core, in, replyDue, cmd, connection, host, machine, locals, asked, replied,
                 promise>>

SendPause ==
  /\ place = "pausing"
  /\ IF out /\ pauseDue
     THEN SendOrHangUp("PAUSED") /\ pauseDue' = FALSE
     ELSE UNCHANGED <<in, out, said, pauseDue>>
  /\ place' = "replying"
  /\ UNCHANGED <<core, replyDue, cmd, connection, host, machine, locals, asked, replied,
                 promise>>

SendReply ==
  /\ place = "replying"
  /\ MaybeReply
  /\ place' = "reading"
  /\ UNCHANGED <<core, pauseDue, cmd, connection, host, machine, locals, asked, promise>>

SlipLeave(command, depth, type) ==   \* a resumption that leaves the step standing
  /\ standing' = IF command = "EXECUTE" THEN standing ELSE command
  /\ standingRsp' = depth
  /\ shouldPause' = FALSE
  /\ goal' = [type |-> type, rsp |-> rsp]
  /\ polled' = FALSE
  /\ moved' = FALSE
  /\ place' = "leaving"

\* The pause ends with a command.
Leave(command, depth, type) ==
  /\ standing' = command
  /\ standingRsp' = depth
  /\ shouldPause' = FALSE
  /\ goal' = [type |-> type, rsp |-> rsp]
  /\ polled' = FALSE
  /\ moved' = FALSE
  /\ place' = "leaving"

Stay ==
  /\ UNCHANGED <<standing, standingRsp, shouldPause, promise>>
  /\ place' = "replying"

Perform(req) ==
  \/ req.type = "RESUME" /\ Leave("EXECUTE", standingRsp, "RESUME") /\ UNCHANGED <<table, instr>>
  \/ req.type = "STEP_IN" /\ Leave("PAUSE", standingRsp, "STEP_IN") /\ UNCHANGED <<table, instr>>
  \/ req.type = "STEP_OVER" /\ Leave("STEP_OVER", rsp, "STEP_OVER") /\ UNCHANGED <<table, instr>>
  \/ /\ req.type = "STEP_OUT"
     /\ IF rsp > 0 THEN Leave("STEP_OUT", rsp, "STEP_OUT")
                   ELSE Leave("EXECUTE", standingRsp, "STEP_OUT")
     /\ UNCHANGED <<table, instr>>
  \/ req.type = "INFO" /\ Stay /\ UNCHANGED <<table, instr>>
  \/ /\ req.type = "WRITE"    \* the instruction may be another one after it
     /\ \E s \in Situations : s.pc = instr.pc /\ instr' = s
     /\ Stay
     /\ UNCHANGED table
  \/ req.type = "BRKP_SET" /\ BrkpSet(req.id, req.brkp) /\ Stay /\ UNCHANGED instr

\* A request is read and performed; its answer is sent before the next is read.
ReadRequest ==
  /\ place = "reading"
  /\ in
  /\ requests # <<>>
  /\ requests' = Tail(requests)
  /\ cmd' = Head(requests)
  /\ replyDue' = TRUE
  /\ Perform(Head(requests).req)
  /\ UNCHANGED <<executing, in, out, pauseDue, noise, open, host, rsp, fuel, starts, brkpId,
                 session>>

SlipEndOfInput ==   \* a read that fails is tried again
  /\ place = "reading"
  /\ ~in
  /\ in' = FALSE
  /\ Leave("EXECUTE", standingRsp, "RESUME")
  /\ UNCHANGED <<table, executing, out, pauseDue, replyDue, cmd, connection, host, machine,
                 starts, brkpId, session>>

\* What comes is no request, or the input ends, or was closed before: execution
\* resumes.  Of what is no request, some may be left unread.
EndOfInput ==
  /\ place = "reading"
  /\ in => requests = <<>> /\ (noise = "unread" \/ ~open)
  /\ in' = FALSE
  /\ noise' \in IF in /\ noise = "unread" THEN {"unread", "read"} ELSE {noise}
  /\ Leave("EXECUTE", standingRsp, "RESUME")
  /\ UNCHANGED <<table, executing, out, pauseDue, replyDue, cmd, requests, open, host, machine,
                 starts, brkpId, session>>

SlipSendLastReply ==   \* the answer is left to the next pause
  /\ place = "leaving"
  /\ place' = "endBreak"
  /\ UNCHANGED <<core, wire, connection, host, machine, locals, session, promise>>

SendLastReply ==
  /\ place = "leaving"
  /\ MaybeReply
  /\ place' = "endBreak"
  /\ UNCHANGED <<core, pauseDue, cmd, connection, host, machine, locals, asked, promise>>

EndBreak ==
  /\ place = "endBreak"
  /\ Send("END_BREAK")
  /\ place' = "fetch"
  /\ UNCHANGED <<core, in, pauseDue, replyDue, cmd, connection, host, machine, locals, asked,
                 replied, promise>>

EndHook ==
  /\ place = "fetch"
  /\ IF instr.op = "BRK"
     THEN Send("END_EXEC") /\ executing' = FALSE
     ELSE UNCHANGED <<out, said, executing>>
  /\ place' = "execute"
  /\ UNCHANGED <<table, standing, standingRsp, in, pauseDue, replyDue, cmd, connection, host,
                 machine, locals, asked, replied, promise>>

-----------------------------------------------------------------------------
(***************************************************************************)
(* The machine: an instruction runs; BRK ends the vector.                  *)
(***************************************************************************)
Execute ==
  /\ place = "execute"
  /\ moved' = TRUE
  /\ IF instr.op = "BRK"
     THEN /\ place' = "host"
          /\ UNCHANGED <<machine, starts>>
     ELSE /\ fuel' = IF fuel > 0 THEN fuel - 1 ELSE 0
          /\ \E s \in Situations : (fuel = 0 => s.op = "BRK") /\ Reach(s)
          /\ rsp' \in {rsp - 1, rsp, rsp + 1} \intersect 0 .. MaxDepth
  /\ UNCHANGED <<core, wire, connection, host, shouldPause, brkpId, session, goal, polled>>

-----------------------------------------------------------------------------
Hook ==
  \/ BeginExec \/ Decide \/ BeginBreak \/ SendPause \/ SendReply \/ ReadRequest
  \/ EndOfInput \/ SendLastReply \/ EndBreak \/ EndHook

Next == Ask \/ Babble \/ Close \/ Update \/ StartVector \/ Hook \/ Execute

Spec == Init /\ [][Next]_vars

\* The machine's thread goes on unless it waits for a request, and its host
\* polls and runs vectors again and again.
Fairness ==
  /\ WF_vars(Hook \/ Execute)
  /\ SF_vars(Update)
  /\ SF_vars(StartVector)

FairSpec == Spec /\ Fairness
-----------------------------------------------------------------------------
(***************************************************************************)
(* Properties.                                                             *)
(***************************************************************************)

\* Every variable has its type, and the table its summaries (TableOK).
TypeOK ==
  /\ TableOK
  /\ standing \in {"EXECUTE", "PAUSE", "STEP_OVER", "STEP_OUT"}
  /\ standingRsp \in 0 .. MaxDepth
  /\ \A b \in {executing, in, out, pauseDue, replyDue, open, polls, hooked, starts,
               shouldPause, polled, moved} : b \in BOOLEAN
  /\ cmd \in {NoCommand} \union [n : 1 .. MaxAsks, req : Requests]
  /\ requests \in Seq([n : 1 .. MaxAsks, req : Requests])
  /\ noise \in {"none", "unread", "read"}
  /\ place \in Places
  /\ instr \in Situations
  /\ rsp \in 0 .. MaxDepth
  /\ fuel \in 0 .. MaxSteps
  /\ brkpId \in Ids \union {NoId}
  /\ goal \in [type : LeavingTypes, rsp : 0 .. MaxDepth]
  /\ asked \in 0 .. MaxAsks
  /\ replied \in 0 .. asked

\* The last command asked for a pause at this depth.
GoalReached ==
  \/ goal.type = "STEP_IN"
  \/ goal.type = "STEP_OVER" /\ rsp = goal.rsp
  \/ goal.type = "STEP_OUT" /\ rsp < goal.rsp

\* The machine pauses for a reason: a breakpoint that pauses, the debugger
\* having something to say, or the step it asked for last being done.
PauseJustified ==
  place = "break" /\ shouldPause => PausesAt(brkpId) \/ polled \/ GoalReached

\* No instruction runs that the debugger should have seen first: not the
\* second after a step in, however the vectors and the host's taking out of
\* the hook fall, nor one that a pausing breakpoint is reported for.
RunsPastNothing ==
  place = "execute" =>
    /\ ~polled
    /\ moved => ~GoalReached /\ ~PausesAt(Match(instr, starts))

\* To the debugger, messages and answers come as DbgSession has them.
Session == INSTANCE DbgSession WITH orderly <- (noise = "none")
IsSession == Session!Spec

\* A request is answered whatever the program does, and whatever the debugger
\* sends after it, when the host polls.
RequestsAnswered ==
  \A n \in 1 .. MaxAsks : polls /\ asked >= n ~> replied >= n \/ ~open

\* src/tests/dbg.c: when the debugger leaves, "the vm will bail out of debug
\* wait regardless of status".
LeavesWithDebugger == ~open ~> place = "host"
=============================================================================
