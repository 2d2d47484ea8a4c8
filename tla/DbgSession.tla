----------------------------- MODULE DbgSession -----------------------------
(***************************************************************************)
(* What a remote debugger can rely on, seen from its end of the wire       *)
(* (src/include/buxn/dbg/protocol.h): in which order the messages of the   *)
(* virtual machine come, that requests are answered one by one in the      *)
(* order they were made, and that execution goes on after a pause only     *)
(* when a request has made it, unless the debugger has left, or has sent   *)
(* something that is no request after all its requests were answered.      *)
(***************************************************************************)
EXTENDS Integers

VARIABLES
  said,     \* the last message of the virtual machine
  asked,    \* how many requests the debugger made
  replied,  \* how many of them were answered
  orderly,  \* all it sent are requests
  open      \* the debugger is there

vars == <<said, asked, replied, orderly, open>>

Init == said = "END_EXEC" /\ asked = 0 /\ replied = 0 /\ orderly = TRUE /\ open = TRUE

Ask ==
  /\ open /\ orderly
  /\ asked' = asked + 1
  /\ UNCHANGED <<said, replied, orderly, open>>

Babble ==   \* nothing the debugger sends counts as a request any more
  /\ open
  /\ orderly' = FALSE
  /\ UNCHANGED <<said, asked, replied, open>>

Close ==
  /\ open' = FALSE
  /\ UNCHANGED <<said, asked, replied, orderly>>

Say(message, after) ==
  /\ said \in after
  /\ said' = message
  /\ UNCHANGED <<asked, replied, orderly, open>>

Reply(message) ==   \* "LEAVE" answers a request to go on
  /\ said \in {"PAUSED", "REPLY"}
  /\ replied < asked
  /\ said' = message
  /\ replied' = replied + 1
  /\ UNCHANGED <<asked, orderly, open>>

Next ==
  \/ Ask
  \/ Babble
  \/ Close
  \/ Say("BEGIN_EXEC", {"END_EXEC"})
  \/ Say("BEGIN_BREAK", {"BEGIN_EXEC", "END_BREAK"})
  \/ Say("PAUSED", {"BEGIN_BREAK"})
  \/ Reply("REPLY")
  \/ Reply("LEAVE")
  \/ Say("END_BREAK", {"BEGIN_BREAK", "LEAVE"})
  \/ /\ ~open \/ (~orderly /\ replied = asked)
     /\ Say("END_BREAK", {"PAUSED", "REPLY"})
  \/ Say("END_EXEC", {"BEGIN_EXEC", "END_BREAK"})

Spec == Init /\ [][Next]_vars
=============================================================================
