---------------------------- MODULE AudioMailbox ----------------------------
(***************************************************************************)
(* What the audio path promises to a rom, as an atomic mailbox per audio   *)
(* device: notes are numbered in the order they are sent, the player takes *)
(* a note that was sent and is newer than the last one it took, may pass   *)
(* over older ones ("Omission" in src/doc/devices.md), and does not stop   *)
(* before it has taken the last.                                           *)
(***************************************************************************)
EXTENDS Integers

CONSTANT Devices

VARIABLES sent, received
vars == <<sent, received>>

Init ==
  /\ sent = [d \in Devices |-> 0]
  /\ received = [d \in Devices |-> 0]

Send(d) ==
  /\ sent' = [sent EXCEPT ![d] = @ + 1]
  /\ UNCHANGED received

Take(d) ==
  /\ \E note \in received[d] + 1 .. sent[d] :
        received' = [received EXCEPT ![d] = note]
  /\ UNCHANGED sent

Next == \E d \in Devices : Send(d) \/ Take(d)

Spec == Init /\ [][Next]_vars

FairSpec == Spec /\ \A d \in Devices : WF_vars(Take(d))
=============================================================================
