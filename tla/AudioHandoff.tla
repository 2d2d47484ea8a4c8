---------------------------- MODULE AudioHandoff ----------------------------
(***************************************************************************)
(* The audio path of the graphical emulator (src/src/gui.c): the main      *)
(* thread, which runs the uxn vectors and stages notes in one of two       *)
(* buffers, and the thread of sokol_audio, which takes a submitted buffer  *)
(* through one atomic pointer, plays the notes (src/src/devices/audio.c)   *)
(* and counts the ones that ended.                                         *)
(*                                                                         *)
(* A note is the number it has among the notes sent to its device: the     *)
(* model tells apart which note is where and whether it can end, never its *)
(* pitch, samples or envelope.  Every access to memory both threads reach  *)
(* is a step of its own, and one that is not atomic in the code (the copy  *)
(* of a message, the memset, the merge of a submission) is a place the     *)
(* thread stays at, so that a data race is a state of the model.           *)
(***************************************************************************)
EXTENDS Integers

CONSTANTS
  NumDevices, \* BUXN_NUM_AUDIO_DEVICES
  NULL,       \* the null pointer
  MaxSends    \* bound of the model: how many notes are sent to each device

ASSUME NumDevicesAssumption == NumDevices \in Nat \ {0}
ASSUME NullAssumption == NULL \notin {"a", "b"}

Devices == 0 .. NumDevices - 1

ASSUME MaxSendsAssumption == MaxSends \in [Devices -> Nat]

Buffers == {"a", "b"}              \* audio_submission_buffer_a and _b
Other(b) == IF b = "a" THEN "b" ELSE "a"
NoNote == 0                        \* a zeroed message: its device is NULL

VARIABLES
  \* Memory both threads reach.
  buffer,        \* what each submission buffer holds for each device
  incoming,      \* incoming_audio_ptr, atomic
  finished,      \* audio_finished_count, atomic
  advance,       \* whether the device's advance is not zero
  expired,       \* whether the device's age is past its envelope's release
  \* The main thread: where it is, where its call returns to, the device the
  \* call is about; outgoing_audio_ptr, should_submit_audio; the loop of
  \* frame(): i, num_finished and audio_finished_ack.
  mpc, caller, target, outgoing, shouldSubmit, mi, loaded, ack,
  \* The audio thread: where it is, incoming_audio, i, and whether the device
  \* it renders still plays.
  apc, taken, ai, playing,
  \* History, per device: the last note sent, the last one the audio thread
  \* received, the finished count its vector was last run for, whether the
  \* last note received has yet to be reported as finished, and whether a
  \* read of the VU port stopped it.
  sent, received, notified, open, silenced

shared  == <<buffer, incoming, finished, advance, expired>>
staging == <<outgoing, shouldSubmit>>
frameLoop == <<mi, loaded, ack>>
main    == <<mpc, caller, target, staging, frameLoop>>
audio   == <<apc, taken, ai, playing>>
history == <<sent, received, notified, open, silenced>>
vars == <<shared, main, audio, history>>

(***************************************************************************)
(* Places of the main thread, which sokol_app calls back:                  *)
(*   "loop"     between two callbacks                                      *)
(*   "boot"     load_boot_rom() runs the reset vector, in init()           *)
(*   "handler"  event() runs the vectors of the event                      *)
(*   "input"    frame() runs the vectors of the debugger and the console   *)
(*   "notify"   frame() looks for devices whose note ended                 *)
(*   "finish"   the vector of such a device                                *)
(*   "screen"   the screen vector                                          *)
(*   "submit", "swap", "clear"   try_submit_audio()                        *)
(*   "send"     buxn_audio_send() copies a message                         *)
(*   "vu"       buxn_audio_envelope(), called to read the VU port, is      *)
(*              about to zero the device's advance                         *)
(***************************************************************************)
VectorPlaces == {"boot", "handler", "input", "finish", "screen"}
MainPlaces == VectorPlaces \union
  {"loop", "notify", "submit", "swap", "clear", "send", "vu"}
AudioPlaces == {"wait", "merge", "release", "render", "play", "count"}

Call(place) == mpc' = place /\ caller' = mpc
Return == mpc' = caller /\ caller' = "loop"
GoTo(place) == mpc' = place /\ UNCHANGED caller

Init ==
  /\ buffer = [b \in Buffers |-> [d \in Devices |-> NoNote]]
  /\ incoming = NULL
  /\ finished = [d \in Devices |-> 0]
  /\ advance = [d \in Devices |-> FALSE]
  /\ expired = [d \in Devices |-> FALSE]
  /\ mpc = "boot" /\ caller = "loop" /\ target = 0
  /\ outgoing = "a" /\ shouldSubmit = FALSE
  /\ mi = 0 /\ loaded = 0
  /\ ack = [d \in Devices |-> 0]
  /\ apc = "wait" /\ taken = NULL /\ ai = 0 /\ playing = FALSE
  /\ sent = [d \in Devices |-> 0]
  /\ received = [d \in Devices |-> 0]
  /\ notified = [d \in Devices |-> 0]
  /\ open = [d \in Devices |-> FALSE]
  /\ silenced = [d \in Devices |-> FALSE]

-----------------------------------------------------------------------------
(***************************************************************************)
(* Slips: actions as a plausible mistake would leave them.  No action of   *)
(* the specification uses them; each breaks a property stated below, which *)
(* shows that the property depends on the code the slip alters.            *)
(***************************************************************************)

\* A send that does not ask for a submission.
SlipSendSubmits ==
  /\ mpc = "send"
  /\ sent' = [sent EXCEPT ![target] = @ + 1]
  /\ buffer' = [buffer EXCEPT ![outgoing][target] = sent[target] + 1]
  /\ target' = 0
  /\ Return
  /\ UNCHANGED <<incoming, finished, advance, expired, staging, frameLoop,
                 audio, received, notified, open, silenced>>

\* A failed submission that is not retried.
SlipSubmitRetries ==
  /\ mpc = "submit"
  /\ IF incoming = NULL
     THEN /\ incoming' = outgoing
          /\ GoTo("swap")
          /\ UNCHANGED shouldSubmit
     ELSE /\ shouldSubmit' = FALSE
          /\ Return
          /\ UNCHANGED incoming
  /\ UNCHANGED <<buffer, finished, advance, expired, target, outgoing,
                 frameLoop, audio, history>>

\* A submission after which the main thread stages in the same buffer.
SlipSwapBuffers ==
  /\ mpc = "swap"
  /\ GoTo("clear")
  /\ UNCHANGED <<shared, target, staging, frameLoop, audio, history>>

\* A buffer that comes back with the notes it carried.
SlipClearBuffer ==
  /\ mpc = "clear"
  /\ shouldSubmit' = FALSE
  /\ Return
  /\ UNCHANGED <<shared, target, outgoing, frameLoop, audio, history>>

\* The count as it is after the vector acknowledged, not the one it ran for.
SlipAckLoaded ==
  /\ mpc = "finish"
  /\ ack' = [ack EXCEPT ![mi] = finished[mi]]
  /\ mi' = mi + 1
  /\ loaded' = 0
  /\ GoTo("notify")
  /\ UNCHANGED <<shared, target, staging, audio, history>>

\* The polled pointer used without a test for NULL.
SlipPollTests ==
  /\ apc = "wait"
  /\ taken' = incoming
  /\ apc' = "merge"
  /\ UNCHANGED <<shared, main, ai, playing, history>>

\* A stopped device rendered as if it played.
SlipRenderStopped ==
  /\ apc = "render"
  /\ ai < NumDevices
  /\ apc' = "play"
  /\ playing' = TRUE
  /\ UNCHANGED <<shared, main, taken, ai, history>>

\* The state of a device taken before its samples are rendered.
SlipEndRenderState ==
  /\ apc = "play"
  /\ apc' = "render"
  /\ ai' = ai + 1
  /\ playing' = FALSE
  /\ UNCHANGED <<shared, main, taken, history>>

-----------------------------------------------------------------------------
(***************************************************************************)
(* The main thread: what a running vector does.                            *)
(***************************************************************************)

\* It writes the pitch port of a device: buxn_audio_send() starts to copy a
\* message into the staging buffer ...
BeginSend(d) ==
  /\ mpc \in VectorPlaces
  /\ sent[d] < MaxSends[d]
  /\ Call("send")
  /\ target' = d
  /\ UNCHANGED <<shared, staging, frameLoop, audio, history>>

\* ... and ends.
EndSend ==
  /\ mpc = "send"
  /\ sent' = [sent EXCEPT ![target] = @ + 1]
  /\ buffer' = [buffer EXCEPT ![outgoing][target] = sent[target] + 1]
  /\ shouldSubmit' = TRUE
  /\ target' = 0
  /\ Return
  /\ UNCHANGED <<incoming, finished, advance, expired, outgoing, frameLoop,
                 audio, received, notified, open, silenced>>

\* It reads the VU port: buxn_audio_get_vu() sees a device that plays and is
\* past the release of its envelope ...
BeginReadVU(d) ==
  /\ mpc \in VectorPlaces
  /\ advance[d]
  /\ expired[d]
  /\ Call("vu")
  /\ target' = d
  /\ UNCHANGED <<shared, staging, frameLoop, audio, history>>

\* ... and buxn_audio_envelope() zeroes the device's advance.
EndReadVU ==
  /\ mpc = "vu"
  /\ advance' = [advance EXCEPT ![target] = FALSE]
  /\ silenced' = [silenced EXCEPT ![target] = @ \/ advance[target]]
  /\ target' = 0
  /\ Return
  /\ UNCHANGED <<buffer, incoming, finished, expired, staging, frameLoop,
                 audio, sent, received, notified, open>>

-----------------------------------------------------------------------------
(***************************************************************************)
(* The main thread: the callbacks of sokol_app and try_submit_audio().     *)
(***************************************************************************)

\* init() after the boot rom, and frame() after the screen vector, return
\* without a submission.
EndBootOrScreen ==
  /\ mpc \in {"boot", "screen"}
  /\ GoTo("loop")
  /\ UNCHANGED <<shared, target, staging, frameLoop, audio, history>>

BeginEvent ==
  /\ mpc = "loop"
  /\ GoTo("handler")
  /\ UNCHANGED <<shared, target, staging, frameLoop, audio, history>>

EndHandler ==
  /\ mpc = "handler"
  /\ mpc' = IF shouldSubmit THEN "submit" ELSE "loop"
  /\ UNCHANGED <<shared, caller, target, staging, frameLoop, audio, history>>

BeginFrame ==
  /\ mpc = "loop"
  /\ GoTo("input")
  /\ UNCHANGED <<shared, target, staging, frameLoop, audio, history>>

EndInput ==
  /\ mpc = "input"
  /\ mpc' = IF shouldSubmit THEN "submit" ELSE "notify"
  /\ caller' = IF shouldSubmit THEN "notify" ELSE "loop"
  /\ UNCHANGED <<shared, target, staging, frameLoop, audio, history>>

\* try_submit_audio(): compare and swap NULL for the staging buffer ...
Submit ==
  /\ mpc = "submit"
  /\ IF incoming = NULL
     THEN /\ incoming' = outgoing
          /\ GoTo("swap")
          /\ UNCHANGED shouldSubmit
     ELSE /\ shouldSubmit' = TRUE
          /\ Return
          /\ UNCHANGED incoming
  /\ UNCHANGED <<buffer, finished, advance, expired, target, outgoing,
                 frameLoop, audio, history>>

\* ... stage in the other buffer from now on ...
Swap ==
  /\ mpc = "swap"
  /\ outgoing' = Other(outgoing)
  /\ GoTo("clear")
  /\ UNCHANGED <<shared, target, shouldSubmit, frameLoop, audio, history>>

\* ... and clear it of the notes it carried before.
Clear ==
  /\ mpc = "clear"
  /\ buffer' = [buffer EXCEPT ![outgoing] = [d \in Devices |-> NoNote]]
  /\ shouldSubmit' = FALSE
  /\ Return
  /\ UNCHANGED <<incoming, finished, advance, expired, target, outgoing,
                 frameLoop, audio, history>>

\* frame() loads the finished count of the next device: when it is not the
\* value acknowledged last, the device's vector runs ...
CheckFinished ==
  /\ mpc = "notify"
  /\ mi < NumDevices
  /\ IF finished[mi] # ack[mi]
     THEN /\ GoTo("finish")
          /\ loaded' = finished[mi]
          /\ notified' = [notified EXCEPT ![mi] = finished[mi]]
          /\ UNCHANGED mi
     ELSE /\ mi' = mi + 1
          /\ UNCHANGED <<mpc, caller, loaded, notified>>
  /\ UNCHANGED <<shared, target, staging, ack, audio, sent, received, open,
                 silenced>>

\* ... and the count it ran for is acknowledged.
EndFinish ==
  /\ mpc = "finish"
  /\ ack' = [ack EXCEPT ![mi] = loaded]
  /\ mi' = mi + 1
  /\ loaded' = 0
  /\ GoTo("notify")
  /\ UNCHANGED <<shared, target, staging, audio, history>>

EndNotify ==
  /\ mpc = "notify"
  /\ mi = NumDevices
  /\ mi' = 0
  /\ GoTo("screen")
  /\ UNCHANGED <<shared, target, staging, loaded, ack, audio, history>>

-----------------------------------------------------------------------------
(***************************************************************************)
(* The audio thread: one call of audio_callback() after the other.         *)
(***************************************************************************)

\* It polls the pointer.
Poll ==
  /\ apc = "wait"
  /\ taken' = incoming
  /\ apc' = IF incoming = NULL THEN "render" ELSE "merge"
  /\ UNCHANGED <<shared, main, ai, playing, history>>

\* The next message is for no device: it is skipped.
SkipMessage ==
  /\ apc = "merge"
  /\ ai < NumDevices
  /\ buffer[taken][ai] = NoNote
  /\ ai' = ai + 1
  /\ UNCHANGED <<shared, main, apc, taken, playing, history>>

\* buxn_audio_receive(): a note that plays resets the age of the device; one
\* that cannot (no length, or a pitch past the last) zeroes its advance.
Receive(plays) ==
  /\ apc = "merge"
  /\ ai < NumDevices
  /\ buffer[taken][ai] # NoNote
  /\ received' = [received EXCEPT ![ai] = buffer[taken][ai]]
  /\ advance' = [advance EXCEPT ![ai] = plays]
  /\ expired' = [expired EXCEPT ![ai] = @ /\ ~plays]
  /\ open' = [open EXCEPT ![ai] = plays]
  /\ silenced' = [silenced EXCEPT ![ai] = FALSE]
  /\ ai' = ai + 1
  /\ UNCHANGED <<buffer, incoming, finished, main, apc, taken, playing, sent,
                 notified>>

EndMerge ==
  /\ apc = "merge"
  /\ ai = NumDevices
  /\ apc' = "release"
  /\ ai' = 0
  /\ UNCHANGED <<shared, main, taken, playing, history>>

\* The buffer is given back.
Release ==
  /\ apc = "release"
  /\ incoming' = NULL
  /\ taken' = NULL
  /\ apc' = "render"
  /\ UNCHANGED <<buffer, finished, advance, expired, main, ai, playing, history>>

\* buxn_audio_render() of the next device: nothing to do when it is stopped.
BeginRender ==
  /\ apc = "render"
  /\ ai < NumDevices
  /\ IF advance[ai]
     THEN apc' = "play" /\ playing' = TRUE /\ UNCHANGED ai
     ELSE ai' = ai + 1 /\ UNCHANGED <<apc, playing>>
  /\ UNCHANGED <<shared, main, taken, history>>

\* The age of the device goes past the release of its envelope.
Age ==
  /\ apc = "play"
  /\ playing
  /\ ~expired[ai]
  /\ expired' = [expired EXCEPT ![ai] = TRUE]
  /\ UNCHANGED <<buffer, incoming, finished, advance, main, audio, history>>

\* The sample ends and is not repeated, or the envelope of a sample taken
\* past the release zeroes the advance.
EndNote ==
  /\ apc = "play"
  /\ playing
  /\ playing' = FALSE
  /\ advance' = [advance EXCEPT ![ai] = FALSE]
  /\ UNCHANGED <<buffer, incoming, finished, expired, main, apc, taken, ai,
                 history>>

\* The stream is full.  FINISHED when the advance is zero: an advance that a
\* VU read zeroed meanwhile may or may not be seen, the accesses race.
EndRender ==
  /\ apc = "play"
  /\ \/ ~advance[ai] /\ apc' = "count" /\ UNCHANGED ai
     \/ playing /\ apc' = "render" /\ ai' = ai + 1
  /\ playing' = FALSE
  /\ UNCHANGED <<shared, main, taken, history>>

Count ==
  /\ apc = "count"
  /\ finished' = [finished EXCEPT ![ai] = @ + 1]
  /\ open' = [open EXCEPT ![ai] = FALSE]
  /\ apc' = "render"
  /\ ai' = ai + 1
  /\ UNCHANGED <<buffer, incoming, advance, expired, main, taken, playing,
                 sent, received, notified, silenced>>

EndCallback ==
  /\ apc = "render"
  /\ ai = NumDevices
  /\ apc' = "wait"
  /\ ai' = 0
  /\ UNCHANGED <<shared, main, taken, playing, history>>

-----------------------------------------------------------------------------
MainWorks ==     \* what the main thread does of itself, once called
  \/ EndSend \/ EndReadVU
  \/ EndBootOrScreen \/ EndHandler \/ EndInput
  \/ Submit \/ Swap \/ Clear
  \/ CheckFinished \/ EndFinish \/ EndNotify

AudioWorks ==
  \/ Poll \/ SkipMessage \/ EndMerge \/ Release
  \/ \E plays \in BOOLEAN : Receive(plays)
  \/ BeginRender \/ Age \/ EndNote \/ EndRender \/ Count \/ EndCallback

Next ==
  \/ \E d \in Devices : BeginSend(d) \/ BeginReadVU(d)
  \/ BeginEvent \/ BeginFrame
  \/ MainWorks
  \/ AudioWorks

Spec == Init /\ [][Next]_vars

\* sokol_app calls frame() again and again whatever events come between, and
\* sokol_audio its callback; vectors end, since the notes they send are
\* bounded and a VU read stops the device it is about.
Fairness ==
  /\ SF_vars(BeginFrame)
  /\ WF_vars(MainWorks)
  /\ WF_vars(AudioWorks)

FairSpec == Spec /\ Fairness
-----------------------------------------------------------------------------
(***************************************************************************)
(* Properties.                                                             *)
(***************************************************************************)

\* Every variable has its type.
TypeOK ==
  /\ buffer \in [Buffers -> [Devices -> Nat]]
  /\ incoming \in Buffers \union {NULL}
  /\ finished \in [Devices -> Nat]
  /\ advance \in [Devices -> BOOLEAN]
  /\ expired \in [Devices -> BOOLEAN]
  /\ mpc \in MainPlaces
  /\ caller \in VectorPlaces \union {"loop", "notify"}
  /\ target \in Devices
  /\ outgoing \in Buffers
  /\ shouldSubmit \in BOOLEAN
  /\ mi \in 0 .. NumDevices
  /\ mpc = "finish" \/ caller = "finish" => mi \in Devices
  /\ caller = "finish" => mpc \in {"send", "vu"}
  /\ loaded \in Nat
  /\ ack \in [Devices -> Nat]
  /\ apc \in AudioPlaces
  /\ taken \in Buffers \union {NULL}
  /\ apc \in {"merge", "release"} => taken # NULL
  /\ ai \in 0 .. NumDevices
  /\ apc \in {"play", "count"} => ai \in Devices
  /\ playing \in BOOLEAN
  /\ sent \in [Devices -> Nat]
  /\ received \in [Devices -> Nat]
  /\ notified \in [Devices -> Nat]
  /\ open \in [Devices -> BOOLEAN]
  /\ silenced \in [Devices -> BOOLEAN]

\* The buffer the main thread writes a message to, or clears, is never the
\* buffer the audio thread reads: the two need no lock.
NoDataRace ==
  ~(/\ mpc \in {"send", "clear"}
    /\ apc = "merge"
    /\ taken = outgoing)

\* Whoever holds note n in a submission the audio thread has not merged yet:
\* the note is newer than all the device received.  A buffer that came back
\* with an old note would play it a second time, or after a newer one.
NeverAgain ==
  \A d \in Devices :
     /\ apc = "merge"
     /\ d >= ai
     /\ buffer[taken][d] # NoNote
     => buffer[taken][d] > received[d]

\* The last note sent to a device was received, or waits in the submitted
\* buffer, or in the staging buffer with a submission due.
NothingLost ==
  \A d \in Devices :
     \/ sent[d] = received[d]
     \/ incoming # NULL /\ buffer[incoming][d] = sent[d]
     \/ /\ buffer[outgoing][d] = sent[d]
        /\ shouldSubmit

\* A device reports at most one end for each note it received, and none while
\* the last one plays: a ROM that chains notes does not run ahead.
EndsCountedOnce ==
  \A d \in Devices :
     finished[d] + (IF advance[d] \/ (ai = d /\ apc = "count") THEN 1 ELSE 0)
       <= received[d]

\* The end of a note that no newer note replaced is counted; the one way to
\* lose it is a read of the VU port that stopped the note before the audio
\* thread did.
EndsCounted ==
  \A d \in Devices :
     open[d] /\ ~silenced[d] =>
        advance[d] \/ (ai = d /\ apc \in {"play", "count"})

\* Every end is followed by a run of the device's vector, whenever it comes:
\* while the vector runs for an earlier end, too.
EndsNotified ==
  \A d \in Devices : \A n \in 1 .. MaxSends[d] :
     (finished[d] = n) ~> (notified[d] >= n)

\* To a ROM the two buffers and the pointer are one atomic mailbox.
Mailbox == INSTANCE AudioMailbox
IsMailbox == Mailbox!FairSpec

\* src/doc/devices.md says the main thread swaps its buffer in "when the
\* pointer is not NULL".
SwapsWhenNotNull == [][incoming' \notin {incoming, NULL} => incoming # NULL]_vars
=============================================================================
