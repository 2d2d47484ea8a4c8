------------------------ MODULE AudioHandoff_proofs -------------------------
(***************************************************************************)
(* What AudioHandoff promises, for any number of devices and of notes.     *)
(*                                                                         *)
(* The argument: the submitted buffer is the main thread's until the       *)
(* compare and swap and the audio thread's from then to the release, and   *)
(* the buffer the main thread stages in is the other one but for the       *)
(* instant between the swap of the pointer and that of the buffers         *)
(* (Handoff).  So what a buffer holds changes only in the hands of its     *)
(* owner, and notes stay in the order received < submitted < staged = sent *)
(* (Contents), the device's end of the order being moved by the merge.     *)
(***************************************************************************)
EXTENDS AudioHandoff, TLAPS

\* Who owns which buffer.
Handoff ==
  /\ apc \in {"merge", "release"} => incoming = taken
  /\ mpc = "swap" => incoming \in {outgoing, NULL}
  /\ mpc # "swap" => incoming # outgoing
  /\ apc \in {"wait", "release"} => ai = 0

\* The audio thread has merged the message the submission has for d.
Merged(d) == (apc = "merge" /\ d < ai) \/ apc = "release"

\* The main thread is not between two buffers.
Staging == mpc \notin {"swap", "clear"}

\* A submitted note was sent, and is new to its device until it is merged.
Submitted(d) ==
  incoming # NULL =>
    /\ buffer[incoming][d] <= sent[d]
    /\ buffer[incoming][d] # NoNote =>
         IF Merged(d) THEN received[d] = buffer[incoming][d]
                      ELSE received[d] < buffer[incoming][d]

\* A staged note is the last one sent, newer than what was submitted.
Staged(d) ==
  Staging /\ buffer[outgoing][d] # NoNote =>
    /\ buffer[outgoing][d] = sent[d]
    /\ received[d] < sent[d]
    /\ incoming # NULL => buffer[incoming][d] < sent[d]

\* The last note sent is somewhere on its way.
Kept(d) ==
  \/ sent[d] = received[d]
  \/ incoming # NULL /\ buffer[incoming][d] = sent[d]
  \/ Staging /\ buffer[outgoing][d] = sent[d] /\ shouldSubmit

Contents ==
  \A d \in Devices : received[d] <= sent[d] /\ Submitted(d) /\ Staged(d) /\ Kept(d)

\* A device that plays, or whose end is being counted, received a note no end
\* was counted for.
Rendering(d) == ai = d /\ apc \in {"play", "count"}

Ends ==
  \A d \in Devices :
     /\ finished[d] <= received[d]
     /\ advance[d] \/ Rendering(d) => finished[d] < received[d]
     /\ open[d] /\ ~silenced[d] => advance[d] \/ Rendering(d)
     /\ Rendering(d) /\ playing /\ ~silenced[d] => advance[d]
     /\ ai = d /\ apc = "count" => ~advance[d]

IInv == TypeOK /\ Handoff /\ Contents /\ Ends
-----------------------------------------------------------------------------
(***************************************************************************)
(* Types.                                                                  *)
(***************************************************************************)

\* The devices are the numbers the loops of both threads run through.
LEMMA DeviceFacts ==
  /\ 0 \in Devices
  /\ 0 \in 0 .. NumDevices
  /\ \A d \in Devices : d \in 0 .. NumDevices
  /\ \A i \in 0 .. NumDevices : i < NumDevices => i \in Devices /\ i + 1 \in 0 .. NumDevices
  /\ \A i \in Devices : i < NumDevices /\ i + 1 \in 0 .. NumDevices
  /\ \A i \in Devices : i \in Int
  BY NumDevicesAssumption DEF Devices

\* There are two buffers, and neither is the null pointer.
LEMMA BufferFacts ==
  /\ NULL \notin Buffers
  /\ \A b \in Buffers : Other(b) \in Buffers /\ Other(b) # b
  BY NullAssumption DEF Buffers, Other

\* The initial state has the types of TypeOK.
LEMMA TypeInit == Init => TypeOK
  <1> SUFFICES ASSUME Init PROVE TypeOK
    OBVIOUS
  <1>1. buffer \in [Buffers -> [Devices -> Nat]]
    BY DEF Init, NoNote
  <1>2. /\ advance \in [Devices -> BOOLEAN] /\ expired \in [Devices -> BOOLEAN]
        /\ open \in [Devices -> BOOLEAN] /\ silenced \in [Devices -> BOOLEAN]
    BY Zenon DEF Init
  <1>3. QED
    BY <1>1, <1>2, DeviceFacts DEF Init, TypeOK, Buffers, MainPlaces, VectorPlaces, AudioPlaces

\* A step of the main thread keeps the types.
LEMMA TypeMain ==
  ASSUME TypeOK,
         \/ \E d \in Devices : BeginSend(d) \/ BeginReadVU(d)
         \/ BeginEvent \/ BeginFrame \/ MainWorks
  PROVE  TypeOK'
  <1> USE DEF TypeOK, MainPlaces, VectorPlaces,
              shared, staging, frameLoop, main, audio, history, Call, Return, GoTo
  <1>1. CASE \E d \in Devices : BeginSend(d)
    BY <1>1 DEF BeginSend
  <1>2. CASE \E d \in Devices : BeginReadVU(d)
    BY <1>2 DEF BeginReadVU
  <1>3. CASE EndSend
    <2>1. sent[target] + 1 \in Nat
      BY <1>3
    <2>2. sent' \in [Devices -> Nat]
      BY <1>3, <2>1 DEF EndSend
    <2>3. [buffer[outgoing] EXCEPT ![target] = sent[target] + 1] \in [Devices -> Nat]
      BY <1>3, <2>1
    <2>4. buffer' \in [Buffers -> [Devices -> Nat]]
      BY <1>3, <2>3 DEF EndSend
    <2>5. QED
      BY <1>3, <2>2, <2>4, DeviceFacts DEF EndSend
  <1>4. CASE EndReadVU
    <2>1. advance' \in [Devices -> BOOLEAN]
      BY <1>4 DEF EndReadVU
    <2>2. silenced' \in [Devices -> BOOLEAN]
      BY <1>4 DEF EndReadVU
    <2>3. QED
      BY <1>4, <2>1, <2>2, DeviceFacts DEF EndReadVU
  <1>5. CASE EndBootOrScreen
    BY <1>5 DEF EndBootOrScreen
  <1>6. CASE EndHandler
    BY <1>6 DEF EndHandler
  <1>7. CASE EndInput
    BY <1>7 DEF EndInput
  <1>8. CASE Submit
    <2>1. CASE incoming = NULL
      BY <1>8, <2>1 DEF Submit
    <2>2. CASE incoming # NULL
      BY <1>8, <2>2 DEF Submit
    <2>3. QED
      BY <2>1, <2>2
  <1>9. CASE Swap
    BY <1>9, BufferFacts DEF Swap
  <1>10. CASE Clear
    <2>1. [d \in Devices |-> NoNote] \in [Devices -> Nat]
      BY DEF NoNote
    <2>2. buffer' \in [Buffers -> [Devices -> Nat]]
      BY <1>10, <2>1 DEF Clear
    <2>3. QED
      BY <1>10, <2>2 DEF Clear
  <1>11. CASE CheckFinished
    BY <1>11, DeviceFacts DEF CheckFinished
  <1>12. CASE EndFinish
    BY <1>12, DeviceFacts DEF EndFinish
  <1>13. CASE EndNotify
    BY <1>13, DeviceFacts DEF EndNotify
  <1>14. CASE BeginEvent
    BY <1>14 DEF BeginEvent
  <1>15. CASE BeginFrame
    BY <1>15 DEF BeginFrame
  <1>16. QED
    BY <1>1, <1>2, <1>3, <1>4, <1>5, <1>6, <1>7, <1>8, <1>9, <1>10, <1>11, <1>12,
       <1>13, <1>14, <1>15 DEF MainWorks

\* A step of the audio thread keeps the types.
LEMMA TypeAudio ==
  ASSUME TypeOK, AudioWorks
  PROVE  TypeOK'
  <1> USE DEF TypeOK, AudioPlaces, shared, staging, frameLoop, main, audio, history
  <1>1. ASSUME NEW plays \in BOOLEAN, Receive(plays)
        PROVE  TypeOK'
    BY <1>1, DeviceFacts DEF Receive
  <1>2. CASE Poll
    BY <1>2 DEF Poll
  <1>3. CASE SkipMessage
    BY <1>3, DeviceFacts DEF SkipMessage
  <1>4. CASE EndMerge
    BY <1>4, DeviceFacts DEF EndMerge
  <1>5. CASE Release
    BY <1>5 DEF Release
  <1>6. CASE BeginRender
    BY <1>6, DeviceFacts DEF BeginRender
  <1>7. CASE Age
    BY <1>7 DEF Age
  <1>8. CASE EndNote
    BY <1>8 DEF EndNote
  <1>9. CASE EndRender
    BY <1>9, DeviceFacts DEF EndRender
  <1>10. CASE Count
    BY <1>10, DeviceFacts DEF Count
  <1>11. CASE EndCallback
    BY <1>11, DeviceFacts DEF EndCallback
  <1>12. QED
    BY <1>1, <1>2, <1>3, <1>4, <1>5, <1>6, <1>7, <1>8, <1>9, <1>10, <1>11 DEF AudioWorks

\* A step is a step of one of the threads, or changes nothing.
LEMMA Threads ==
  ASSUME [Next]_vars
  PROVE  \/ \E d \in Devices : BeginSend(d) \/ BeginReadVU(d)
         \/ BeginEvent \/ BeginFrame \/ MainWorks
         \/ AudioWorks
         \/ UNCHANGED vars
  BY DEF Next

\* No step takes a variable out of its type.
LEMMA TypeStep ==
  ASSUME TypeOK, [Next]_vars
  PROVE  TypeOK'
  <1>1. CASE UNCHANGED vars
    BY <1>1 DEF vars, TypeOK, shared, staging, frameLoop, main, audio, history
  <1>2. QED
    BY <1>1, Threads, TypeMain, TypeAudio

\* Every variable has its type in every state.
THEOREM TypeCorrect == Spec => []TypeOK
  BY TypeInit, TypeStep, PTL DEF Spec
-----------------------------------------------------------------------------
(***************************************************************************)
(* The steps of the main thread that leave the notes where they are, and   *)
(* those of the audio thread that play them.                               *)
(***************************************************************************)
Aside ==
  \/ \E d \in Devices : BeginSend(d) \/ BeginReadVU(d)
  \/ BeginEvent \/ BeginFrame \/ EndReadVU \/ EndBootOrScreen \/ EndHandler
  \/ EndInput \/ CheckFinished \/ EndFinish \/ EndNotify

Plays == BeginRender \/ Age \/ EndNote \/ EndRender \/ Count \/ EndCallback

\* Such a step of the main thread neither starts nor ends a submission.
LEMMA AsideSteps ==
  ASSUME TypeOK, Aside
  PROVE  /\ UNCHANGED <<buffer, incoming, finished, staging, audio, sent, received, open>>
         /\ Staging /\ Staging'
         /\ EndReadVU \/ UNCHANGED <<advance, silenced>>
  <1> USE DEF TypeOK, VectorPlaces, Staging, shared, staging, frameLoop, main, audio,
              history, Call, Return, GoTo
  <1>1. CASE \E d \in Devices : BeginSend(d) \/ BeginReadVU(d)
    BY <1>1 DEF BeginSend, BeginReadVU
  <1>2. CASE BeginEvent \/ BeginFrame \/ EndBootOrScreen
    BY <1>2 DEF BeginEvent, BeginFrame, EndBootOrScreen
  <1>3. CASE EndReadVU
    BY <1>3 DEF EndReadVU
  <1>4. CASE EndHandler \/ EndInput
    BY <1>4 DEF EndHandler, EndInput
  <1>5. CASE CheckFinished
    BY <1>5 DEF CheckFinished
  <1>6. CASE EndFinish \/ EndNotify
    BY <1>6 DEF EndFinish, EndNotify
  <1>7. QED
    BY <1>1, <1>2, <1>3, <1>4, <1>5, <1>6 DEF Aside

\* A step that plays leaves the submission alone, and is not taken during a merge.
LEMMA PlaysSteps ==
  ASSUME Plays
  PROVE  /\ UNCHANGED <<buffer, incoming, main, taken, sent, received, silenced>>
         /\ apc \notin {"wait", "merge", "release"}
         /\ apc' \notin {"merge", "release"}
         /\ apc' = "wait" => ai' = 0
  BY DEF Plays, BeginRender, Age, EndNote, EndRender, Count, EndCallback,
         audio, history, shared

\* The kinds of steps the lemmas below distinguish.
LEMMA Steps ==
  ASSUME [Next]_vars
  PROVE  \/ Aside \/ EndSend \/ Submit \/ Swap \/ Clear
         \/ Poll \/ SkipMessage \/ EndMerge \/ Release
         \/ \E plays \in BOOLEAN : Receive(plays)
         \/ Plays
         \/ UNCHANGED vars
  BY DEF Next, MainWorks, AudioWorks, Aside, Plays
-----------------------------------------------------------------------------
(***************************************************************************)
(* Who owns which buffer.                                                  *)
(***************************************************************************)

\* The first buffer staged in is not submitted.
LEMMA HandoffInit == Init => Handoff
  BY NullAssumption DEF Init, Handoff

\* The pointer and the two ends change hands together.
LEMMA HandoffStep ==
  ASSUME TypeOK, Handoff, [Next]_vars
  PROVE  Handoff'
  <1> USE DEF Handoff
  <1>1. CASE Aside
    BY <1>1, AsideSteps DEF Staging, audio, staging
  <1>2. CASE EndSend
    BY <1>2 DEF EndSend, TypeOK, VectorPlaces, Return, audio, staging
  <1>3. CASE Submit
    <2>1. CASE incoming = NULL
      BY <1>3, <2>1 DEF Submit, TypeOK, GoTo, audio
    <2>2. CASE incoming # NULL
      BY <1>3, <2>2 DEF Submit, TypeOK, VectorPlaces, Return, audio
    <2>3. QED
      BY <2>1, <2>2
  <1>4. CASE Swap
    BY <1>4, BufferFacts DEF Swap, TypeOK, GoTo, shared, audio
  <1>5. CASE Clear
    BY <1>5 DEF Clear, TypeOK, VectorPlaces, Return, audio
  <1>6. CASE Poll \/ SkipMessage \/ EndMerge
    BY <1>6 DEF Poll, SkipMessage, EndMerge, shared, main, staging
  <1>7. CASE Release
    BY <1>7, BufferFacts DEF Release, TypeOK, main, staging
  <1>8. ASSUME NEW plays \in BOOLEAN, Receive(plays)
        PROVE  Handoff'
    BY <1>8 DEF Receive, main, staging
  <1>9. CASE Plays
    BY <1>9, PlaysSteps DEF main, staging
  <1>10. CASE UNCHANGED vars
    BY <1>10 DEF vars, shared, main, staging, audio
  <1>11. QED
    BY <1>1, <1>2, <1>3, <1>4, <1>5, <1>6, <1>7, <1>8, <1>9, <1>10, Steps
-----------------------------------------------------------------------------
(***************************************************************************)
(* Which notes are where.                                                  *)
(***************************************************************************)

\* No note was sent.
LEMMA ContentsInit == Init => Contents
  BY DEF Init, Contents, Submitted, Staged, Kept, NoNote, Buffers

\* What the order of a device's notes is about, for the steps below.
LEMMA NoteTypes ==
  ASSUME TypeOK, NEW d \in Devices
  PROVE  /\ sent[d] \in Nat /\ received[d] \in Nat
         /\ \A b \in Buffers : buffer[b][d] \in Nat
         /\ outgoing \in Buffers
         /\ incoming # NULL => incoming \in Buffers
         /\ ai \in Int /\ d \in Int /\ 0 <= d /\ d < NumDevices
  <1>1. d \in Int /\ 0 <= d /\ d < NumDevices
    BY NumDevicesAssumption DEF Devices
  <1>2. ai \in Int
    BY NumDevicesAssumption DEF TypeOK
  <1>3. QED
    BY <1>1, <1>2 DEF TypeOK

\* A copied message is the last note of its device, in the staging buffer.
LEMMA ContentsEndSend ==
  ASSUME TypeOK, Handoff, Contents, EndSend
  PROVE  Contents'
  <1>1. /\ Staging /\ Staging' /\ shouldSubmit' = TRUE
        /\ UNCHANGED <<incoming, outgoing, received, apc, ai>>
        /\ incoming # outgoing
    BY DEF EndSend, TypeOK, Handoff, VectorPlaces, Staging, Return, audio
  <1> SUFFICES ASSUME NEW d \in Devices
               PROVE  (received[d] <= sent[d] /\ Submitted(d) /\ Staged(d) /\ Kept(d))'
    BY DEF Contents
  <1>2. \A b \in Buffers : b # outgoing => buffer'[b][d] = buffer[b][d]
    BY DEF EndSend, TypeOK
  <1>3. CASE d = target
    <2>1. sent'[d] = sent[d] + 1 /\ buffer'[outgoing][d] = sent[d] + 1
      BY <1>3 DEF EndSend, TypeOK
    <2>2. QED
      BY <1>1, <1>2, <2>1, NoteTypes DEF Contents, Submitted, Staged, Kept, Merged
  <1>4. CASE d # target
    <2>1. sent'[d] = sent[d] /\ buffer'[outgoing][d] = buffer[outgoing][d]
      BY <1>4 DEF EndSend, TypeOK
    <2>2. QED
      BY <1>1, <1>2, <2>1, NoteTypes DEF Contents, Submitted, Staged, Kept, Merged
  <1>5. QED
    BY <1>3, <1>4

\* A submission carries what was staged; one that fails changes nothing.
LEMMA ContentsSubmit ==
  ASSUME TypeOK, Handoff, Contents, Submit
  PROVE  Contents'
  <1>1. /\ Staging
        /\ UNCHANGED <<buffer, outgoing, sent, received, apc, ai>>
    BY DEF Submit, Staging, audio, history
  <1> SUFFICES ASSUME NEW d \in Devices
               PROVE  (received[d] <= sent[d] /\ Submitted(d) /\ Staged(d) /\ Kept(d))'
    BY DEF Contents
  <1>2. CASE incoming = NULL
    <2>1. incoming' = outgoing /\ ~Staging'
      BY <1>2 DEF Submit, Staging, GoTo
    <2>2. apc \notin {"merge", "release"}
      BY <1>2 DEF Handoff, TypeOK
    <2>3. outgoing # NULL
      BY BufferFacts DEF TypeOK
    <2>4. QED
      BY <1>1, <1>2, <2>1, <2>2, <2>3, NoteTypes
         DEF Contents, Submitted, Staged, Kept, Merged, NoNote
  <1>3. CASE incoming # NULL
    <2>1. incoming' = incoming /\ shouldSubmit' = TRUE /\ Staging'
      BY <1>3 DEF Submit, TypeOK, VectorPlaces, Staging, Return
    <2>2. QED
      BY <1>1, <2>1, NoteTypes DEF Contents, Submitted, Staged, Kept, Merged
  <1>4. QED
    BY <1>2, <1>3

\* Between two buffers nothing is staged, and the one to clear is not submitted.
LEMMA ContentsSwapClear ==
  ASSUME TypeOK, Handoff, Contents, Swap \/ Clear
  PROVE  Contents'
  <1> SUFFICES ASSUME NEW d \in Devices
               PROVE  (received[d] <= sent[d] /\ Submitted(d) /\ Staged(d) /\ Kept(d))'
    BY DEF Contents
  <1>1. CASE Swap
    <2>1. /\ UNCHANGED <<buffer, incoming, sent, received, apc, ai>>
          /\ ~Staging /\ ~Staging'
      BY <1>1 DEF Swap, Staging, GoTo, shared, audio, history
    <2>2. QED
      BY <2>1 DEF Contents, Submitted, Staged, Kept, Merged
  <1>2. CASE Clear
    <2>1. /\ UNCHANGED <<incoming, outgoing, sent, received, apc, ai>>
          /\ ~Staging
          /\ incoming # outgoing
      BY <1>2 DEF Clear, Handoff, Staging, audio, history
    <2>2. /\ \A b \in Buffers : b # outgoing => buffer'[b][d] = buffer[b][d]
          /\ buffer'[outgoing][d] = NoNote
      BY <1>2 DEF Clear, TypeOK
    <2>3. QED
      BY <2>1, <2>2, NoteTypes DEF Contents, Submitted, Staged, Kept, Merged
  <1>3. QED
    BY <1>1, <1>2

\* The loop of a merge: what it passed is received.
LEMMA ContentsMerge ==
  ASSUME TypeOK, Handoff, Contents,
         \/ Poll \/ SkipMessage \/ EndMerge
         \/ \E plays \in BOOLEAN : Receive(plays)
  PROVE  Contents'
  <1>1. UNCHANGED <<buffer, incoming, outgoing, shouldSubmit, mpc, sent>>
    BY DEF Poll, SkipMessage, EndMerge, Receive, shared, main, staging, history
  <1> SUFFICES ASSUME NEW d \in Devices
               PROVE  (received[d] <= sent[d] /\ Submitted(d) /\ Staged(d) /\ Kept(d))'
    BY DEF Contents
  <1>2. CASE Poll
    <2>1. received' = received /\ Merged(d)' = FALSE /\ Merged(d) = FALSE
      BY <1>2, NoteTypes DEF Poll, Handoff, Merged, history
    <2>2. QED
      BY <1>1, <2>1 DEF Contents, Submitted, Staged, Kept, Staging
  <1>3. CASE SkipMessage
    <2>1. /\ received' = received
          /\ buffer[incoming][ai] = NoNote
          /\ d # ai => (Merged(d)' <=> Merged(d))
      BY <1>3, NoteTypes DEF SkipMessage, Handoff, Merged, history
    <2>2. QED
      BY <1>1, <2>1, NoteTypes DEF Contents, Submitted, Staged, Kept, Staging
  <1>4. CASE EndMerge
    <2>1. received' = received /\ Merged(d)' /\ Merged(d)
      BY <1>4, NoteTypes DEF EndMerge, Merged, history
    <2>2. QED
      BY <1>1, <2>1 DEF Contents, Submitted, Staged, Kept, Staging
  <1>5. ASSUME NEW plays \in BOOLEAN, Receive(plays)
        PROVE  (received[d] <= sent[d] /\ Submitted(d) /\ Staged(d) /\ Kept(d))'
    <2>1. incoming = taken /\ incoming \in Buffers /\ incoming # NULL
      BY <1>5 DEF Receive, Handoff, TypeOK
    <2>2. CASE d = ai
      <3>1. received'[d] = buffer[incoming][d] /\ buffer[incoming][d] # NoNote
        BY <1>5, <2>1, <2>2 DEF Receive, TypeOK
      <3>2. Merged(d)' /\ ~Merged(d)
        BY <1>5, <2>2, NoteTypes DEF Receive, Merged
      <3>3. QED
        BY <1>1, <2>1, <3>1, <3>2, NoteTypes DEF Contents, Submitted, Staged, Kept, Staging
    <2>3. CASE d # ai
      <3>1. received'[d] = received[d]
        BY <1>5, <2>3 DEF Receive, TypeOK
      <3>2. Merged(d)' <=> Merged(d)
        BY <1>5, <2>3, NoteTypes DEF Receive, Merged
      <3>3. QED
        BY <1>1, <3>1, <3>2 DEF Contents, Submitted, Staged, Kept, Staging
    <2>4. QED
      BY <2>2, <2>3
  <1>6. QED
    BY <1>2, <1>3, <1>4, <1>5

\* A buffer given back held nothing that was not received.
LEMMA ContentsRelease ==
  ASSUME TypeOK, Handoff, Contents, Release
  PROVE  Contents'
  <1>1. /\ UNCHANGED <<buffer, outgoing, shouldSubmit, mpc, sent, received>>
        /\ incoming' = NULL
        /\ incoming = taken /\ incoming # NULL
    BY DEF Release, Handoff, TypeOK, main, staging, history
  <1> SUFFICES ASSUME NEW d \in Devices
               PROVE  (received[d] <= sent[d] /\ Submitted(d) /\ Staged(d) /\ Kept(d))'
    BY DEF Contents
  <1>2. Merged(d)
    BY DEF Release, Merged
  <1>3. QED
    BY <1>1, <1>2, NoteTypes DEF Contents, Submitted, Staged, Kept, Staging, NoNote

\* Every step keeps the order of the notes.
LEMMA ContentsStep ==
  ASSUME TypeOK, Handoff, Contents, [Next]_vars
  PROVE  Contents'
  <1>1. CASE Aside
    <2>1. /\ UNCHANGED <<buffer, incoming, outgoing, shouldSubmit, sent, received, apc, ai>>
          /\ Staging /\ Staging'
      BY <1>1, AsideSteps DEF staging, audio
    <2>2. QED
      BY <2>1 DEF Contents, Submitted, Staged, Kept, Merged
  <1>2. CASE Plays
    <2>1. /\ UNCHANGED <<buffer, incoming, outgoing, shouldSubmit, mpc, sent, received>>
          /\ \A d \in Devices : ~Merged(d) /\ ~Merged(d)'
      BY <1>2, PlaysSteps DEF main, staging, Merged
    <2>2. QED
      BY <2>1 DEF Contents, Submitted, Staged, Kept, Staging
  <1>3. CASE UNCHANGED vars
    BY <1>3 DEF vars, shared, main, staging, audio, history, Contents, Submitted, Staged,
                Kept, Merged, Staging
  <1>4. QED
    BY <1>1, <1>2, <1>3, Steps, ContentsEndSend, ContentsSubmit, ContentsSwapClear,
       ContentsMerge, ContentsRelease
-----------------------------------------------------------------------------
(***************************************************************************)
(* Which notes ended.                                                      *)
(***************************************************************************)

\* No note was received.
LEMMA EndsInit == Init => Ends
  BY DEF Init, Ends, Rendering

\* What the count of a device's ends is about, for the steps below.
LEMMA EndTypes ==
  ASSUME TypeOK, NEW d \in Devices
  PROVE  /\ finished[d] \in Nat /\ received[d] \in Nat
         /\ ai \in Int /\ d \in Int /\ 0 <= d /\ d < NumDevices
  BY NoteTypes DEF TypeOK

\* A note that is received is newer than those whose ends were counted.
LEMMA EndsReceive ==
  ASSUME TypeOK, Handoff, Contents, Ends, NEW plays \in BOOLEAN, Receive(plays)
  PROVE  Ends'
  <1> SUFFICES ASSUME NEW d \in Devices
               PROVE  (/\ finished[d] <= received[d]
                       /\ advance[d] => finished[d] < received[d]
                       /\ open[d] /\ ~silenced[d] => advance[d])'
    BY DEF Receive, Ends, Rendering
  <1>1. finished' = finished
    BY DEF Receive
  <1>2. CASE d = ai
    <2>1. received'[d] = buffer[incoming][d]
      BY <1>2 DEF Receive, Handoff, TypeOK
    <2>2. received[d] < buffer[incoming][d]
      BY <1>2, EndTypes DEF Receive, Handoff, Contents, Submitted, Merged, TypeOK
    <2>3. buffer[incoming][d] \in Nat
      BY NoteTypes DEF Receive, Handoff, TypeOK
    <2>4. advance'[d] = plays /\ open'[d] = plays
      BY <1>2 DEF Receive, TypeOK
    <2>5. QED
      BY <1>1, <2>1, <2>2, <2>3, <2>4, EndTypes DEF Ends
  <1>3. CASE d # ai
    <2>1. received'[d] = received[d]
      BY <1>3 DEF Receive, TypeOK
    <2>2. advance'[d] = advance[d] /\ open'[d] = open[d] /\ silenced'[d] = silenced[d]
      BY <1>3 DEF Receive, TypeOK
    <2>3. ~Rendering(d)
      BY DEF Receive, Rendering
    <2>4. QED
      BY <1>1, <2>1, <2>2, <2>3 DEF Ends
  <1>4. QED
    BY <1>2, <1>3

\* A read of the VU port can only stop a device.
LEMMA EndsReadVU ==
  ASSUME TypeOK, Ends, EndReadVU
  PROVE  Ends'
  <1>1. UNCHANGED <<finished, received, open, ai, apc, playing>>
    BY DEF EndReadVU, audio
  <1>2. ASSUME NEW d \in Devices
        PROVE  /\ advance'[d] => advance[d]
               /\ ~silenced'[d] => ~silenced[d]
               /\ ~silenced'[d] /\ advance[d] => advance'[d]
    BY DEF EndReadVU, TypeOK
  <1>3. QED
    BY <1>1, <1>2 DEF Ends, Rendering

\* A device that renders counts the end of the note it stopped with.
LEMMA EndsPlays ==
  ASSUME TypeOK, Ends, Plays
  PROVE  Ends'
  <1>1. UNCHANGED <<received, silenced>>
    BY PlaysSteps
  <1>2. CASE BeginRender \/ Age \/ EndCallback
    BY <1>1, <1>2 DEF BeginRender, Age, EndCallback, Ends, Rendering, shared, audio, history
  <1>3. CASE EndNote
    <2>1. UNCHANGED <<finished, open, apc, ai>> /\ playing' = FALSE
      BY <1>3 DEF EndNote, history
    <2>2. \A d \in Devices : ~Rendering(d) => advance'[d] = advance[d]
      BY <1>3 DEF EndNote, Rendering, TypeOK
    <2>3. \A d \in Devices : advance'[d] => advance[d]
      BY <1>3 DEF EndNote, TypeOK
    <2>4. QED
      BY <1>1, <2>1, <2>2, <2>3 DEF Ends, Rendering
  <1>4. CASE EndRender
    <2>1. UNCHANGED <<finished, open, advance>> /\ playing' = FALSE
      BY <1>4 DEF EndRender, shared, history
    <2>2. CASE apc' = "count"
      BY <1>1, <1>4, <2>1, <2>2 DEF EndRender, Ends, Rendering
    <2>3. CASE apc' = "render" /\ playing
      BY <1>1, <1>4, <2>1, <2>3 DEF EndRender, Ends, Rendering
    <2>4. QED
      BY <1>4, <2>2, <2>3 DEF EndRender
  <1>5. CASE Count
    <2>1. UNCHANGED advance /\ apc = "count" /\ apc' = "render"
      BY <1>5 DEF Count
    <2>2. /\ finished'[ai] = finished[ai] + 1 /\ open'[ai] = FALSE
          /\ \A d \in Devices : d # ai => finished'[d] = finished[d] /\ open'[d] = open[d]
      BY <1>5, <2>1 DEF Count, TypeOK
    <2>3. QED
      BY <1>1, <2>1, <2>2, EndTypes DEF Ends, Rendering
  <1>6. QED
    BY <1>2, <1>3, <1>4, <1>5 DEF Plays

\* Every step keeps the ends in order.
LEMMA EndsStep ==
  ASSUME TypeOK, Handoff, Contents, Ends, [Next]_vars
  PROVE  Ends'
  <1>1. CASE Aside
    <2>1. UNCHANGED <<finished, received, open, ai, apc, playing>>
      BY <1>1, AsideSteps DEF audio
    <2>2. CASE UNCHANGED <<advance, silenced>>
      BY <2>1, <2>2 DEF Ends, Rendering
    <2>3. QED
      BY <1>1, <2>2, AsideSteps, EndsReadVU
  <1>2. CASE EndSend \/ Submit \/ Swap \/ Clear
    <2>1. UNCHANGED <<finished, received, open, silenced, advance, ai, apc, playing>>
      BY <1>2 DEF EndSend, Submit, Swap, Clear, shared, audio, history
    <2>2. QED
      BY <2>1 DEF Ends, Rendering
  <1>3. CASE Poll \/ SkipMessage \/ EndMerge \/ Release
    <2>1. /\ UNCHANGED <<finished, received, open, silenced, advance>>
          /\ \A d \in Devices : ~Rendering(d) /\ ~Rendering(d)'
          /\ apc' # "count"
      BY <1>3 DEF Poll, SkipMessage, EndMerge, Release, Rendering, shared, history
    <2>2. QED
      BY <2>1 DEF Ends
  <1>4. CASE UNCHANGED vars
    BY <1>4 DEF vars, shared, audio, history, Ends, Rendering
  <1>5. QED
    BY <1>1, <1>2, <1>3, <1>4, Steps, EndsReceive, EndsPlays
-----------------------------------------------------------------------------
(***************************************************************************)
(* What follows.                                                           *)
(***************************************************************************)

\* The invariant that all the rest follows from.
THEOREM Invariance == Spec => []IInv
  <1>1. Init => IInv
    BY TypeInit, HandoffInit, ContentsInit, EndsInit DEF IInv
  <1>2. IInv /\ [Next]_vars => IInv'
    BY TypeStep, HandoffStep, ContentsStep, EndsStep DEF IInv
  <1>3. QED
    BY <1>1, <1>2, PTL DEF Spec

\* No buffer is written by one thread while the other reads it.
THEOREM RaceFree == Spec => []NoDataRace
  <1>1. IInv => NoDataRace
    BY DEF IInv, Handoff, NoDataRace
  <1>2. QED
    BY <1>1, Invariance, PTL

\* A note is received at most once, and never after a newer one.
THEOREM NotesInOrder == Spec => []NeverAgain
  <1>1. IInv => NeverAgain
    <2> SUFFICES ASSUME IInv, apc = "merge",
                        NEW d \in Devices, d >= ai, buffer[taken][d] # NoNote
                 PROVE  buffer[taken][d] > received[d]
      BY DEF NeverAgain
    <2>1. incoming = taken /\ taken # NULL
      BY DEF IInv, Handoff, TypeOK
    <2>2. ~Merged(d)
      BY EndTypes DEF IInv, Merged
    <2>3. received[d] < buffer[taken][d]
      BY <2>1, <2>2 DEF IInv, Contents, Submitted
    <2>4. QED
      BY <2>1, <2>3, NoteTypes DEF IInv
  <1>2. QED
    BY <1>1, Invariance, PTL

\* The last note sent to a device is received, submitted or about to be.
THEOREM LastNoteKept == Spec => []NothingLost
  <1>1. IInv => NothingLost
    BY DEF IInv, Contents, Kept, NothingLost
  <1>2. QED
    BY <1>1, Invariance, PTL

\* No note is reported as finished twice, or while it plays.
THEOREM EndsNeverAhead == Spec => []EndsCountedOnce
  <1>1. IInv => EndsCountedOnce
    <2> SUFFICES ASSUME IInv, NEW d \in Devices
                 PROVE  finished[d] + (IF advance[d] \/ (ai = d /\ apc = "count") THEN 1 ELSE 0)
                          <= received[d]
      BY DEF EndsCountedOnce
    <2>1. QED
      BY EndTypes DEF IInv, Ends, Rendering
  <1>2. QED
    BY <1>1, Invariance, PTL

\* Only a read of the VU port can keep the end of a note from being counted.
THEOREM EndsNeverMissed == Spec => []EndsCounted
  <1>1. IInv => EndsCounted
    BY DEF IInv, Ends, Rendering, EndsCounted
  <1>2. QED
    BY <1>1, Invariance, PTL

\* The two threads implement the mailbox: a copied message is its Send, a merged
\* one its Take, and no other step is seen.
THEOREM ImplementsMailbox == Spec => Mailbox!Spec
  <1>1. Init => Mailbox!Init
    BY DEF Init, Mailbox!Init
  <1>2. IInv /\ [Next]_vars => [Mailbox!Next]_(Mailbox!vars)
    <2> SUFFICES ASSUME IInv, [Next]_vars
                 PROVE  Mailbox!Next \/ UNCHANGED <<sent, received>>
      BY DEF Mailbox!vars
    <2>1. CASE EndSend
      <3>1. target \in Devices /\ Mailbox!Send(target)
        BY <2>1 DEF EndSend, IInv, TypeOK, Mailbox!Send
      <3>2. QED
        BY <3>1 DEF Mailbox!Next
    <2>2. ASSUME NEW plays \in BOOLEAN, Receive(plays)
          PROVE  Mailbox!Next
      <3>1. ai \in Devices
        BY <2>2, DeviceFacts DEF Receive, IInv, TypeOK
      <3>2. incoming = taken /\ incoming \in Buffers /\ incoming # NULL /\ ~Merged(ai)
        BY <2>2, <3>1, EndTypes DEF Receive, IInv, Handoff, TypeOK, Merged
      <3>3. buffer[taken][ai] \in received[ai] + 1 .. sent[ai]
        BY <2>2, <3>1, <3>2, NoteTypes DEF Receive, IInv, Contents, Submitted
      <3>4. Mailbox!Take(ai)
        BY <2>2, <3>3 DEF Receive, Mailbox!Take
      <3>5. QED
        BY <3>1, <3>4 DEF Mailbox!Next
    <2>3. CASE \/ Aside \/ Submit \/ Swap \/ Clear \/ Poll \/ SkipMessage \/ EndMerge
               \/ Release \/ Plays \/ UNCHANGED vars
      BY <2>3, AsideSteps, PlaysSteps
         DEF Submit, Swap, Clear, Poll, SkipMessage, EndMerge, Release, vars, history, IInv
    <2>4. QED
      BY <2>1, <2>2, <2>3, Steps
  <1>3. QED
    BY <1>1, <1>2, Invariance, PTL DEF Spec, Mailbox!Spec
=============================================================================
