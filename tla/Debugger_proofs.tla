--------------------------- MODULE Debugger_proofs ---------------------------
(***************************************************************************)
(* The debugger, in two parts.                                             *)
(*                                                                         *)
(* First the breakpoint table and the hook's search, for any number of     *)
(* ids, any size of the memory and of its pages, and any breakpoints: the  *)
(* summaries are exact, and so is the search.                              *)
(*                                                                         *)
(* Then the session of a debugger, for any number of requests and of       *)
(* breakpoint ids, any instructions, any depth of the return stack: every  *)
(* variable keeps its type, the machine pauses for a reason and runs past  *)
(* nothing, and what the debugger sees is a session of DbgSession.         *)
(*                                                                         *)
(* The session rests on one inductive invariant, IInv: what the requests   *)
(* read so far are worth (Queue), why a direction of the wire is down      *)
(* (Hangup), where the machine's thread may be (Phase), what the standing  *)
(* command remembers of the last promise (Pledge), what the hook's         *)
(* decision says of the instruction until it has run (Verdict), and which  *)
(* message was the last one at each place (Talk).                          *)
(***************************************************************************)
EXTENDS Debugger, NumberFacts, SequenceTheorems, TLAPS

\* A set of natural numbers below a bound has a highest member.
LEMMA Highest ==
  ASSUME NEW n \in Nat, NEW T, T \subseteq IdsBelow(n), T # {}
  PROVE  \E x \in T : \A y \in T : y <= x
  <1> DEFINE Distances == {n - x : x \in T}
  <1>1. T \subseteq Nat /\ \A x \in T : n - x \in Nat
    BY DEF IdsBelow
  <1>2. Distances \subseteq Nat
    BY <1>1
  <1>3. Distances # {}
    OBVIOUS
  <1>4. PICK least \in Distances : \A distance \in Distances : least <= distance
    <2> HIDE DEF Distances
    <2> QED
      BY <1>2, <1>3, Lowest
  <1>5. PICK x \in T : least = n - x
    OBVIOUS
  <1>6. \A y \in T : n - x <= n - y
    BY <1>4, <1>5
  <1>7. QED
    BY <1>1, <1>6

-----------------------------------------------------------------------------
(***************************************************************************)
(* The table.                                                              *)
(***************************************************************************)

\* What Trim returns: the ids from there on are not in use, the one before is.
LEMMA TrimExact ==
  ASSUME NEW n \in Nat, NEW brkpTable
  PROVE  /\ Trim(brkpTable, n) \in 0 .. n
         /\ \A i \in IdsBelow(n) : i >= Trim(brkpTable, n) => brkpTable[i].mask = {}
         /\ Trim(brkpTable, n) > 0 => brkpTable[Trim(brkpTable, n) - 1].mask # {}
  <1> DEFINE used == {i \in IdsBelow(n) : brkpTable[i].mask # {}}
  <1>1. CASE used = {}
    BY <1>1 DEF Trim
  <1>2. CASE used # {}
    <2> DEFINE last == CHOOSE i \in used : \A j \in used : j <= i
    <2>1. Trim(brkpTable, n) = last + 1
      BY <1>2 DEF Trim
    <2>2. used \subseteq IdsBelow(n)
      OBVIOUS
    <2>3. \E i \in used : \A j \in used : j <= i
      <3> HIDE DEF used
      <3> QED
        BY <1>2, <2>2, Highest
    <2>4. last \in used /\ \A j \in used : j <= last
      BY <2>3
    <2>5. last \in IdsBelow(n) /\ brkpTable[last].mask # {}
      BY <2>4
    <2>6. \A i \in IdsBelow(n) : i >= last + 1 => brkpTable[i].mask = {}
      BY <2>4, <2>5 DEF IdsBelow
    <2>7. last \in 0 .. n - 1
      BY <2>5 DEF IdsBelow
    <2> HIDE DEF last
    <2>8. QED
      BY <2>1, <2>5, <2>6, <2>7
  <1>3. QED
    BY <1>1, <1>2

\* The ids from a number on, and those below it.
LEMMA IdsAround ==
  ASSUME NEW n \in 0 .. NoId
  PROVE  /\ n \in Nat /\ n \in Ids \union {NoId}
         /\ IdsBelow(n) \subseteq Ids
         /\ \A i \in Ids : i \in IdsBelow(n) \/ i >= n
  BY NoIdAssumption DEF Ids, IdsBelow

\* An empty table needs no summary.
LEMMA TableInit == InitTable => TableOK
  BY NoIdAssumption, SizesAssumption
     DEF InitTable, TableOK, Ids, Breakpoint, NoBrkp, Addresses, Flags

\* A BRKP_SET keeps the summaries exact.
LEMMA TableStep ==
  ASSUME TableOK, NEW id \in Ids \union {NoId}, NEW brkp \in Breakpoint, BrkpSet(id, brkp)
  PROVE  TableOK'
  <1> USE NoIdAssumption
  <1>1. CASE id = NoId
    BY <1>1 DEF BrkpSet, TableOK, table
  <1>2. CASE id # NoId
    <2>1. /\ id \in Ids
          /\ brkps' = [brkps EXCEPT ![id] = brkp]
          /\ nbrkps' = IF brkp.mask = {} THEN Trim(brkps', nbrkps)
                       ELSE IF id >= nbrkps THEN id + 1 ELSE nbrkps
          /\ brkpMask' = MaskOf(brkps', nbrkps')
      BY <1>2 DEF BrkpSet
    <2>2. brkps' \in [Ids -> Breakpoint]
      BY <2>1 DEF TableOK
    <2>3. nbrkps \in 0 .. NoId /\ id \in 0 .. NoId - 1
      BY <2>1 DEF TableOK, Ids
    <2>4. \A i \in Ids : brkps'[i] = IF i = id THEN brkp ELSE brkps[i]
      BY <2>1 DEF TableOK
    <2>5. /\ nbrkps' \in 0 .. NoId
          /\ \A i \in Ids : i >= nbrkps' => brkps'[i].mask = {}
          /\ nbrkps' > 0 => brkps'[nbrkps' - 1].mask # {}
      <3>1. CASE brkp.mask = {}
        <4>1. \A i \in Ids : i >= nbrkps => brkps'[i].mask = {}
          BY <2>4, <3>1 DEF TableOK
        <4>2. nbrkps' = Trim(brkps', nbrkps)
          BY <2>1, <3>1
        <4>3. nbrkps \in Nat
          BY <2>3
        <4>4. /\ nbrkps' \in 0 .. nbrkps
              /\ \A i \in IdsBelow(nbrkps) : i >= nbrkps' => brkps'[i].mask = {}
              /\ nbrkps' > 0 => brkps'[nbrkps' - 1].mask # {}
          BY <4>2, <4>3, TrimExact
        <4>5. QED
          BY <2>3, <4>1, <4>4, IdsAround
      <3>2. CASE brkp.mask # {} /\ id >= nbrkps
        BY <2>1, <2>3, <2>4, <3>2 DEF TableOK, Ids
      <3>3. CASE brkp.mask # {} /\ id < nbrkps
        BY <2>1, <2>3, <2>4, <3>3 DEF TableOK, Ids
      <3>4. QED
        BY <2>3, <3>1, <3>2, <3>3
    <2>6. MaskOf(brkps', nbrkps') = UNION {brkps'[i].mask : i \in Ids}
      <3>1. IdsBelow(nbrkps') \subseteq Ids
        BY <2>5, IdsAround
      <3>2. \A i \in Ids \ IdsBelow(nbrkps') : brkps'[i].mask = {}
        BY <2>5, IdsAround
      <3>3. QED
        BY <3>1, <3>2 DEF MaskOf
    <2>7. nbrkps' \in Ids \union {NoId}
      BY <2>5, IdsAround
    <2>8. QED
      BY <2>1, <2>2, <2>5, <2>6, <2>7 DEF TableOK
  <1>3. QED
    BY <1>1, <1>2

\* A breakpoint without address or flags is one.
LEMMA NoBrkpIsOne == NoBrkp \in Breakpoint
  BY SizesAssumption DEF NoBrkp, Breakpoint, Addresses

\* The summaries are exact after any sequence of BRKP_SET commands.
THEOREM TableCorrect == SpecTable => []TableOK
  <1>1. TableOK /\ [NextTable]_table => TableOK'
    <2> SUFFICES ASSUME TableOK, [NextTable]_table
                 PROVE  TableOK'
      OBVIOUS
    <2>1. CASE NextTable
      BY <2>1, TableStep, NoBrkpIsOne, BreakpointsAssumption DEF NextTable
    <2>2. CASE UNCHANGED table
      BY <2>2 DEF table, TableOK
    <2>3. QED
      BY <2>1, <2>2
  <1>2. QED
    BY <1>1, TableInit, PTL DEF SpecTable

-----------------------------------------------------------------------------
(***************************************************************************)
(* The search.                                                             *)
(***************************************************************************)

\* The hook decodes the addresses the machine reaches, but for the wrap.
LEMMA DecodesReached ==
  ASSUME NEW s \in Situations, ~WrapsInPage(s)
  PROVE  Targets(s) = Reached(s)
  <1>1. CASE s.op \in ZeroPageOps \union DeviceOps
    <2>1. First(s) = s.operand /\ s.operand \in Nat
      BY <1>1, SituationsAssumption
         DEF First, ZeroPageOps, DeviceOps, RelativeOps, Ports
    <2>2. First(s) + Width(s) \in Nat /\ First(s) + Width(s) < PageSize
      BY <1>1, <2>1, SituationsAssumption, SizesAssumption
         DEF WrapsInPage, Width, Ports, Situation
    <2>3. /\ (First(s) + Width(s)) % MemSize = First(s) + Width(s)
          /\ (First(s) + Width(s)) % PageSize = First(s) + Width(s)
      BY <2>2, SmallRemainder, SizesAssumption
    <2>4. QED
      BY <1>1, <2>3 DEF Targets, Reached
  <1>2. CASE s.op \notin ZeroPageOps \union DeviceOps
    BY <1>2 DEF Targets, Reached
  <1>3. QED
    BY <1>1, <1>2

\* A breakpoint of the table trips for the hook when it trips for the machine.
LEMMA SearchesAll ==
  ASSUME TableOK, NEW s \in Situations, NEW begins \in BOOLEAN, ~WrapsInPage(s),
         NEW i \in Ids
  PROVE  Trips(brkps[i], s, begins, Decoded(s).class, Decoded(s).targets)
           <=> Trips(brkps[i], s, begins, Class(s), Reached(s))
  <1>1. CASE brkpMask \intersect {"LOAD", "STORE"} # {}
    BY <1>1, DecodesReached DEF Decoded
  <1>2. CASE brkpMask \intersect {"LOAD", "STORE"} = {}
    <2>1. "LOAD" \notin brkps[i].mask /\ "STORE" \notin brkps[i].mask
      BY <1>2 DEF TableOK
    <2>2. QED
      BY <2>1 DEF Trips
  <1>3. QED
    BY <1>1, <1>2

\* A breakpoint without flags never trips.
LEMMA NoFlagNoTrip ==
  ASSUME NEW brkp, brkp.mask = {}, NEW s, NEW begins, NEW class, NEW addresses
  PROVE  ~Trips(brkp, s, begins, class, addresses)
  BY DEF Trips

\* What the search skips would not have been found.
LEMMA SearchExact == TableOK => ReportsFirstTripped
  <1> SUFFICES ASSUME TableOK,
                      NEW s \in Situations, NEW begins \in BOOLEAN, ~WrapsInPage(s)
               PROVE  Match(s, begins) =
                        LowestOf({i \in Ids : Trips(brkps[i], s, begins, Class(s), Reached(s))})
    BY DEF ReportsFirstTripped
  <1> DEFINE Tripped == {i \in Ids : Trips(brkps[i], s, begins, Class(s), Reached(s))}
             Found == {i \in IdsBelow(nbrkps) :
                         Trips(brkps[i], s, begins, Decoded(s).class, Decoded(s).targets)}
  <1>1. Found = Tripped
    <2>1. IdsBelow(nbrkps) \subseteq Ids
      BY NoIdAssumption DEF TableOK, Ids, IdsBelow
    <2>2. \A i \in Ids \ IdsBelow(nbrkps) : brkps[i].mask = {}
      BY NoIdAssumption DEF TableOK, Ids, IdsBelow
    <2>3. Tripped \subseteq IdsBelow(nbrkps)
      BY <2>2, NoFlagNoTrip
    <2>4. QED
      BY <2>1, <2>3, SearchesAll
  <1>2. CASE brkpMask = {}
    <2>1. \A i \in Ids : brkps[i].mask = {}
      BY <1>2 DEF TableOK
    <2>2. Tripped = {}
      BY <2>1, NoFlagNoTrip
    <2>3. Match(s, begins) = NoId
      BY <1>2 DEF Match
    <2>4. QED
      BY <2>2, <2>3 DEF LowestOf
  <1>3. CASE brkpMask # {}
    BY <1>1, <1>3 DEF Match
  <1>4. QED
    BY <1>2, <1>3

\* The breakpoint the hook reports is the first one tripped.
THEOREM SearchCorrect == SpecTable => []ReportsFirstTripped
  BY TableCorrect, SearchExact, PTL

-----------------------------------------------------------------------------
(***************************************************************************)
(* The invariant of a session.                                             *)
(***************************************************************************)

\* The requests wait in the order they were made, the one read last is the one
\* before them, and while the wire is up it is the only one not answered, if
\* any is.
Queue ==
  /\ Len(requests) <= asked
  /\ \A i \in 1 .. Len(requests) : requests[i].n = asked - Len(requests) + i
  /\ cmd.n = asked - Len(requests)
  /\ replied <= cmd.n
  /\ replyDue => cmd # NoCommand
  /\ out => replied = IF replyDue THEN cmd.n - 1 ELSE cmd.n
  /\ out /\ replyDue =>
       \/ place = "replying" /\ cmd.req.type \notin LeavingTypes
       \/ place = "leaving" /\ cmd.req.type \in LeavingTypes

\* All the debugger sent was read, but for something that is no request.
Babbled == noise # "none" /\ requests = <<>>

\* The output goes down only because the debugger has left, the input also
\* because what came after the last request was none.
Hangup ==
  /\ ~out => ~open
  /\ ~in => ~open \/ Babbled
  /\ noise = "read" => requests = <<>>

\* Where the machine's thread may be, with the hook and without it.
Phase ==
  /\ ~hooked => /\ place \in {"host", "execute"}
                /\ ~executing
                /\ standing = "EXECUTE"
                /\ nbrkps = 0
  /\ place \in {"host", "begin"} => ~executing
  /\ place \in Breaking \union {"match", "fetch"} => executing
  /\ place = "execute" => (executing <=> hooked /\ instr.op # "BRK")

\* The standing command keeps what was promised to the debugger.
Pledge ==
  /\ polled => standing = "PAUSE" /\ hooked
  /\ standing = "PAUSE" => polled \/ goal.type = "STEP_IN"
  /\ standing \in {"STEP_OVER", "STEP_OUT"} => goal.type = standing /\ goal.rsp = standingRsp
  /\ standing = "EXECUTE" => goal.type = "RESUME" \/ (goal.type = "STEP_OUT" /\ goal.rsp = 0)

\* What the hook decided is true of the instruction until it has run, and
\* nothing is overdue once the break is over.
Verdict ==
  /\ place = "break" => /\ brkpId = Match(instr, starts)
                        /\ shouldPause = (PausesAt(brkpId) \/ StandingPauses)
  /\ place \in {"leaving", "endBreak", "fetch", "execute"} =>
       /\ ~polled
       /\ moved => ~GoalReached /\ ~PausesAt(Match(instr, starts))

\* The last message at each place of the machine's thread, while the wire is up.
Talk ==
  /\ out /\ ~executing => said = "END_EXEC"
  /\ out /\ executing /\ place \in {"match", "break", "fetch", "execute"} =>
       said \in {"BEGIN_EXEC", "END_BREAK"}
  /\ out /\ place = "pausing" => said = "BEGIN_BREAK" /\ pauseDue
  /\ out /\ place \in {"replying", "reading"} => said \in {"PAUSED", "REPLY"}
  /\ out /\ place = "leaving" =>
       \/ said = "BEGIN_BREAK" /\ ~replyDue
       \/ said \in {"PAUSED", "REPLY"} /\ (replyDue \/ ~open \/ Babbled)
  /\ out /\ place = "endBreak" =>
       \/ said \in {"BEGIN_BREAK", "LEAVE"}
       \/ said \in {"PAUSED", "REPLY"} /\ (~open \/ Babbled)

IInv == TypeOK /\ Queue /\ Hangup /\ Phase /\ Pledge /\ Verdict /\ Talk
-----------------------------------------------------------------------------
(***************************************************************************)
(* Types.                                                                  *)
(***************************************************************************)

\* What a request is made of.
LEMMA RequestFields ==
  ASSUME NEW req \in Requests
  PROVE  /\ req.type \in LeavingTypes \union {"INFO", "WRITE", "BRKP_SET"}
         /\ req.id \in Ids \union {NoId}
         /\ req.brkp \in Breakpoint
  BY BreakpointsAssumption, NoBrkpIsOne DEF Requests, Request

\* The initial states have the types.
LEMMA TypeInit == Init => TypeOK
  <1> SUFFICES ASSUME Init
               PROVE  TypeOK
    OBVIOUS
  <1> USE DEF Init
  <1>1. TableOK
    BY TableInit
  <1>2. /\ instr \in Situations
        /\ brkpId \in Ids \union {NoId}
        /\ goal \in [type : LeavingTypes, rsp : 0 .. MaxDepth]
        /\ standingRsp \in 0 .. MaxDepth /\ rsp \in 0 .. MaxDepth
        /\ fuel \in 0 .. MaxSteps /\ asked \in 0 .. MaxAsks /\ replied \in 0 .. asked
        /\ cmd \in {NoCommand}
        /\ requests \in Seq([n : 1 .. MaxAsks, req : Requests])
        /\ noise \in {"none", "unread", "read"}
    BY BoundsAssumption DEF LeavingTypes
  <1>3. \A b \in {executing, in, out, pauseDue, replyDue, open, polls, hooked, starts,
                  shouldPause, polled, moved} : b \in BOOLEAN
    OBVIOUS
  <1>4. standing \in {"EXECUTE", "PAUSE", "STEP_OVER", "STEP_OUT"} /\ place \in Places
    BY DEF Places
  <1>5. QED
    BY <1>1, <1>2, <1>3, <1>4 DEF TypeOK

\* A step that leaves the table alone leaves it right.
LEMMA TableSame == TableOK /\ UNCHANGED table => TableOK'
  BY DEF TableOK, table

\* The first breakpoint tripped is one, or there is none.
LEMMA MatchType ==
  ASSUME TableOK, NEW s, NEW b
  PROVE  Match(s, b) \in Ids \union {NoId}
  <1> DEFINE Found == {i \in IdsBelow(nbrkps) :
                         Trips(brkps[i], s, b, Decoded(s).class, Decoded(s).targets)}
  <1>1. IdsBelow(nbrkps) \subseteq Ids
    BY NoIdAssumption DEF TableOK, Ids, IdsBelow
  <1>2. Ids \subseteq Nat
    BY NoIdAssumption DEF Ids
  <1>3. LowestOf(Found) \in Ids \union {NoId}
    <2>1. Found \subseteq Ids
      BY <1>1
    <2> HIDE DEF Found
    <2>2. CASE Found # {}
      <3>1. \E i \in Found : \A j \in Found : i <= j
        BY <2>1, <2>2, <1>2, Lowest
      <3>2. LowestOf(Found) \in Found
        BY <2>2, <3>1 DEF LowestOf
      <3>3. QED
        BY <2>1, <3>2
    <2>3. QED
      BY <2>2 DEF LowestOf
  <1>4. QED
    BY <1>3 DEF Match

\* The pause of the hook ends, or goes on, with values of the types.
LEMMA LeaveType ==
  ASSUME TypeOK, NEW command \in {"EXECUTE", "PAUSE", "STEP_OVER", "STEP_OUT"},
         NEW depth \in 0 .. MaxDepth, NEW type \in LeavingTypes,
         Leave(command, depth, type)
  PROVE  /\ standing' \in {"EXECUTE", "PAUSE", "STEP_OVER", "STEP_OUT"}
         /\ standingRsp' \in 0 .. MaxDepth
         /\ shouldPause' \in BOOLEAN /\ polled' \in BOOLEAN /\ moved' \in BOOLEAN
         /\ goal' \in [type : LeavingTypes, rsp : 0 .. MaxDepth]
         /\ place' \in Places
  BY DEF Leave, TypeOK, Places, Breaking

\* Any request is performed with values of the types.
LEMMA PerformType ==
  ASSUME TypeOK, NEW req \in Requests, Perform(req)
  PROVE  /\ TableOK'
         /\ standing' \in {"EXECUTE", "PAUSE", "STEP_OVER", "STEP_OUT"}
         /\ standingRsp' \in 0 .. MaxDepth
         /\ shouldPause' \in BOOLEAN /\ polled' \in BOOLEAN /\ moved' \in BOOLEAN
         /\ goal' \in [type : LeavingTypes, rsp : 0 .. MaxDepth]
         /\ place' \in Places
         /\ instr' \in Situations
  <1>1. TableOK'
    <2>1. CASE req.type = "BRKP_SET" /\ BrkpSet(req.id, req.brkp)
      BY <2>1, TableStep, RequestFields DEF TypeOK
    <2>2. CASE UNCHANGED table
      BY <2>2, TableSame DEF TypeOK
    <2>3. QED
      BY <2>1, <2>2 DEF Perform
  <1>2. instr' \in Situations
    BY DEF Perform, TypeOK
  <1>3. standingRsp \in 0 .. MaxDepth /\ rsp \in 0 .. MaxDepth
    BY DEF TypeOK
  <1>4. \/ Stay
        \/ \E command \in {"EXECUTE", "PAUSE", "STEP_OVER", "STEP_OUT"},
              depth \in 0 .. MaxDepth, type \in LeavingTypes : Leave(command, depth, type)
    BY <1>3, Zenon DEF Perform, LeavingTypes
  <1>5. CASE Stay
    BY <1>1, <1>2, <1>5 DEF Stay, promise, TypeOK, Places, Breaking, Pausing
  <1>6. QED
    BY <1>1, <1>2, <1>4, <1>5, LeaveType

\* An answer, if one is due, is that to a request that was made.
LEMMA ReplyType ==
  ASSUME TypeOK, Queue, MaybeReply
  PROVE  in' \in BOOLEAN /\ out' \in BOOLEAN /\ replyDue' \in BOOLEAN /\ replied' \in 0 .. asked
  <1>1. cmd.n \in 0 .. asked
    BY DEF TypeOK, Queue, NoCommand
  <1>2. CASE out /\ replyDue
    BY <1>1, <1>2 DEF MaybeReply, SendOrHangUp, Send, Outcomes, TypeOK
  <1>3. CASE ~(out /\ replyDue)
    BY <1>3 DEF MaybeReply, TypeOK
  <1>4. QED
    BY <1>2, <1>3

\* Every step keeps the types.
LEMMA TypeStep == TypeOK /\ Queue /\ [Next]_vars => TypeOK'
  <1> SUFFICES ASSUME TypeOK, Queue, [Next]_vars
               PROVE  TypeOK'
    OBVIOUS
  <1> USE DEF core, wire, connection, host, locals, machine, session, promise
  <1>1. CASE Ask
    <2>1. MaxAsks \in Nat /\ asked' \in 0 .. MaxAsks /\ replied' \in 0 .. asked'
      BY <1>1, BoundsAssumption DEF Ask, TypeOK
    <2>2. requests' \in Seq([n : 1 .. MaxAsks, req : Requests])
      BY <1>1, <2>1 DEF Ask, TypeOK
    <2>3. QED
      BY <1>1, <2>1, <2>2, TableSame DEF Ask, TypeOK
  <1>2. CASE Close \/ Babble
    BY <1>2, TableSame DEF Close, Babble, TypeOK
  <1>3. CASE Update
    BY <1>3, TableSame DEF Update, ShouldHook, TypeOK
  <1>4. CASE StartVector
    <2>1. instr' \in Situations /\ starts' \in BOOLEAN /\ place' \in Places
      BY <1>4 DEF StartVector, Reach, Places, Breaking
    <2>2. fuel' \in 0 .. MaxSteps
      BY <1>4, BoundsAssumption DEF StartVector
    <2>3. QED
      BY <1>4, <2>1, <2>2, TableSame DEF StartVector, TypeOK
  <1>5. CASE BeginExec
    BY <1>5, TableSame DEF BeginExec, Send, Outcomes, TypeOK, Places, Breaking
  <1>6. CASE Decide
    <2>1. brkpId' \in Ids \union {NoId}
      BY <1>6, MatchType DEF Decide, TypeOK
    <2>2. shouldPause' \in BOOLEAN
      BY <1>6, Zenon DEF Decide
    <2>3. place' \in Places
      BY <1>6 DEF Decide, Places, Breaking
    <2>4. QED
      BY <1>6, <2>1, <2>2, <2>3, TableSame DEF Decide, TypeOK
  <1>7. CASE BeginBreak
    BY <1>7, TableSame DEF BeginBreak, Send, Outcomes, TypeOK, Places, Breaking, Pausing
  <1>8. CASE SendPause
    BY <1>8, TableSame
       DEF SendPause, SendOrHangUp, Send, Outcomes, TypeOK, Places, Breaking, Pausing
  <1>9. CASE SendReply
    BY <1>9, ReplyType, TableSame DEF SendReply, TypeOK, Places, Breaking, Pausing
  <1>10. CASE ReadRequest
    <2> DEFINE Asked == [n : 1 .. MaxAsks, req : Requests]
    <2>0. requests \in Seq(Asked) /\ requests # <<>> /\ requests' = Tail(requests)
      BY <1>10 DEF ReadRequest, TypeOK
    <2>1. Head(requests) \in Asked
      BY <2>0, HeadTailProperties, Zenon
    <2>2. requests' \in Seq(Asked)
      BY <2>0, HeadTailProperties, Zenon
    <2>3. Head(requests).req \in Requests
      BY <2>1
    <2>4. QED
      BY <1>10, <2>1, <2>2, <2>3, PerformType DEF ReadRequest, TypeOK
  <1>11. CASE EndOfInput
    BY <1>11, TableSame, LeaveType DEF EndOfInput, TypeOK, LeavingTypes
  <1>12. CASE SendLastReply
    BY <1>12, ReplyType, TableSame DEF SendLastReply, TypeOK, Places, Breaking
  <1>13. CASE EndBreak
    BY <1>13, TableSame DEF EndBreak, Send, Outcomes, TypeOK, Places, Breaking
  <1>14. CASE EndHook
    BY <1>14, TableSame DEF EndHook, Send, Outcomes, TypeOK, Places, Breaking
  <1>15. CASE Execute
    <2>1. rsp' \in 0 .. MaxDepth /\ fuel' \in 0 .. MaxSteps
      BY <1>15, BoundsAssumption DEF Execute, TypeOK
    <2>2. instr' \in Situations /\ starts' \in BOOLEAN /\ place' \in Places
      BY <1>15 DEF Execute, Reach, TypeOK, Places, Breaking
    <2>3. moved' \in BOOLEAN
      BY <1>15 DEF Execute
    <2>4. QED
      BY <1>15, <2>1, <2>2, <2>3, TableSame DEF Execute, TypeOK
  <1>16. CASE UNCHANGED vars
    BY <1>16, TableSame DEF vars, TypeOK
  <1>17. QED
    BY <1>1, <1>2, <1>3, <1>4, <1>5, <1>6, <1>7, <1>8, <1>9, <1>10, <1>11, <1>12,
       <1>13, <1>14, <1>15, <1>16 DEF Next, Hook

-----------------------------------------------------------------------------
(***************************************************************************)
(* The requests and their answers.                                         *)
(***************************************************************************)

\* The initial states are in order.
LEMMA InitOrder == Init => Queue /\ Hangup /\ Phase /\ Pledge /\ Verdict /\ Talk
  <1> SUFFICES ASSUME Init
               PROVE  Queue /\ Hangup /\ Phase /\ Pledge /\ Verdict /\ Talk
    OBVIOUS
  <1>1. Queue /\ Hangup
    <2>1. Len(requests) = 0
      BY DEF Init
    <2>2. asked = 0 /\ replied = 0 /\ cmd.n = 0 /\ in /\ out /\ ~replyDue
      BY DEF Init, NoCommand
    <2>3. QED
      BY <2>1, <2>2 DEF Queue, Hangup
  <1>2. Phase /\ Pledge
    BY DEF Init, Phase, Pledge, Breaking, Pausing
  <1>3. Verdict /\ Talk
    BY DEF Init, Verdict, Talk
  <1>4. QED
    BY <1>1, <1>2, <1>3

\* A step that leaves the requests and the wire's account of them alone keeps
\* them in order, unless it moves from where an answer is due.
LEMMA QueueSame ==
  ASSUME Queue, UNCHANGED <<requests, asked, replied, cmd, replyDue>>, out' => out,
         out' /\ replyDue => place' = place
  PROVE  Queue'
  BY DEF Queue

\* An answer, if one is due, is the next.
LEMMA QueueReply ==
  ASSUME TypeOK, Queue, MaybeReply, UNCHANGED <<requests, asked, cmd>>
  PROVE  Queue'
  <1>1. cmd.n \in Nat
    BY DEF TypeOK, NoCommand
  <1>2. CASE out /\ replyDue
    BY <1>1, <1>2 DEF MaybeReply, SendOrHangUp, Send, Outcomes, TypeOK, Queue
  <1>3. CASE ~(out /\ replyDue)
    BY <1>1, <1>3 DEF MaybeReply, TypeOK, Queue
  <1>4. QED
    BY <1>2, <1>3

\* The request read is the next, and its answer is due where the pause goes on
\* to, be that its end or the next request.
LEMMA QueueRead ==
  ASSUME TypeOK, Queue, ReadRequest
  PROVE  Queue'
  <1> DEFINE Asked == [n : 1 .. MaxAsks, req : Requests]
  <1>1. requests \in Seq(Asked) /\ requests # <<>> /\ requests' = Tail(requests)
        /\ cmd' = Head(requests) /\ replyDue' = TRUE /\ place = "reading"
        /\ UNCHANGED <<asked, replied, out>>
    BY DEF ReadRequest, TypeOK, session
  <1>2. /\ Len(requests') = Len(requests) - 1
        /\ \A i \in 1 .. Len(requests') : requests'[i] = requests[i + 1]
        /\ Head(requests) \in Asked
    BY <1>1, HeadTailProperties, Zenon
  <1>3. Len(requests) \in Nat /\ Len(requests) # 0 /\ Head(requests) = requests[1]
    BY <1>1
  <1>4. asked \in Nat /\ replied \in Nat /\ cmd.n \in Nat
    BY BoundsAssumption DEF TypeOK, NoCommand
  <1>5. cmd'.n = asked - Len(requests')
    BY <1>1, <1>2, <1>3, <1>4 DEF Queue
  <1>6. ASSUME NEW i \in 1 .. Len(requests')
        PROVE  requests'[i].n = asked - Len(requests') + i
    <2>1. i + 1 \in 1 .. Len(requests)
      BY <1>2, <1>3
    <2>2. requests[i + 1].n = asked - Len(requests) + (i + 1)
      BY <2>1 DEF Queue
    <2>3. requests'[i] = requests[i + 1]
      BY <1>2
    <2>4. QED
      BY <1>2, <1>3, <1>4, <2>2, <2>3
  <1>7. replied <= cmd.n /\ cmd'.n = cmd.n + 1 /\ (out => replied = cmd.n)
    BY <1>1, <1>2, <1>3, <1>4, <1>5 DEF Queue
  <1>8. cmd' # NoCommand
    BY <1>1, <1>2 DEF NoCommand
  <1>9. \/ place' = "replying" /\ cmd'.req.type \notin LeavingTypes
        \/ place' = "leaving" /\ cmd'.req.type \in LeavingTypes
    BY <1>1 DEF ReadRequest, Perform, Leave, Stay, LeavingTypes
  <1>10. QED
    BY <1>1, <1>2, <1>3, <1>4, <1>5, <1>6, <1>7, <1>8, <1>9 DEF Queue

\* Every step keeps the requests and their answers in order.
LEMMA QueueStep == TypeOK /\ Queue /\ [Next]_vars => Queue'
  <1> SUFFICES ASSUME TypeOK, Queue, [Next]_vars
               PROVE  Queue'
    OBVIOUS
  <1> USE DEF core, wire, connection, host, locals, machine, session, promise
  <1>1. CASE Ask
    <2> DEFINE Asked == [n : 1 .. MaxAsks, req : Requests]
    <2>1. PICK req \in Requests : requests' = Append(requests, [n |-> asked + 1, req |-> req])
      BY <1>1 DEF Ask
    <2>2. asked \in Nat /\ asked + 1 \in 1 .. MaxAsks /\ asked' = asked + 1
      BY <1>1, BoundsAssumption DEF Ask, TypeOK
    <2>3. PICK last \in Asked : last.n = asked + 1 /\ requests' = Append(requests, last)
      BY <2>1, <2>2
    <2>4. requests \in Seq(Asked)
      BY DEF TypeOK
    <2>5. /\ Len(requests') = Len(requests) + 1
          /\ \A i \in 1 .. Len(requests) : requests'[i] = requests[i]
          /\ requests'[Len(requests) + 1] = last
          /\ Len(requests) \in Nat
      BY <2>3, <2>4, AppendProperties
    <2>6. ASSUME NEW i \in 1 .. Len(requests')
          PROVE  requests'[i].n = asked' - Len(requests') + i
      <3>1. CASE i \in 1 .. Len(requests)
        BY <2>2, <2>5, <3>1 DEF Queue
      <3>2. CASE i = Len(requests) + 1
        BY <2>2, <2>3, <2>5, <3>2
      <3>3. QED
        BY <2>5, <3>1, <3>2
    <2>7. cmd'.n = asked' - Len(requests') /\ Len(requests') <= asked'
      BY <1>1, <2>2, <2>5 DEF Queue, Ask
    <2>8. QED
      BY <1>1, <2>6, <2>7 DEF Queue, Ask
  <1>2. CASE Close \/ Babble
    BY <1>2, QueueSame DEF Close, Babble
  <1>3. CASE Update
    BY <1>3, QueueSame DEF Update
  <1>4. CASE StartVector
    BY <1>4 DEF StartVector, Queue
  <1>5. CASE BeginExec
    BY <1>5 DEF BeginExec, Send, Queue
  <1>6. CASE Decide
    BY <1>6 DEF Decide, Queue
  <1>7. CASE BeginBreak
    BY <1>7 DEF BeginBreak, Send, Queue
  <1>8. CASE SendPause
    BY <1>8 DEF SendPause, SendOrHangUp, Send, Queue
  <1>9. CASE SendReply
    BY <1>9, QueueReply DEF SendReply
  <1>10. CASE ReadRequest
    BY <1>10, QueueRead
  <1>11. CASE EndOfInput
    BY <1>11 DEF EndOfInput, Queue
  <1>12. CASE SendLastReply
    BY <1>12, QueueReply DEF SendLastReply
  <1>13. CASE EndBreak
    BY <1>13 DEF EndBreak, Send, Queue
  <1>14. CASE EndHook
    BY <1>14 DEF EndHook, Send, Queue
  <1>15. CASE Execute
    BY <1>15 DEF Execute, Queue
  <1>16. CASE UNCHANGED vars
    BY <1>16 DEF vars, Queue
  <1>17. QED
    BY <1>1, <1>2, <1>3, <1>4, <1>5, <1>6, <1>7, <1>8, <1>9, <1>10, <1>11, <1>12,
       <1>13, <1>14, <1>15, <1>16 DEF Next, Hook

\* A message that cannot be sent takes the input down with it.
LEMMA HangupSend ==
  ASSUME TypeOK, Hangup, UNCHANGED connection,
         NEW message, SendOrHangUp(message) \/ UNCHANGED <<in, out>>
  PROVE  Hangup'
  <1>1. CASE open
    BY <1>1 DEF SendOrHangUp, Send, Outcomes, Hangup, Babbled, TypeOK, connection
  <1>2. CASE ~open
    BY <1>2 DEF Hangup, connection
  <1>3. QED
    BY <1>1, <1>2

\* A direction of the wire goes down only for its reasons.
LEMMA HangupStep == TypeOK /\ Hangup /\ [Next]_vars => Hangup'
  <1> SUFFICES ASSUME TypeOK, Hangup, [Next]_vars
               PROVE  Hangup'
    OBVIOUS
  <1> USE DEF wire, connection, Hangup, Babbled
  <1>1. CASE Ask \/ Babble \/ Close \/ Update \/ StartVector \/ Decide \/ ReadRequest \/ Execute
    BY <1>1 DEF Ask, Babble, Close, Update, StartVector, Decide, ReadRequest, Execute
  <1>2. CASE BeginExec \/ BeginBreak \/ EndBreak \/ EndHook
    <2>1. in' = in /\ UNCHANGED connection
      BY <1>2 DEF BeginExec, BeginBreak, EndBreak, EndHook
    <2>2. out /\ ~out' => ~open
      BY <1>2 DEF BeginExec, BeginBreak, EndBreak, EndHook, Send, Outcomes
    <2>3. QED
      BY <2>1, <2>2
  <1>3. CASE SendPause
    BY <1>3, HangupSend DEF SendPause
  <1>4. CASE SendReply \/ SendLastReply
    <2>1. MaybeReply /\ UNCHANGED connection
      BY <1>4 DEF SendReply, SendLastReply
    <2> DEFINE message == IF cmd.req.type \in LeavingTypes THEN "LEAVE" ELSE "REPLY"
    <2>2. SendOrHangUp(message) \/ UNCHANGED <<in, out>>
      BY <2>1 DEF MaybeReply
    <2> HIDE DEF message
    <2>3. QED
      BY <2>1, <2>2, HangupSend
  <1>5. CASE EndOfInput
    BY <1>5 DEF EndOfInput
  <1>6. CASE UNCHANGED vars
    BY <1>6 DEF vars
  <1>7. QED
    BY <1>1, <1>2, <1>3, <1>4, <1>5, <1>6 DEF Next, Hook

-----------------------------------------------------------------------------
(***************************************************************************)
(* The machine's thread, the standing command, and the hook's decision.    *)
(***************************************************************************)

\* How a request is performed: the pause goes on, or ends with a command that
\* keeps what the debugger is promised.
LEMMA Performed ==
  ASSUME NEW req, Perform(req), rsp \in Nat
  PROVE  \/ /\ place' = "replying"
            /\ UNCHANGED <<standing, standingRsp, shouldPause, promise>>
         \/ /\ place' = "leaving" /\ UNCHANGED table
            /\ ~polled' /\ ~moved'
            /\ standing' = "PAUSE" => goal'.type = "STEP_IN"
            /\ standing' \in {"STEP_OVER", "STEP_OUT"} =>
                 goal'.type = standing' /\ goal'.rsp = standingRsp'
            /\ standing' = "EXECUTE" =>
                 goal'.type = "RESUME" \/ (goal'.type = "STEP_OUT" /\ goal'.rsp = 0)
  BY DEF Perform, Leave, Stay

\* Every step keeps the machine's thread where it may be.
LEMMA PhaseStep == TypeOK /\ Phase /\ [Next]_vars => Phase'
  <1> SUFFICES ASSUME TypeOK, Phase, [Next]_vars
               PROVE  Phase'
    OBVIOUS
  <1> USE DEF core, wire, connection, host, locals, machine, session, promise, table,
              Phase, Breaking, Pausing
  <1>1. CASE Ask \/ Babble \/ Close
    BY <1>1 DEF Ask, Babble, Close
  <1>2. CASE Update
    BY <1>2 DEF Update, ShouldHook, TypeOK
  <1>3. CASE StartVector
    BY <1>3 DEF StartVector, Reach
  <1>4. CASE BeginExec
    BY <1>4 DEF BeginExec
  <1>5. CASE Decide
    BY <1>5 DEF Decide
  <1>6. CASE BeginBreak
    BY <1>6 DEF BeginBreak
  <1>7. CASE SendPause \/ SendReply
    BY <1>7 DEF SendPause, SendReply
  <1>8. CASE ReadRequest
    <2>1. place' \in {"replying", "leaving"} /\ place = "reading" /\ executing' = executing
          /\ hooked' = hooked
      BY <1>8 DEF ReadRequest, Perform, Leave, Stay
    <2>2. QED
      BY <2>1
  <1>9. CASE EndOfInput
    BY <1>9 DEF EndOfInput, Leave
  <1>10. CASE SendLastReply \/ EndBreak
    BY <1>10 DEF SendLastReply, EndBreak
  <1>11. CASE EndHook
    BY <1>11 DEF EndHook
  <1>12. CASE Execute
    BY <1>12 DEF Execute, Reach
  <1>13. CASE UNCHANGED vars
    BY <1>13 DEF vars
  <1>14. QED
    BY <1>1, <1>2, <1>3, <1>4, <1>5, <1>6, <1>7, <1>8, <1>9, <1>10, <1>11, <1>12, <1>13
       DEF Next, Hook

\* Every step keeps the standing command true to the last promise.
LEMMA PledgeStep == TypeOK /\ Phase /\ Pledge /\ [Next]_vars => Pledge'
  <1> SUFFICES ASSUME TypeOK, Phase, Pledge, [Next]_vars
               PROVE  Pledge'
    OBVIOUS
  <1> USE DEF core, host, promise
  <1>1. CASE UNCHANGED <<standing, standingRsp, goal, polled, hooked>>
    BY <1>1 DEF Pledge
  <1>2. CASE Update
    BY <1>2 DEF Update, ShouldHook, Pledge
  <1>3. CASE ReadRequest
    <2>1. Perform(Head(requests).req) /\ hooked' = hooked /\ rsp \in Nat
      BY <1>3, BoundsAssumption DEF ReadRequest, TypeOK
    <2>2. \/ UNCHANGED <<standing, standingRsp, goal, polled, hooked>>
          \/ Pledge'
      BY <2>1, Performed DEF Pledge
    <2>3. QED
      BY <1>1, <2>2
  <1>4. CASE EndOfInput
    BY <1>4 DEF EndOfInput, Leave, Pledge
  <1>5. CASE Ask \/ Babble \/ Close \/ StartVector \/ BeginExec \/ Decide \/ BeginBreak
    BY <1>1, <1>5 DEF Ask, Babble, Close, StartVector, BeginExec, Decide, BeginBreak
  <1>6. CASE SendPause \/ SendReply \/ SendLastReply \/ EndBreak \/ EndHook \/ Execute
    BY <1>1, <1>6 DEF SendPause, SendReply, SendLastReply, EndBreak, EndHook, Execute
  <1>7. CASE UNCHANGED vars
    BY <1>1, <1>7 DEF vars
  <1>8. QED
    BY <1>2, <1>3, <1>4, <1>5, <1>6, <1>7 DEF Next, Hook

\* What the search answers depends on the table, the instruction, and whether
\* it is the first of its vector.
LEMMA MatchSame ==
  ASSUME UNCHANGED <<table, instr, starts>>
  PROVE  /\ Match(instr, starts)' = Match(instr, starts)
         /\ PausesAt(Match(instr, starts))' = PausesAt(Match(instr, starts))
  BY DEF table, Match, Decoded, PausesAt

\* A promise that is kept is not overdue: as long as the standing command asks
\* for no pause, neither a request for one nor the last step is.
LEMMA NothingOverdue ==
  ASSUME TypeOK, Pledge, ~StandingPauses
  PROVE  ~polled /\ ~GoalReached
  BY BoundsAssumption DEF Pledge, StandingPauses, GoalReached, TypeOK

\* Without the hook nothing is overdue, and nothing would be found.
LEMMA Unhooked ==
  ASSUME TypeOK, Phase, Pledge, ~hooked
  PROVE  /\ ~polled /\ brkpMask = {}
         /\ goal.type = "RESUME" \/ (goal.type = "STEP_OUT" /\ goal.rsp = 0)
  <1>1. standing = "EXECUTE" /\ nbrkps = 0
    BY DEF Phase
  <1>2. \A i \in Ids : brkps[i].mask = {}
    BY <1>1, NoIdAssumption DEF TypeOK, TableOK, Ids
  <1>3. brkpMask = {}
    BY <1>2 DEF TypeOK, TableOK
  <1>4. QED
    BY <1>1, <1>3 DEF Pledge

\* The verdict over a break, or an instruction about to run, lasts until then.
LEMMA VerdictSame ==
  ASSUME Verdict, place \in {"leaving", "endBreak", "fetch"},
         place' \in {"endBreak", "fetch", "execute"},
         UNCHANGED <<table, instr, starts, goal, polled, moved, rsp>>
  PROVE  Verdict'
  BY MatchSame DEF Verdict, GoalReached

\* Every step keeps the hook's decisions right.
LEMMA VerdictStep == TypeOK /\ Phase /\ Pledge /\ Verdict /\ [Next]_vars => Verdict'
  <1> SUFFICES ASSUME TypeOK, Phase, Pledge, Verdict, [Next]_vars
               PROVE  Verdict'
    OBVIOUS
  <1> USE DEF core, wire, connection, host, locals, machine, session, promise
  <1>1. CASE UNCHANGED <<place, table, standing, standingRsp, instr, rsp, locals, promise>>
    <2>1. StandingPauses' = StandingPauses /\ GoalReached' = GoalReached
      BY <1>1 DEF StandingPauses, GoalReached
    <2>2. PausesAt(brkpId)' = PausesAt(brkpId)
      BY <1>1 DEF PausesAt, table
    <2>3. QED
      BY <1>1, <2>1, <2>2, MatchSame DEF Verdict
  <1>2. CASE Ask \/ Babble \/ Close
    BY <1>1, <1>2 DEF Ask, Babble, Close
  <1>3. CASE UNCHANGED vars
    BY <1>1, <1>3 DEF vars
  <1>4. CASE Update
    BY <1>4 DEF Update, Verdict
  <1>5. CASE StartVector \/ Execute
    <2>1. UNCHANGED <<table, goal, polled>> /\ rsp' \in Nat
      BY <1>5, BoundsAssumption DEF StartVector, Execute, TypeOK
    <2>2. place' \in {"host", "begin", "match"} \/ (place' = "execute" /\ ~hooked)
      BY <1>5 DEF StartVector, Execute, Reach
    <2>3. CASE place' \in {"host", "begin", "match"}
      BY <2>3 DEF Verdict
    <2>4. CASE place' = "execute" /\ ~hooked
      <3>1. ~polled' /\ ~GoalReached'
        BY <2>1, <2>4, Unhooked DEF GoalReached
      <3>2. Match(instr, starts)' = NoId
        BY <2>1, <2>4, Unhooked DEF Match, table
      <3>3. QED
        BY <2>4, <3>1, <3>2 DEF Verdict, PausesAt
    <2>5. QED
      BY <2>2, <2>3, <2>4
  <1>6. CASE BeginExec \/ SendPause \/ SendReply
    BY <1>6 DEF BeginExec, SendPause, SendReply, Verdict
  <1>7. CASE Decide
    <2>1. /\ brkpId' = Match(instr, starts)
          /\ shouldPause' = (PausesAt(Match(instr, starts)) \/ StandingPauses)
          /\ UNCHANGED <<table, standing, standingRsp, instr, starts, rsp, goal, polled, moved>>
      BY <1>7 DEF Decide
    <2>2. /\ Match(instr, starts)' = Match(instr, starts)
          /\ PausesAt(Match(instr, starts))' = PausesAt(Match(instr, starts))
      BY <2>1, MatchSame
    <2>3. StandingPauses' = StandingPauses /\ GoalReached' = GoalReached
      BY <2>1 DEF StandingPauses, GoalReached
    <2>4. CASE place' = "break"
      <3>1. PausesAt(brkpId)' = PausesAt(Match(instr, starts))
        BY <2>1 DEF PausesAt, table
      <3>2. QED
        BY <2>1, <2>2, <2>3, <2>4, <3>1 DEF Verdict
    <2>5. CASE place' = "fetch" /\ ~shouldPause'
      <3>1. ~PausesAt(Match(instr, starts)) /\ ~polled /\ ~GoalReached
        BY <2>1, <2>5, NothingOverdue
      <3>2. QED
        BY <2>1, <2>2, <2>3, <2>5, <3>1 DEF Verdict
    <2>6. QED
      BY <1>7, <2>4, <2>5 DEF Decide
  <1>8. CASE BeginBreak
    <2>1. UNCHANGED <<table, instr, starts, rsp, goal, polled, moved>>
      BY <1>8 DEF BeginBreak
    <2>2. CASE shouldPause
      BY <1>8, <2>2 DEF BeginBreak, Verdict
    <2>3. CASE ~shouldPause
      <3>1. ~PausesAt(Match(instr, starts)) /\ ~StandingPauses /\ place' = "leaving"
        BY <1>8, <2>3 DEF BeginBreak, Verdict
      <3>2. ~polled /\ ~GoalReached
        BY <3>1, NothingOverdue
      <3>3. ~PausesAt(Match(instr, starts))' /\ ~polled' /\ ~GoalReached'
        BY <2>1, <3>1, <3>2, MatchSame DEF GoalReached
      <3>4. QED
        BY <3>1, <3>3 DEF Verdict
    <2>4. QED
      BY <2>2, <2>3
  <1>9. CASE ReadRequest
    <2>1. place' = "replying" \/ (place' = "leaving" /\ ~polled' /\ ~moved')
      BY <1>9 DEF ReadRequest, Perform, Leave, Stay
    <2>2. QED
      BY <2>1 DEF Verdict
  <1>10. CASE EndOfInput
    BY <1>10 DEF EndOfInput, Leave, Verdict
  <1>11. CASE SendLastReply \/ EndBreak \/ EndHook
    BY <1>11, VerdictSame DEF SendLastReply, EndBreak, EndHook
  <1>12. QED
    BY <1>2, <1>3, <1>4, <1>5, <1>6, <1>7, <1>8, <1>9, <1>10, <1>11 DEF Next, Hook

-----------------------------------------------------------------------------
(***************************************************************************)
(* The messages.                                                           *)
(***************************************************************************)

\* Every step keeps the last message one that fits the place.
LEMMA TalkStep ==
  TypeOK /\ Queue /\ Hangup /\ Phase /\ Talk /\ [Next]_vars => Talk'
  <1> SUFFICES ASSUME TypeOK, Queue, Hangup, Phase, Talk, [Next]_vars
               PROVE  Talk'
    OBVIOUS
  <1> USE DEF core, wire, connection, host, locals, machine, session, promise, Babbled
  <1>1. CASE Ask \/ Babble \/ Close
    BY <1>1 DEF Ask, Babble, Close, Talk
  <1>2. CASE Update
    BY <1>2 DEF Update, Talk
  <1>3. CASE StartVector
    BY <1>3 DEF StartVector, Reach, Talk, Phase
  <1>4. CASE BeginExec
    BY <1>4 DEF BeginExec, Send, Talk, Phase
  <1>5. CASE Decide
    BY <1>5 DEF Decide, Talk, Phase, Breaking
  <1>6. CASE BeginBreak
    BY <1>6 DEF BeginBreak, Send, Talk, Phase, Queue, Breaking
  <1>7. CASE SendPause
    BY <1>7 DEF SendPause, SendOrHangUp, Send, Talk, Phase, Breaking, Pausing
  <1>8. CASE SendReply
    BY <1>8 DEF SendReply, MaybeReply, SendOrHangUp, Send, Talk, Phase, Queue, Breaking, Pausing
  <1>9. CASE ReadRequest
    <2>1. /\ place = "reading" /\ place' \in {"replying", "leaving"} /\ replyDue' = TRUE
          /\ UNCHANGED <<out, executing, said, pauseDue>>
      BY <1>9 DEF ReadRequest, Perform, Leave, Stay
    <2>2. QED
      BY <2>1 DEF Talk, Phase, Breaking, Pausing
  <1>10. CASE EndOfInput
    BY <1>10 DEF EndOfInput, Leave, Talk, Hangup, Phase, Queue, Breaking, Pausing
  <1>11. CASE SendLastReply
    BY <1>11 DEF SendLastReply, MaybeReply, SendOrHangUp, Send, Talk, Queue, Phase, Breaking
  <1>12. CASE EndBreak
    BY <1>12 DEF EndBreak, Send, Talk, Phase, Breaking
  <1>13. CASE EndHook
    BY <1>13 DEF EndHook, Send, Talk, Phase
  <1>14. CASE Execute
    BY <1>14 DEF Execute, Reach, Talk, Phase
  <1>15. CASE UNCHANGED vars
    BY <1>15 DEF vars, Talk
  <1>16. QED
    BY <1>1, <1>2, <1>3, <1>4, <1>5, <1>6, <1>7, <1>8, <1>9, <1>10, <1>11, <1>12,
       <1>13, <1>14, <1>15 DEF Next, Hook

-----------------------------------------------------------------------------
(***************************************************************************)
(* The theorems.                                                           *)
(***************************************************************************)

\* The invariant that all of them rest on.
THEOREM Inductive == Spec => []IInv
  <1>1. Init => IInv
    BY TypeInit, InitOrder DEF IInv
  <1>2. IInv /\ [Next]_vars => IInv'
    BY TypeStep, QueueStep, HangupStep, PhaseStep, PledgeStep, VerdictStep, TalkStep, Zenon
       DEF IInv
  <1>3. QED
    BY <1>1, <1>2, PTL DEF Spec

\* Every variable keeps its type, and the table its summaries, whatever the
\* debugger asks and whenever it leaves.
THEOREM TypeCorrect == Spec => []TypeOK
  BY Inductive, PTL DEF IInv

\* The machine pauses for a reason.
THEOREM PausesAreJustified == Spec => []PauseJustified
  <1>1. IInv => PauseJustified
    <2> SUFFICES ASSUME IInv, place = "break", shouldPause
                 PROVE  PausesAt(brkpId) \/ polled \/ GoalReached
      BY DEF PauseJustified
    <2>1. PausesAt(brkpId) \/ StandingPauses
      BY DEF IInv, Verdict
    <2>2. StandingPauses => polled \/ GoalReached
      BY DEF IInv, Pledge, StandingPauses, GoalReached
    <2>3. QED
      BY <2>1, <2>2
  <1>2. QED
    BY <1>1, Inductive, PTL

\* No instruction runs that the debugger should have seen first.
THEOREM NothingIsRunPast == Spec => []RunsPastNothing
  <1>1. IInv => RunsPastNothing
    BY DEF IInv, Verdict, RunsPastNothing
  <1>2. QED
    BY <1>1, Inductive, PTL

\* A message that is not an answer keeps the order of a session, if it may
\* come after the last one.
LEMMA SaySteps ==
  ASSUME NEW message, NEW after, Send(message), TypeOK, out => said \in after,
         UNCHANGED <<asked, replied, noise, open>>
  PROVE  Session!Say(message, after) \/ UNCHANGED Session!vars
  BY DEF Send, Session!Say, Session!vars

\* So does an answer: it is to the first request not answered yet.
LEMMA ReplySteps ==
  ASSUME IInv, MaybeReply, place \in {"replying", "leaving"}, UNCHANGED <<asked, noise, open>>
  PROVE  Session!Reply("REPLY") \/ Session!Reply("LEAVE") \/ UNCHANGED Session!vars
  <1>1. CASE out' /\ out /\ replyDue
    <2>1. said \in {"PAUSED", "REPLY"}
      BY <1>1 DEF IInv, Talk
    <2>2. replied + 1 = cmd.n /\ cmd.n <= asked
      BY <1>1, BoundsAssumption DEF IInv, TypeOK, Queue, NoCommand
    <2>3. replied' = replied + 1 /\ replied < asked
      BY <1>1, <2>2, BoundsAssumption DEF MaybeReply, IInv, TypeOK
    <2>4. said' \in {"REPLY", "LEAVE"}
      BY <1>1 DEF MaybeReply, SendOrHangUp, Send
    <2>5. QED
      BY <2>1, <2>3, <2>4 DEF Session!Reply
  <1>2. CASE ~(out' /\ out /\ replyDue)
    BY <1>2 DEF MaybeReply, SendOrHangUp, Send, Session!vars
  <1>3. QED
    BY <1>1, <1>2

\* Every step is one of a session, or none.
LEMMA SessionStep == IInv /\ [Next]_vars => [Session!Next]_Session!vars
  <1> SUFFICES ASSUME IInv, [Next]_vars
               PROVE  [Session!Next]_Session!vars
    OBVIOUS
  <1> USE DEF core, wire, connection, host, locals, machine, session, promise
  <1>1. CASE Ask
    BY <1>1 DEF Ask, Session!Next, Session!Ask
  <1>2. CASE Babble \/ Close
    BY <1>2 DEF Babble, Close, Session!Next, Session!Babble, Session!Close
  <1>3. CASE UNCHANGED <<said, asked, replied, noise = "none", open>>
    BY <1>3 DEF Session!vars
  <1>4. CASE Update \/ StartVector \/ Decide \/ ReadRequest \/ EndOfInput \/ Execute
    BY <1>3, <1>4 DEF Update, StartVector, Decide, ReadRequest, EndOfInput, Execute
  <1>5. CASE BeginExec
    <2>1. out => said \in {"END_EXEC"}
      BY <1>5 DEF BeginExec, IInv, Phase, Talk
    <2>2. QED
      BY <1>5, <2>1, SaySteps DEF BeginExec, IInv, Session!Next
  <1>6. CASE BeginBreak
    <2>1. out => said \in {"BEGIN_EXEC", "END_BREAK"}
      BY <1>6 DEF BeginBreak, IInv, Phase, Talk, Breaking
    <2>2. QED
      BY <1>6, <2>1, SaySteps DEF BeginBreak, IInv, Session!Next
  <1>7. CASE SendPause
    <2>1. out => said \in {"BEGIN_BREAK"}
      BY <1>7 DEF SendPause, IInv, Talk
    <2>2. QED
      BY <1>3, <1>7, <2>1, SaySteps DEF SendPause, SendOrHangUp, IInv, Session!Next
  <1>8. CASE SendReply \/ SendLastReply
    BY <1>8, ReplySteps DEF SendReply, SendLastReply, Session!Next
  <1>9. CASE EndBreak
    <2>1. CASE out => said \in {"BEGIN_BREAK", "LEAVE"}
      BY <1>9, <2>1, SaySteps DEF EndBreak, IInv, Session!Next
    <2>2. CASE out /\ said \in {"PAUSED", "REPLY"} /\ (~open \/ Babbled)
      <3>1. ~open \/ (noise # "none" /\ replied = asked)
        <4>1. CASE Babbled
          <5>1. out /\ place = "endBreak" /\ Len(requests) = 0 /\ noise # "none"
            BY <1>9, <2>2, <4>1 DEF EndBreak, Babbled
          <5>2. ~replyDue /\ asked \in Nat
            BY <5>1, BoundsAssumption DEF IInv, TypeOK, Queue
          <5>3. replied = asked
            BY <5>1, <5>2 DEF IInv, Queue
          <5>4. QED
            BY <5>1, <5>3
        <4>2. QED
          BY <2>2, <4>1
      <3>2. Session!Say("END_BREAK", {"PAUSED", "REPLY"}) \/ UNCHANGED Session!vars
        BY <1>9, <2>2, SaySteps DEF EndBreak, IInv
      <3>3. QED
        BY <3>1, <3>2 DEF Session!Next
    <2>3. QED
      BY <1>9, <2>1, <2>2 DEF EndBreak, IInv, Talk
  <1>10. CASE EndHook
    <2>1. out => said \in {"BEGIN_EXEC", "END_BREAK"}
      BY <1>10 DEF EndHook, IInv, Phase, Talk
    <2>2. QED
      BY <1>3, <1>10, <2>1, SaySteps DEF EndHook, IInv, Session!Next
  <1>11. CASE UNCHANGED vars
    BY <1>3, <1>11 DEF vars
  <1>12. QED
    BY <1>1, <1>2, <1>4, <1>5, <1>6, <1>7, <1>8, <1>9, <1>10, <1>11 DEF Next, Hook

\* To the debugger, messages and answers come as DbgSession has them.
THEOREM IsASession == Spec => IsSession
  <1>1. Init => Session!Init
    BY DEF Init, Session!Init
  <1>2. QED
    BY <1>1, SessionStep, Inductive, PTL DEF Spec, IsSession, Session!Spec
=============================================================================
