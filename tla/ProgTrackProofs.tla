---------------------------- MODULE ProgTrackProofs ----------------------------
(***************************************************************************)
(* Proofs, for every number of resets, repeats and power commands that     *)
(* ResetAssumption allows, that the programming track is the channel the   *)
(* ack manager was written for: what AckProofs proves of the manager alone *)
(* holds on the track, and automatic power is given back.                  *)
(***************************************************************************)
EXTENDS ProgTrack, TLAPS

AP == INSTANCE AckProofs

-----------------------------------------------------------------------------
(* The inductive invariant.                                                *)

\* The window: schedulePacket and setAckPending run in WACK, with the window
\* shut and then with the old answer forgotten; an answer in hand is one to the
\* question that is awaited.
Channel ==
  /\ stage \in {"free", "clear", "disarm", "arm"}
  /\ window \in BOOLEAN /\ detected \in BOOLEAN
  /\ stage # "free" => AP!At({"WACK"}) /\ ~window
  /\ stage = "arm" => ~detected
  /\ stage = "free" /\ detected /\ AP!At({"WACK"}) =>
       heard /\ AP!Acknowledges(question, memory)

\* The mailbox and the rails: once a reset is counted nothing else is sent.
Rails ==
  /\ left \in 0..PROG_REPEATS /\ resets \in 0..ResetCap
  /\ mailbox = Nothing \/ mailbox \in [packet : AP!Question, repeats : {PROG_REPEATS}]
  /\ resets > 0 => air = Reset
  /\ NoEarlierQuestionOnRails

\* Power that is on by itself is marked as such.
Supply ==
  /\ powerMode \in {"OFF", "ON", "OVERLOAD"} /\ autoPowerOff \in BOOLEAN
  /\ userPower \in {"OFF", "ON"} /\ commands \in 0..PowerCommands
  /\ ~autoPowerOff => powerMode = "OFF" \/ userPower = "ON"
  /\ ~AP!Running => ~autoPowerOff

ProgInv == AP!AckInv /\ Channel /\ Rails /\ Supply

-----------------------------------------------------------------------------
(* The two instances of the ack manager, the model's and the proofs', are   *)
(* one and the same.                                                       *)

LEMMA SamePrograms ==
  A!Program = AP!Program /\ A!BitPrograms = AP!BitPrograms /\ A!Bytes = AP!Bytes
  /\ A!BitOperand = AP!BitOperand /\ A!CvOperand = AP!CvOperand /\ A!Question = AP!Question
  BY DEF A!Program, AP!Program,
         A!WRITE_BIT0_PROG, AP!WRITE_BIT0_PROG, A!WRITE_BIT1_PROG, AP!WRITE_BIT1_PROG,
         A!WRITE_BYTE_PROG, AP!WRITE_BYTE_PROG, A!READ_BIT_PROG, AP!READ_BIT_PROG,
         A!VERIFY_BIT0_PROG, AP!VERIFY_BIT0_PROG, A!VERIFY_BIT1_PROG, AP!VERIFY_BIT1_PROG,
         A!VERIFY_BYTE_PROG, AP!VERIFY_BYTE_PROG, A!READ_CV_PROG, AP!READ_CV_PROG,
         A!LOCO_ID_PROG, AP!LOCO_ID_PROG, A!BitPrograms, AP!BitPrograms, A!Bytes, AP!Bytes,
         A!BitOperand, AP!BitOperand, A!CvOperand, AP!CvOperand, A!Question, AP!Question

LEMMA SameCalls == AP!LegalCalls /\ AP!LegalMemories
  <1>1. AP!LegalCalls
    BY SamePrograms, ProgCallAssumption DEF A!LegalCalls, AP!LegalCalls
  <1>2. AP!LegalMemories
    BY SamePrograms, ProgMemoryAssumption
    DEF A!LegalMemories, AP!LegalMemories, A!Holds, AP!Holds
  <1> QED
    BY <1>1, <1>2

LEMMA SameState ==
  /\ A!Running <=> AP!Running
  /\ \A names : A!At(names) <=> AP!At(names)
  /\ A!TypeOK <=> AP!TypeOK
  /\ A!Truth = AP!Truth /\ (A!Written <=> AP!Written)
  /\ \A q, cvs : A!Acknowledges(q, cvs) <=> AP!Acknowledges(q, cvs)
  /\ A!Message = AP!Message
  BY SamePrograms
  DEF A!Running, AP!Running, A!At, AP!At, A!opcode, AP!opcode, A!TypeOK, AP!TypeOK,
      A!Truth, AP!Truth, A!Written, AP!Written, A!BitOf, AP!BitOf,
      A!Acknowledges, AP!Acknowledges, A!Message, AP!Message,
      A!BitQuestion, AP!BitQuestion, A!ByteQuestion, AP!ByteQuestion

LEMMA SameActions ==
  /\ A!Init <=> AP!Init
  /\ A!Call <=> AP!Call
  /\ A!Hear <=> AP!Hear
  /\ A!Baseline <=> AP!Baseline
  /\ A!Send <=> AP!Send
  /\ \A answer : A!Receive(answer) <=> AP!Receive(answer)
  /\ A!Internal <=> AP!Internal
  <1> USE SamePrograms
      DEF A!registers, AP!registers, A!callerVars, AP!callerVars, A!decoderVars,
          AP!decoderVars, A!Running, AP!Running, A!At, AP!At, A!opcode, AP!opcode,
          A!Step, AP!Step
  <1>1. A!Init <=> AP!Init
    BY DEF A!Init, AP!Init
  <1>2. A!Call <=> AP!Call
    BY DEF A!Call, AP!Call, A!API, AP!API, A!Reject, AP!Reject,
           A!ackManagerSetup, AP!ackManagerSetup
  <1>3. A!Hear <=> AP!Hear
    BY DEF A!Hear, AP!Hear, A!Executed, AP!Executed, A!WithBit, AP!WithBit,
           A!BitOf, AP!BitOf
  <1>4. A!Baseline <=> AP!Baseline
    BY DEF A!Baseline, AP!Baseline
  <1>5. A!Send <=> AP!Send
    BY SameState DEF A!Send, AP!Send
  <1>6. \A answer : A!Receive(answer) <=> AP!Receive(answer)
    BY SameState DEF A!Receive, AP!Receive
  <1>7. A!Internal <=> AP!Internal
    BY DEF A!Internal, AP!Internal, A!IfTrueCallback, AP!IfTrueCallback,
           A!FailCallback, AP!FailCallback, A!CombineCallback, AP!CombineCallback,
           A!Callback, AP!Callback, A!StartMerge, AP!StartMerge, A!Merge, AP!Merge,
           A!SetBit, AP!SetBit, A!SetCv, AP!SetCv, A!StashLocoId, AP!StashLocoId,
           A!Assign, AP!Assign, A!FallThrough, AP!FallThrough, A!Skip, AP!Skip
  <1> QED
    BY <1>1, <1>2, <1>3, <1>4, <1>5, <1>6, <1>7

LEMMA SameNext == A!Next <=> AP!Next
  <1>1. \A answer : A!Collect(answer) <=> AP!Collect(answer)
    BY SameState, SameActions DEF A!Collect, AP!Collect
  <1> QED
    BY <1>1, SameActions DEF A!Next, AP!Next, A!ackManagerLoop, AP!ackManagerLoop

-----------------------------------------------------------------------------
(* Every step is one of the ack manager's or leaves it alone.              *)

\* The steps of the track and of the power supply.
Elsewhere ==
  \/ AutoPowerOn \/ FinishSend
  \/ \E mode \in {"ON", "OFF"} : UserPower(mode)
  \/ Overload \/ RetryPower \/ PacketPasses \/ Acknowledge \/ CloseWindow

LEMMA Kinds ==
  ASSUME [Next]_vars
  PROVE  \/ Call \/ TakeBaseline \/ SendQuestion \/ CollectAnswer \/ Interpret
         \/ PacketHeard \/ Elsewhere \/ UNCHANGED vars
  BY DEF Next, ackManagerLoop, Elsewhere

LEMMA ElsewhereStutters ==
  ASSUME Elsewhere \/ UNCHANGED vars
  PROVE  UNCHANGED managerVars /\ UNCHANGED AP!ackVars
  <1>1. UNCHANGED managerVars
    BY DEF Elsewhere, AutoPowerOn, FinishSend, UserPower, Overload, RetryPower,
           PacketPasses, Acknowledge, CloseWindow, vars
  <1> QED
    BY <1>1 DEF managerVars, AP!ackVars, AP!registers, AP!callerVars, AP!decoderVars

\* An answer is collected only if it came to the question that is awaited.
LEMMA ManagerSteps ==
  ASSUME Channel, [Next]_vars
  PROVE  [AP!Next]_(AP!ackVars)
  <1>1. CASE Call
    BY <1>1, SameActions DEF Call, AP!Next
  <1>2. CASE TakeBaseline
    BY <1>2, SameActions DEF TakeBaseline, AP!Next, AP!ackManagerLoop
  <1>3. CASE SendQuestion
    BY <1>3, SameActions DEF SendQuestion, AP!Next, AP!ackManagerLoop
  <1>4. CASE CollectAnswer
    <2>1. stage = "free" /\ AP!Receive(detected) /\ detected \in BOOLEAN
      BY <1>4, SameActions DEF CollectAnswer, Channel, Between
    <2>2. AP!At({"WACK"})
      BY <2>1 DEF AP!Receive
    <2>3. AP!Collect(detected)
      BY <2>1, <2>2 DEF AP!Collect, Channel
    <2> QED
      BY <2>1, <2>3 DEF AP!Next, AP!ackManagerLoop
  <1>5. CASE Interpret
    BY <1>5, SameActions DEF Interpret, AP!Next, AP!ackManagerLoop
  <1>6. CASE PacketHeard
    BY <1>6, SameActions DEF PacketHeard, AP!Next
  <1>7. CASE Elsewhere \/ UNCHANGED vars
    BY <1>7, ElsewhereStutters
  <1> QED
    BY <1>1, <1>2, <1>3, <1>4, <1>5, <1>6, <1>7, Kinds

LEMMA ManagerKept ==
  ASSUME AP!AckInv, Channel, [Next]_vars
  PROVE  AP!AckInv'
  BY ManagerSteps, SameCalls, AP!AckInvKept

-----------------------------------------------------------------------------
(* The window.                                                             *)

\* What sending a question does to the manager.
LEMMA Sending ==
  ASSUME AP!AckInv, A!Send
  PROVE  /\ AP!At({"WACK"})' /\ question' = A!Message /\ A!Message \in AP!Question
         /\ heard' = FALSE
  <1>1. /\ AP!Send /\ AP!At(AP!Senders)
    BY SameActions DEF AP!Send, AP!Senders
  <1>2. AP!Message \in AP!Question /\ AP!Message = A!Message
    BY <1>1, AP!MessageIsQuestion, SameState, SameCalls DEF AP!AckInv
  <1>3. /\ AP!Running /\ AP!opcode \in AP!Senders /\ AP!opcode # "FAIL"
        /\ ip' = ip + 1 /\ UNCHANGED ackManagerProg
    BY <1>1 DEF AP!Send, AP!At, AP!Step, AP!Senders
  <1>4. AP!Program[ackManagerProg][ip + 1] = "WACK"
    BY <1>3, AP!Onward, SameCalls DEF AP!AckInv
  <1>5. AP!Running' /\ AP!opcode' = "WACK"
    BY <1>3, <1>4 DEF AP!Running, AP!opcode
  <1> QED
    BY <1>1, <1>2, <1>5 DEF AP!Send, AP!At

\* Nothing of the manager's but sending leads to WACK.
LEMMA Awaiting ==
  ASSUME AP!AckInv, AP!At({"WACK"})',
         \/ A!Call \/ A!Baseline \/ A!Internal
         \/ \E answer \in BOOLEAN : A!Receive(answer)
  PROVE  AP!At({"WACK"}) /\ UNCHANGED <<question, heard, memory>>
  <1> USE SameCalls DEF AP!AckInv
  <1>1. AP!Running' /\ AP!Program[ackManagerProg'][ip'] = "WACK"
    BY DEF AP!At, AP!opcode
  <1>2. CASE A!Call
    <2>1. PICK caller \in Callers, r \in Requests, block \in BOOLEAN :
            AP!API(caller, r, block)
      BY <1>2, SameActions DEF AP!Call
    <2>2. CASE AP!ackManagerSetup(caller, r.cv, r.value, r.program, block)
      <3>1. r.program \in DOMAIN AP!Program
        BY <2>1 DEF AP!LegalCalls
      <3>2. AP!Obeys(r.program, AP!Program[r.program])
        BY <3>1, AP!ProgramsObey
      <3>3. AP!Program[r.program][1] # "WACK"
        BY <3>2 DEF AP!Obeys
      <3> QED
        BY <1>1, <2>2, <3>3 DEF AP!ackManagerSetup
    <2>3. CASE AP!Reject(caller)
      BY <1>1, <2>3 DEF AP!Reject, AP!At, AP!opcode, AP!Running, AP!decoderVars
    <2> QED
      BY <2>1, <2>2, <2>3 DEF AP!API
  <1>3. CASE AP!Running /\ AP!opcode \notin {"FAIL"} \cup AP!Senders
             /\ ip' = ip + 1 /\ UNCHANGED ackManagerProg
    BY <1>1, <1>3, AP!Onward
  <1>4. CASE A!Baseline \/ (\E answer \in BOOLEAN : A!Receive(answer))
    <2>1. AP!Baseline \/ \E answer \in BOOLEAN : AP!Receive(answer)
      BY <1>4, SameActions
    <2> QED
      BY <1>3, <2>1 DEF AP!Baseline, AP!Receive, AP!At, AP!Step, AP!Senders
  <1>5. CASE A!Internal
    <2>1. AP!Leaving \/ AP!Setting \/ AP!FallThrough \/ AP!Skip
      BY <1>5, SameActions DEF AP!Internal, AP!Leaving, AP!Setting
    <2>2. CASE AP!Leaving
      BY <1>1, <2>2, AP!LeavingEnds
    <2>3. CASE AP!Setting \/ AP!FallThrough
      BY <1>3, <2>3, AP!SettingSteps
    <2>4. CASE AP!Skip
      <3>1. UNCHANGED ackManagerProg /\ AP!Running
        BY <2>4, AP!SkipJumps
      <3> QED
        BY <1>1, <2>4, <3>1, AP!SkipJumps, AP!Beyond
    <2> QED
      BY <2>1, <2>2, <2>3, <2>4
  <1> QED
    BY <1>2, <1>4, <1>5

\* Steps that leave the manager alone leave what it waits for alone.
LEMMA AwaitingStill ==
  ASSUME UNCHANGED managerVars
  PROVE  /\ AP!At({"WACK"})' <=> AP!At({"WACK"})
         /\ A!At({"WACK"})' <=> A!At({"WACK"})
         /\ AP!Acknowledges(question, memory)' <=> AP!Acknowledges(question, memory)
         /\ UNCHANGED <<question, heard, memory>>
         /\ AP!Running' <=> AP!Running
  BY DEF managerVars, AP!At, AP!opcode, AP!Running, AP!Acknowledges, AP!BitOf,
         A!At, A!opcode, A!Running

\* The manager's own steps that are not sends.
LEMMA Interpreting ==
  ASSUME Call \/ TakeBaseline \/ CollectAnswer \/ Interpret
  PROVE  /\ stage = "free" /\ UNCHANGED trackVars
         /\ \/ A!Call \/ A!Baseline \/ A!Internal
            \/ \E answer \in {detected} : A!Receive(answer)
  BY DEF Call, TakeBaseline, CollectAnswer, Interpret, Between

LEMMA ChannelKept ==
  ASSUME AP!AckInv, Channel, [Next]_vars
  PROVE  Channel'
  <1> USE DEF Channel
  <1>1. CASE Call \/ TakeBaseline \/ CollectAnswer \/ Interpret
    <2>1. stage = "free" /\ UNCHANGED <<stage, window, detected>>
      BY <1>1, Interpreting DEF trackVars
    <2>2. ASSUME AP!At({"WACK"})'
          PROVE  AP!At({"WACK"}) /\ UNCHANGED <<question, heard, memory>>
      BY <1>1, <2>2, Interpreting, Awaiting
    <2>3. ASSUME UNCHANGED <<question, memory>>
          PROVE  AP!Acknowledges(question, memory)' <=> AP!Acknowledges(question, memory)
      BY <2>3 DEF AP!Acknowledges, AP!BitOf
    <2> QED
      BY <2>1, <2>2, <2>3
  <1>2. CASE SendQuestion
    <2>1. A!Send /\ stage' = "clear" /\ ~window /\ UNCHANGED <<window, detected>>
      BY <1>2 DEF SendQuestion, T!Post
    <2> QED
      BY <2>1, Sending
  <1>3. CASE PacketHeard
    <2>1. UNCHANGED <<stage, window, detected>>
      BY <1>3 DEF PacketHeard, T!PacketEnd, T!Again, T!Take, T!Fill
    <2>2. ~heard /\ (AP!At({"WACK"})' <=> AP!At({"WACK"}))
      BY <1>3, SameActions DEF PacketHeard, AP!Hear, AP!At, AP!opcode, AP!Running
    <2> QED
      BY <2>1, <2>2
  <1>4. CASE Elsewhere \/ UNCHANGED vars
    <2>1. UNCHANGED managerVars
      BY <1>4, ElsewhereStutters
    <2>2. CASE FinishSend
      <3>1. CASE T!Clear
        BY <2>1, <3>1, AwaitingStill DEF T!Clear
      <3>2. CASE T!Forget
        BY <2>1, <3>2, AwaitingStill DEF T!Forget
      <3>3. CASE T!Open
        <4>1. stage' = "free" /\ window' = TRUE /\ ~detected' /\ detected' \in BOOLEAN
          BY <3>3 DEF T!Open
        <4> QED
          BY <4>1
      <3> QED
        BY <2>2, <3>1, <3>2, <3>3 DEF FinishSend
    <2>3. CASE Acknowledge
      BY <2>1, <2>3, AwaitingStill, SameState DEF Acknowledge, T!Answer
    <2>4. CASE CloseWindow
      BY <2>1, <2>4, AwaitingStill DEF CloseWindow, T!CloseWindow
    <2>5. CASE \/ AutoPowerOn \/ (\E mode \in {"ON", "OFF"} : UserPower(mode))
               \/ Overload \/ RetryPower \/ PacketPasses \/ UNCHANGED vars
      <3>1. UNCHANGED <<stage, window, detected>>
        BY <2>5 DEF AutoPowerOn, T!Restart, UserPower, Overload, RetryPower, PacketPasses,
           T!PacketEnd, T!Again, T!Take, T!Fill, vars, trackVars
      <3> QED
        BY <2>1, <3>1, AwaitingStill
    <2> QED
      BY <1>4, <2>2, <2>3, <2>4, <2>5 DEF Elsewhere
  <1> QED
    BY <1>1, <1>2, <1>3, <1>4, Kinds

-----------------------------------------------------------------------------
(* The rails.                                                              *)

\* The end of a packet, heard or not, with its question awaited or not.
LEMMA PacketEndKept ==
  ASSUME Rails, T!PacketEnd, UNCHANGED question,
         A!At({"WACK"})' <=> A!At({"WACK"})
  PROVE  Rails'
  <1> USE ResetAssumption DEF Rails, NoEarlierQuestionOnRails
  <1>1. CASE T!Again
    BY <1>1 DEF T!Again
  <1>2. CASE T!Take
    <2>1. mailbox \in [packet : AP!Question, repeats : {PROG_REPEATS}]
      BY <1>2 DEF T!Take
    <2>2. left' = PROG_REPEATS /\ resets' = 0 /\ mailbox' = Nothing
          /\ air' = mailbox.packet
      BY <1>2, <2>1 DEF T!Take
    <2>3. A!At({"WACK"}) => air' = question
      BY <1>2, <2>2 DEF T!Take
    <2> QED
      BY <2>2, <2>3
  <1>3. CASE T!Fill
    BY <1>3 DEF T!Fill
  <1> QED
    BY <1>1, <1>2, <1>3 DEF T!PacketEnd

LEMMA RailsKept ==
  ASSUME AP!AckInv, Channel, Rails, [Next]_vars
  PROVE  Rails'
  <1> USE ResetAssumption DEF Rails, NoEarlierQuestionOnRails
  <1>1. CASE Call \/ TakeBaseline \/ CollectAnswer \/ Interpret
    <2>1. UNCHANGED <<mailbox, air, left, resets>>
      BY <1>1, Interpreting DEF trackVars
    <2>2. ASSUME A!At({"WACK"})' PROVE A!At({"WACK"}) /\ UNCHANGED question
      <3>1. AP!At({"WACK"})'
        BY <2>2, SamePrograms DEF A!At, AP!At, A!opcode, AP!opcode, A!Running, AP!Running
      <3>2. \/ A!Call \/ A!Baseline \/ A!Internal
            \/ \E answer \in BOOLEAN : A!Receive(answer)
        BY <1>1, Interpreting DEF Channel
      <3>3. AP!At({"WACK"}) /\ UNCHANGED question
        BY <3>1, <3>2, Awaiting
      <3> QED
        BY <3>3, SameState
    <2> QED
      BY <2>1, <2>2
  <1>2. CASE SendQuestion
    <2>1. A!Send /\ UNCHANGED <<air, left, resets>> /\ resets >= RESET_MIN
          /\ mailbox' = [packet |-> A!Message, repeats |-> PROG_REPEATS]
      BY <1>2 DEF SendQuestion, T!Post
    <2>2. air = Reset
      BY <2>1
    <2>3. question' = A!Message /\ A!Message \in AP!Question
      BY <2>1, Sending
    <2> QED
      BY <2>1, <2>2, <2>3
  <1>3. CASE PacketHeard
    <2>1. UNCHANGED question /\ (A!At({"WACK"})' <=> A!At({"WACK"}))
      BY <1>3 DEF PacketHeard, A!Hear, A!At, A!opcode, A!Running
    <2> QED
      BY <1>3, <2>1, PacketEndKept DEF PacketHeard
  <1>4. CASE Elsewhere \/ UNCHANGED vars
    <2>1. UNCHANGED question /\ (A!At({"WACK"})' <=> A!At({"WACK"}))
      BY <1>4, ElsewhereStutters, AwaitingStill
    <2>2. CASE PacketPasses
      BY <2>1, <2>2, PacketEndKept DEF PacketPasses
    <2>3. CASE FinishSend \/ AutoPowerOn
      <3>1. UNCHANGED <<mailbox, air, left>> /\ resets' \in {0, resets}
        BY <2>3 DEF FinishSend, AutoPowerOn, T!Clear, T!Forget, T!Open, T!Restart
      <3> QED
        BY <2>1, <3>1
    <2>4. CASE Acknowledge
      BY <2>1, <2>4 DEF Acknowledge, T!Answer
    <2>5. CASE \/ (\E mode \in {"ON", "OFF"} : UserPower(mode))
               \/ Overload \/ RetryPower \/ CloseWindow \/ UNCHANGED vars
      <3>1. UNCHANGED <<mailbox, air, left, resets>>
        BY <2>5 DEF UserPower, Overload, RetryPower, CloseWindow, T!CloseWindow, vars,
           trackVars
      <3> QED
        BY <2>1, <3>1
    <2> QED
      BY <1>4, <2>2, <2>3, <2>4, <2>5 DEF Elsewhere
  <1> QED
    BY <1>1, <1>2, <1>3, <1>4, Kinds

-----------------------------------------------------------------------------
(* The power supply.                                                       *)

LEMMA SupplyKept ==
  ASSUME Supply, [Next]_vars
  PROVE  Supply'
  <1> USE ResetAssumption DEF Supply, AP!Running
  <1>1. CASE Call
    <2>1. AP!Call
      BY <1>1, SameActions DEF Call
    <2>2. AP!Running => AP!Running'
      <3>1. "NULL" \notin DOMAIN AP!Program
        BY AP!Programs, SameCalls
      <3> QED
        BY <2>1, <3>1, SameCalls
        DEF AP!Call, AP!API, AP!ackManagerSetup, AP!Reject, AP!LegalCalls
    <2> QED
      BY <1>1, <2>2 DEF Call, powerVars
  <1>2. CASE TakeBaseline \/ SendQuestion \/ CollectAnswer \/ PacketHeard
    <2>1. UNCHANGED <<ackManagerProg, powerVars>>
      BY <1>2 DEF TakeBaseline, SendQuestion, CollectAnswer, PacketHeard,
                  A!Baseline, A!Send, A!Receive, A!Hear, A!Step
    <2> QED
      BY <2>1 DEF powerVars
  <1>3. CASE Interpret
    <2>1. UNCHANGED <<userPower, commands>>
      BY <1>3 DEF Interpret
    <2>2. CASE A!Completes
      BY <1>3, <2>1, <2>2 DEF Interpret, doAutoPowerOff
    <2>3. CASE ~A!Completes
      <3>1. UNCHANGED <<powerMode, autoPowerOff>>
        BY <1>3, <2>3 DEF Interpret
      <3>2. AP!Running => AP!Running'
        BY <2>3 DEF A!Completes, A!Running
      <3> QED
        BY <2>1, <3>1, <3>2
    <2> QED
      BY <2>2, <2>3
  <1>4. CASE Elsewhere \/ UNCHANGED vars
    <2>1. UNCHANGED ackManagerProg
      BY <1>4, ElsewhereStutters DEF managerVars
    <2>2. CASE AutoPowerOn
      BY <2>1, <2>2 DEF AutoPowerOn, A!At, A!Running
    <2>3. ASSUME NEW mode \in {"ON", "OFF"}, UserPower(mode) PROVE Supply'
      BY <2>1, <2>3 DEF UserPower, LoopRuns
    <2>4. CASE Overload
      BY <2>1, <2>4 DEF Overload, LoopRuns
    <2>5. CASE RetryPower
      BY <2>1, <2>5 DEF RetryPower
    <2>6. CASE FinishSend \/ PacketPasses \/ Acknowledge \/ CloseWindow \/ UNCHANGED vars
      BY <2>1, <2>6
      DEF FinishSend, PacketPasses, Acknowledge, CloseWindow, powerVars, vars
    <2> QED
      BY <1>4, <2>2, <2>3, <2>4, <2>5, <2>6 DEF Elsewhere
  <1> QED
    BY <1>1, <1>2, <1>3, <1>4, Kinds

-----------------------------------------------------------------------------
(* The theorems.                                                           *)

LEMMA InitProgInv == ASSUME Init PROVE ProgInv
  <1>1. AP!Init
    BY SameActions DEF Init
  <1>2. AP!AckInv
    BY <1>1, AP!InitAckInv, SameCalls
  <1>3. ~AP!Running /\ ~A!At({"WACK"}) /\ ~AP!At({"WACK"})
    BY <1>1 DEF AP!Init, AP!Running, AP!At, A!At, A!Running
  <1>4. Channel
    BY <1>3 DEF Init, T!Init, Channel
  <1>5. Rails
    BY <1>3, ResetAssumption DEF Init, T!Init, Rails, NoEarlierQuestionOnRails
  <1>6. Supply
    <2>1. powerMode = "OFF" /\ autoPowerOff \in BOOLEAN /\ ~autoPowerOff
          /\ userPower = "OFF" /\ commands = 0
      BY DEF Init
    <2> QED
      BY <1>3, <2>1, ResetAssumption DEF Supply
  <1> QED
    BY <1>2, <1>4, <1>5, <1>6 DEF ProgInv

THEOREM ProgInvariant == Spec => []ProgInv
  <1>1. ProgInv /\ [Next]_vars => ProgInv'
    BY ManagerKept, ChannelKept, RailsKept, SupplyKept DEF ProgInv
  <1> QED
    BY <1>1, InitProgInv, PTL DEF Spec

\* Every variable of the track, the manager on it and its supply keeps its range,
\* for every number of repeats and of resets.
THEOREM TrackTyped == Spec => []TypeOK
  <1>1. ProgInv => TypeOK
    BY SameState
    DEF ProgInv, AP!AckInv, AP!Typed, Channel, Rails, Supply, TypeOK
  <1> QED
    BY <1>1, ProgInvariant, PTL

\* While an answer is awaited nothing but its own question and resets is on the
\* rails or in the mailbox, whatever operation replaced which.
THEOREM OneQuestionAtATime == Spec => []NoEarlierQuestionOnRails
  <1>1. ProgInv => NoEarlierQuestionOnRails
    BY DEF ProgInv, Rails
  <1> QED
    BY <1>1, ProgInvariant, PTL

\* Every way out of an operation gives back the power that BASELINE switched on.
THEOREM PowerGivenBack == Spec => []NoPowerLeftOn
  <1>1. ProgInv => NoPowerLeftOn
    BY SameState DEF ProgInv, Supply, NoPowerLeftOn
  <1> QED
    BY <1>1, ProgInvariant, PTL

\* Mailbox, window and reset counter make the track the channel for one question
\* at a time that the ack manager takes it for: no answer is collected that did
\* not come to the question it waits for.
THEOREM TrackIsChannel == Spec => ImplementsAckManager
  <1>1. Init => A!Init
    BY DEF Init
  <1>2. ProgInv /\ [Next]_vars => [A!Next]_(A!ackVars)
    <2>1. SUFFICES ASSUME ProgInv, [Next]_vars PROVE [A!Next]_(A!ackVars)
      OBVIOUS
    <2>2. AP!Next \/ UNCHANGED AP!ackVars
      BY <2>1, ManagerSteps DEF ProgInv
    <2>3. UNCHANGED AP!ackVars => UNCHANGED A!ackVars
      BY DEF A!ackVars, AP!ackVars, A!registers, AP!registers, A!callerVars,
             AP!callerVars, A!decoderVars, AP!decoderVars
    <2> QED
      BY <2>2, <2>3, SameNext
  <1> QED
    BY <1>1, <1>2, ProgInvariant, PTL DEF Spec, ImplementsAckManager, A!Spec

\* Hence on the real track, with its timeouts and its power, results are the
\* truth or -1: what is proved of the manager carries over.
THEOREM TrackResultsAreTrue == Spec => ResultIsTrueOrFailure
  <1>1. ProgInv /\ [Next]_vars =>
          [A!Completes =>
             called'.value = -1 \/ (called'.value = A!Truth /\ A!Written)]_(A!ackVars)
    <2>1. SUFFICES ASSUME ProgInv, [Next]_vars, A!Completes
                   PROVE called'.value = -1 \/ (called'.value = A!Truth /\ A!Written)
      OBVIOUS
    <2>2. [AP!Next]_(AP!ackVars) /\ AP!AckInv
      BY <2>1, ManagerSteps DEF ProgInv
    <2>3. AP!Completes
      BY <2>1 DEF A!Completes, AP!Completes, A!Running, AP!Running
    <2> QED
      BY <2>2, <2>3, AP!CompletesTruly, SameCalls, SameState
  <1> QED
    BY <1>1, ProgInvariant, PTL DEF Spec, ResultIsTrueOrFailure, A!ResultIsTrueOrFailure
=============================================================================
