------------------------------ MODULE ProgTrack ------------------------------
(***************************************************************************)
(* The programming track: the ack manager, run step by step by the main    *)
(* loop, on the real track (TrackPackets), which the interrupt drives at   *)
(* its own pace, and under a power supply that the user, the overload      *)
(* protection and the ack manager itself switch.                           *)
(***************************************************************************)
EXTENDS Integers, Sequences

CONSTANTS
  Callers, Requests, Memories, NoQuestion,  \* as in AckManager
  Reset,             \* the reset packet
  Nothing,           \* an empty mailbox, a track that has sent nothing
  PROG_REPEATS,
  RESET_MIN,         \* resets before a question
  BaselineResets,    \* resets before the baseline is taken (3)
  PowerUpResets,     \* the same after switching the track on (20)
  WindowResets,      \* resets that close the window (6)
  ResetCap,          \* saturation of the reset counter (250)
  PowerCommands      \* bound: power commands of the user, overloads

ASSUME ResetAssumption ==
  /\ {PROG_REPEATS, RESET_MIN, WindowResets, ResetCap, PowerCommands} \subseteq Nat
  /\ WindowResets < RESET_MIN /\ BaselineResets <= ResetCap
  /\ RESET_MIN <= ResetCap /\ PowerUpResets <= ResetCap

VARIABLES
  ackManagerProg, ip, ackManagerCv, ackManagerByte, ackManagerBitNum,
  ackManagerStash, ackReceived, ackManagerCallback, blocking, waiting, called,
  asked, question, heard, memory, lost,     \* as in AckManager
  mailbox, air, left, resets, window, detected, stage,  \* as in TrackPackets
  powerMode, autoPowerOff,
  userPower,         \* what the user last asked for
  commands           \* power commands and overloads so far

A == INSTANCE AckProperties

T == INSTANCE TrackPackets WITH
  mainTrack <- FALSE, Sendable <- {}, RepeatCounts <- {PROG_REPEATS},
  FillerOnAir <- Reset, CountCap <- ResetCap, CallResets <- RESET_MIN

ASSUME ProgCallAssumption == A!LegalCalls
ASSUME ProgMemoryAssumption == A!LegalMemories

managerVars ==
  <<ackManagerProg, ip, ackManagerCv, ackManagerByte, ackManagerBitNum,
    ackManagerStash, ackReceived, ackManagerCallback, blocking, waiting, called,
    asked, question, heard, memory, lost>>
trackVars == <<mailbox, air, left, resets, window, detected, stage>>
powerVars == <<powerMode, autoPowerOff, userPower, commands>>
vars == <<managerVars, trackVars, powerVars>>

Init ==
  /\ A!Init /\ T!Init
  /\ powerMode = "OFF" /\ autoPowerOff = FALSE
  /\ userPower = "OFF" /\ commands = 0

-----------------------------------------------------------------------------
(* The main loop runs one of these at a time; it is not elsewhere while it *)
(* is inside schedulePacket or setAckPending (stage).                      *)

Between == stage = "free"

Call == Between /\ A!Call /\ UNCHANGED <<trackVars, powerVars>>

\* BASELINE on a track that is off: switch it on and count resets afresh.
AutoPowerOn ==
  /\ Between /\ A!At({"BASELINE"}) /\ powerMode = "OFF"
  /\ powerMode' = "ON" /\ autoPowerOff' = TRUE
  /\ T!Restart
  /\ UNCHANGED <<managerVars, userPower, commands>>

TakeBaseline ==
  /\ Between /\ powerMode # "OFF"
  /\ resets >= (IF autoPowerOff THEN PowerUpResets ELSE BaselineResets)
  /\ A!Baseline
  /\ UNCHANGED <<trackVars, powerVars>>

\* Seeded fault: no checkResets before the packet.
SendAtOnce ==
  /\ Between /\ mailbox = Nothing /\ ~window
  /\ A!Send
  /\ mailbox' = [packet |-> A!Message, repeats |-> PROG_REPEATS]
  /\ stage' = "clear"
  /\ UNCHANGED <<air, left, resets, window, detected, powerVars>>

\* schedulePacket puts the question into the mailbox; clearing the reset
\* count and opening the window follow as steps of their own.
SendQuestion ==
  /\ A!Send
  /\ T!Post(A!Message, PROG_REPEATS)
  /\ UNCHANGED powerVars

\* Seeded fault: setAckPending does not clear ackDetected.
FinishWithOldAnswer ==
  /\ \/ T!Clear \/ T!Open
     \/ /\ stage = "disarm" /\ stage' = "arm"
        /\ UNCHANGED <<mailbox, air, left, resets, window, detected>>
  /\ UNCHANGED <<managerVars, powerVars>>

FinishSend ==
  /\ T!Clear \/ T!Forget \/ T!Open
  /\ UNCHANGED <<managerVars, powerVars>>

\* getAck is 2 while the window is open.
CollectAnswer ==
  /\ Between /\ ~window
  /\ A!Receive(detected)
  /\ UNCHANGED <<trackVars, powerVars>>

\* Seeded fault: the flag is cleared and the power left on.
forgetAutoPower == autoPowerOff' = FALSE /\ UNCHANGED powerMode

\* callback() switches off what BASELINE switched on.
doAutoPowerOff ==
  /\ powerMode' = IF autoPowerOff THEN "OFF" ELSE powerMode
  /\ autoPowerOff' = FALSE

Interpret ==
  /\ Between /\ A!Internal
  /\ IF A!Completes THEN doAutoPowerOff ELSE UNCHANGED <<powerMode, autoPowerOff>>
  /\ UNCHANGED <<trackVars, userPower, commands>>

ackManagerLoop ==
  AutoPowerOn \/ TakeBaseline \/ SendQuestion \/ CollectAnswer \/ Interpret

-----------------------------------------------------------------------------
(* Power.  A blocking operation keeps the main loop from all of this.      *)

LoopRuns == Between /\ ~(A!Running /\ blocking) /\ commands < PowerCommands

UserPower(mode) ==
  /\ LoopRuns
  /\ powerMode' = mode /\ userPower' = mode
  /\ commands' = commands + 1
  /\ UNCHANGED <<managerVars, trackVars, autoPowerOff>>

\* checkPowerOverload trips, and later tries again.
Overload ==
  /\ LoopRuns /\ powerMode = "ON"
  /\ powerMode' = "OVERLOAD" /\ commands' = commands + 1
  /\ UNCHANGED <<managerVars, trackVars, autoPowerOff, userPower>>

RetryPower ==
  /\ Between /\ ~(A!Running /\ blocking) /\ powerMode = "OVERLOAD"
  /\ powerMode' = "ON"
  /\ UNCHANGED <<managerVars, trackVars, autoPowerOff, userPower, commands>>

-----------------------------------------------------------------------------
(* The interrupt and the decoder, which listens while it has power.        *)

Powered == powerMode = "ON"

\* A copy of the question ends unheard, or something else ends.
PacketPasses == T!PacketEnd /\ UNCHANGED <<managerVars, powerVars>>

PacketHeard ==
  /\ Powered /\ air # Nothing /\ air = question
  /\ T!PacketEnd /\ A!Hear
  /\ UNCHANGED powerVars

Acknowledge ==
  /\ Powered /\ heard /\ A!Acknowledges(question, memory)
  /\ T!Answer
  /\ UNCHANGED <<managerVars, powerVars>>

\* Seeded fault: the window is not looked at while the power is off.
CloseWindowPowered == Powered /\ T!CloseWindow /\ UNCHANGED <<managerVars, powerVars>>

CloseWindow == T!CloseWindow /\ UNCHANGED <<managerVars, powerVars>>

Next ==
  \/ Call \/ ackManagerLoop \/ FinishSend
  \/ \E mode \in {"ON", "OFF"} : UserPower(mode)
  \/ Overload \/ RetryPower
  \/ PacketPasses \/ PacketHeard \/ Acknowledge \/ CloseWindow

Spec == Init /\ [][Next]_vars

\* The interrupt goes on, and so does the main loop, whatever the power does.
Fairness ==
  /\ WF_vars(PacketPasses \/ PacketHeard) /\ WF_vars(CloseWindow)
  /\ WF_vars(FinishSend) /\ WF_vars(ackManagerLoop)

FairSpec == Spec /\ Fairness

-----------------------------------------------------------------------------
(* Properties.                                                             *)

\* Every variable keeps its range.
TypeOK ==
  /\ A!TypeOK
  /\ left \in 0..PROG_REPEATS /\ resets \in 0..ResetCap
  /\ window \in BOOLEAN /\ detected \in BOOLEAN
  /\ stage \in {"free", "clear", "disarm", "arm"}
  /\ powerMode \in {"OFF", "ON", "OVERLOAD"} /\ autoPowerOff \in BOOLEAN
  /\ userPower \in {"OFF", "ON"} /\ commands \in 0..PowerCommands

\* While an answer is awaited nothing but its own question and resets is on
\* the rails or about to be: an acknowledgement can be to no earlier packet,
\* even when one operation replaces another (checkResets before every packet).
NoEarlierQuestionOnRails ==
  A!At({"WACK"}) =>
    /\ mailbox \in {Nothing, [packet |-> question, repeats |-> PROG_REPEATS]}
    /\ air \in {Nothing, Reset, question}

\* When no operation runs, the track is on only because the user asked for it
\* (callback and doAutoPowerOff undo what BASELINE did, on every way out).
NoPowerLeftOn ==
  ~A!Running => ~autoPowerOff /\ (powerMode = "OFF" \/ userPower = "ON")

\* On the real track, with its timeouts and its power, results are still the
\* truth or -1.
ResultIsTrueOrFailure == A!ResultIsTrueOrFailure

\* The track, window and reset counter give the ack manager the channel for
\* one question at a time that it was written for.
ImplementsAckManager == A!Spec

\* An operation comes to its end, whatever answers are lost and whatever the
\* power does, as long as the main loop and the interrupt go on: unless callers
\* replace it again and again, the ack manager falls idle.
EveryOperationEnds == []<><<Call>>_vars \/ []<>(~A!Running)
=============================================================================
