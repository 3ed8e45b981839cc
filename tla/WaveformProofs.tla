---------------------------- MODULE WaveformProofs ----------------------------
(***************************************************************************)
(* Proofs, for every byte width, packet size, set of callers and pair of   *)
(* tracks, of the safety of the hand-off between the main loop and the     *)
(* interrupt and of the shape of the signal; that a track is the           *)
(* packet-level track, and what a decoder hears of it.                     *)
(***************************************************************************)
EXTENDS WaveformProperties, FiniteSetTheorems, SequenceTheorems, TLAPS

\* The halves of the current bit so far are those of the interrupt's state.
HalvesOfState ==
  /\ state = 0 => \/ halves = <<0, 0>>
                  \/ halves = IF currentBit THEN <<1, 1>> ELSE <<2, 2>>
  /\ state = 1 => halves = <<1, 0>>
  /\ state = 2 => halves = <<2, 0>> /\ ~currentBit
  /\ state = 3 => halves = <<2, 1>> /\ ~currentBit

ShapeInv == TypeOK /\ HalvesOfState

USE TrackAssumption, CallerAssumption, AckAssumption

-----------------------------------------------------------------------------
(* Bytes and arrays.                                                       *)

LEMMA ByteConstants == AllOnes \in Byte /\ AllZeros \in Byte
  BY DEF Byte, AllOnes, AllZeros

LEMMA XorIsByte == ASSUME NEW x \in Byte, NEW y \in Byte PROVE Xor(x, y) \in Byte
  BY DEF Byte, Xor

LEMMA FillerBytes == \A k \in 1..3 : Filler[k] \in Byte /\ idlePacket[k] \in Byte
  BY ByteConstants DEF Filler, idlePacket, resetPacket

LEMMA OverlayIsArray ==
  ASSUME NEW packet, \A k \in 1..3 : packet[k] \in Byte, NEW array \in Array
  PROVE  Overlay(packet, array) \in Array
  BY DEF Overlay, Array, Slots

-----------------------------------------------------------------------------
(* Type correctness, and the halves of a bit.                              *)

LEMMA InitShape == Init => ShapeInv
  <1> SUFFICES ASSUME Init PROVE ShapeInv
    OBVIOUS
  <1>1. [s \in Slots |-> AllZeros] \in Array
    BY ByteConstants DEF Array
  <1>2. Overlay(idlePacket, [s \in Slots |-> AllZeros]) \in Array
    BY <1>1, OverlayIsArray, FillerBytes
  <1>3. TypeOK
    <2>1. buffer \in Seq(Byte) /\ Len(buffer) = 0
      BY DEF Init
    <2>2. halves \in (0..2) \X (0..2)
      BY DEF Init
    <2>3. 0 \in 0..(2 * PulseWrap)
      OBVIOUS
    <2> QED
    BY <1>1, <1>2, <2>1, <2>2, <2>3, ByteConstants
    DEF Init, TypeOK, Labels, InSchedulePacket, requiredPreambles, Slots
  <1>4. HalvesOfState
    BY DEF Init, HalvesOfState
  <1> QED BY <1>3, <1>4 DEF ShapeInv

LEMMA MaskedBitIsBoolean == ASSUME TypeOK PROVE MaskedBit \in BOOLEAN
  <1>1. CASE bits_sent = 0
    BY <1>1 DEF MaskedBit
  <1>2. CASE bits_sent # 0
    <2>1. bits_sent \in 1..ByteBits
      BY <1>2 DEF TypeOK
    <2>2. transmitPacket[bytes_sent] \in Byte
      BY DEF TypeOK, Array
    <2> QED
      BY <1>2, <2>1, <2>2 DEF MaskedBit, Byte
  <1> QED
    BY <1>1, <1>2

\* The interrupt that starts a bit.
LEMMA BitStartShape ==
  ASSUME ShapeInv, BitStart, UNCHANGED mainVars PROVE ShapeInv'
  <1> USE DEF ShapeInv
  <1>1. HalvesOfState'
    BY DEF BitStart, HalvesOfState, TypeOK
  <1>2. /\ state' \in 0..3 /\ halves' \in (0..2) \X (0..2)
        /\ ackPulse' \in 0..(2 * PulseWrap)
        /\ ackPending' \in BOOLEAN /\ ackDetected' \in BOOLEAN
    BY DEF BitStart, TypeOK, Older
  <1>3. /\ pc' \in Labels /\ buffer' \in Seq(Byte)
        /\ Len(buffer') < MAX_PACKET_SIZE /\ repeats' \in Nat
        /\ b' \in 0..Len(buffer') /\ checksum' \in Byte
        /\ pendingPacket' \in Array /\ pendingLength' \in 0..MAX_PACKET_SIZE
        /\ pendingRepeats' \in Nat
    BY DEF TypeOK, mainVars, callVars, pendVars
  <1>4. CASE SendPreamble
    BY <1>1, <1>2, <1>3, <1>4
    DEF SendPreamble, TypeOK, sendVars, requiredPreambles
  <1>5. MaskedBit \in BOOLEAN
    BY MaskedBitIsBoolean
  <1>6. CASE SendBit
    <2>1. bits_sent' \in 0..ByteBits
      BY <1>6 DEF SendBit, LastBitOfByte, TypeOK
    <2>2. bytes_sent' \in Slots
      BY <1>6 DEF SendBit, LastBitOfPacket, LastBitOfByte, TypeOK, Slots
    <2> QED
      BY <1>1, <1>2, <1>3, <1>5, <1>6, <2>1, <2>2 DEF SendBit, TypeOK, sendVars
  <1>7. CASE EndPacket
    <2>1. /\ bits_sent' \in 0..ByteBits /\ bytes_sent' \in Slots
          /\ remainingPreambles' \in 0..requiredPreambles
          /\ currentBit' \in BOOLEAN
      BY <1>5, <1>7 DEF EndPacket, Slots, requiredPreambles
    <2>2. CASE Repeat
      BY <1>1, <1>2, <1>3, <2>1, <2>2 DEF Repeat, TypeOK
    <2>3. CASE TakePending
      <3>1. transmitPacket' \in Array
        BY <2>3 DEF TakePending, TypeOK, Array
      <3>2. /\ transmitLength' \in 0..MAX_PACKET_SIZE /\ transmitRepeats' \in Nat
            /\ sentResetsSincePacket' \in 0..ResetCap
        BY <2>3 DEF TakePending, TypeOK
      <3>3. packetPending' \in BOOLEAN
        BY <2>3, Zenon DEF TakePending
      <3> QED
        BY <1>1, <1>2, <1>3, <2>1, <3>1, <3>2, <3>3 DEF TypeOK
    <2>4. CASE SendFiller
      <3>1. transmitPacket' \in Array
        BY <2>4, OverlayIsArray, FillerBytes DEF SendFiller, TypeOK
      <3>2. sentResetsSincePacket' \in 0..ResetCap
        BY <2>4 DEF SendFiller, TypeOK, Smaller
      <3> QED
        BY <1>1, <1>2, <1>3, <2>1, <2>4, <3>1, <3>2 DEF SendFiller, TypeOK
    <2> QED
      BY <1>7, <2>2, <2>3, <2>4 DEF EndPacket
  <1> QED
    BY <1>4, <1>6, <1>7 DEF BitStart

\* The other interrupts: the signal, and the acknowledgement.
LEMMA BitRestShape ==
  ASSUME ShapeInv, BitRest, UNCHANGED mainVars PROVE ShapeInv'
  <1> USE DEF ShapeInv
  <1>1. state' \in 0..3 /\ halves' \in (0..2) \X (0..2) /\ HalvesOfState'
    <2>1. currentBit' = currentBit
      BY DEF BitRest, bitVars
    <2> QED
      BY <2>1 DEF BitRest, Wave, High, Low, HalvesOfState, TypeOK
  <1>2. /\ ackPending' \in BOOLEAN /\ ackDetected' \in BOOLEAN
        /\ ackPulse' \in 0..(2 * PulseWrap) /\ transmitRepeats' \in Nat
    <2>1. CASE ackPending /\ checkAck
      <3>1. Older(ackPulse) \in 0..(2 * PulseWrap)
        BY DEF Older, TypeOK
      <3>2. 0 \in 0..(2 * PulseWrap) /\ 1 \in 0..(2 * PulseWrap)
        OBVIOUS
      <3>3. CASE AckTimeout
        BY <3>3 DEF AckTimeout, TypeOK
      <3>4. CASE InPulse
        BY <3>1, <3>2, <3>4 DEF InPulse, TypeOK
      <3>5. CASE NoPulse
        BY <3>5 DEF NoPulse, TypeOK, ackVars
      <3>6. CASE GoodPulse
        BY <3>1, <3>6 DEF GoodPulse, TypeOK
      <3>7. CASE BadPulse
        BY <3>2, <3>7 DEF BadPulse, TypeOK
      <3> QED
        BY <2>1, <3>3, <3>4, <3>5, <3>6, <3>7 DEF checkAck
    <2>2. CASE UNCHANGED <<ackVars, transmitRepeats>>
      BY <2>2 DEF TypeOK, ackVars
    <2> QED
      BY <2>1, <2>2 DEF BitRest
  <1> QED
    BY <1>1, <1>2
    DEF BitRest, TypeOK, bitVars, mainVars, callVars, pendVars

LEMMA MainShape ==
  ASSUME ShapeInv, Call \/ InSchedule \/ RestartResets PROVE ShapeInv'
  <1> USE DEF ShapeInv
  <1> DEFINE IsrUnchanged == UNCHANGED isrVars /\ UNCHANGED ackVars
  <1>1. ASSUME UNCHANGED isrVars PROVE HalvesOfState'
    BY <1>1 DEF isrVars, bitVars, HalvesOfState
  <1>2. CASE Call
    <2>1. PICK buf \in Buffers, reps \in Repeats : schedulePacket(buf, reps)
      BY <1>2 DEF Call
    <2>2. buf \in Seq(Byte) /\ reps \in Nat /\ Len(buf) \in Nat
      BY <2>1
    <2> QED
      BY <1>1, <2>1, <2>2, ByteConstants
      DEF schedulePacket, Goto, TypeOK, isrVars, bitVars, sendVars, ackVars,
          pendVars, Labels
  <1>3. CASE LeaveSpin
    BY <1>1, <1>3 DEF LeaveSpin, Goto, TypeOK, isrVars, bitVars, sendVars,
       ackVars, pendVars, callVars, Labels, InSchedulePacket
  <1>4. CASE CopyByte
    <2>1. b + 1 \in 1..Len(buffer) /\ b \in Slots
      BY <1>4 DEF CopyByte, TypeOK, Slots
    <2>2. buffer[b + 1] \in Byte
      BY <2>1 DEF TypeOK
    <2>3. checksum' \in Byte
      BY <1>4, <2>2, XorIsByte DEF CopyByte, TypeOK
    <2>4. pendingPacket' \in Array
      BY <1>4, <2>1, <2>2 DEF CopyByte, TypeOK, Array
    <2> QED
      BY <1>1, <1>4, <2>1, <2>3, <2>4
      DEF CopyByte, Goto, TypeOK, isrVars, bitVars, sendVars, ackVars, Labels,
          InSchedulePacket
  <1>5. CASE AddChecksum
    <2>1. pendingPacket' \in Array
      BY <1>5 DEF AddChecksum, TypeOK, Array, Slots
    <2> QED
      BY <1>1, <1>5, <2>1
      DEF AddChecksum, Goto, TypeOK, isrVars, bitVars, sendVars, ackVars,
          callVars, Labels, InSchedulePacket
  <1>6. CASE SetLength
    BY <1>1, <1>6 DEF SetLength, Goto, TypeOK, isrVars, bitVars, sendVars,
       ackVars, callVars, Labels, InSchedulePacket
  <1>7. CASE SetRepeats
    BY <1>1, <1>7 DEF SetRepeats, Goto, TypeOK, isrVars, bitVars, sendVars,
       ackVars, callVars, Labels, InSchedulePacket
  <1>8. CASE PostPacket
    BY <1>1, <1>8 DEF PostPacket, Goto, TypeOK, isrVars, bitVars, sendVars,
       ackVars, callVars, pendVars, Labels
  <1>9. CASE ClearResets
    BY <1>1, <1>9 DEF ClearResets, Goto, TypeOK, isrVars, bitVars, sendVars,
       ackVars, callVars, pendVars, Labels
  <1>10. CASE ForgetAck
    <2>1. ackPulse' = 0 /\ 0 \in 0..(2 * PulseWrap)
      BY <1>10 DEF ForgetAck
    <2>2. ackDetected' \in BOOLEAN
      BY <1>10, Zenon DEF ForgetAck
    <2> QED
      BY <1>1, <1>10, <2>1, <2>2 DEF ForgetAck, TypeOK, isrVars, bitVars, sendVars,
         callVars, pendVars, Labels
  <1>11. CASE OpenWindow
    BY <1>1, <1>11 DEF OpenWindow, TypeOK, isrVars, bitVars, sendVars, callVars,
       pendVars, Labels
  <1>12. CASE RestartResets
    BY <1>1, <1>12 DEF RestartResets, Goto, TypeOK, isrVars, bitVars, sendVars,
       ackVars, callVars, pendVars, Labels
  <1> QED
    BY <1>2, <1>3, <1>4, <1>5, <1>6, <1>7, <1>8, <1>9, <1>10, <1>11, <1>12
    DEF InSchedule

LEMMA StutterShape == ShapeInv /\ UNCHANGED vars => ShapeInv'
  BY DEF ShapeInv, TypeOK, HalvesOfState, vars, isrVars, mainVars, bitVars,
     sendVars, ackVars, callVars, pendVars

LEMMA ShapeInvariant == Spec => []ShapeInv
  <1>1. ShapeInv /\ [Next]_vars => ShapeInv'
    BY BitStartShape, BitRestShape, MainShape, StutterShape
    DEF Next, interruptHandler
  <1> QED
    BY <1>1, InitShape, PTL DEF Spec

\* Every variable of the waveform and of the hand-off keeps its range,
\* whatever is scheduled and whenever the interrupt comes.
THEOREM TypeCorrect == Spec => []TypeOK
  BY ShapeInvariant, PTL DEF ShapeInv

\* Every finished bit on the rails has two halves of the length that tells a
\* one from a zero.
THEOREM BitsAreBalanced == Spec => []BalancedBits
  <1>1. ShapeInv => BalancedBits
    BY DEF ShapeInv, HalvesOfState, BalancedBits
  <1> QED
    BY <1>1, ShapeInvariant, PTL

-----------------------------------------------------------------------------
(* The hand-off.  No type is needed: the interrupt only ever clears         *)
(* packetPending, and the main loop passes the spin only when it is clear.  *)

HandOffInv ==
  /\ WriterExcludesReader
  /\ WaitingPacketHasNoResets

LEMMA InitHandOff == Init => HandOffInv
  BY DEF Init, HandOffInv, WriterExcludesReader, WaitingPacketHasNoResets,
     InSchedulePacket

\* The interrupt takes the packet and begins to count, or counts while there
\* is none, or leaves both alone.
LEMMA InterruptHandOff ==
  ASSUME interruptHandler
  PROVE  /\ UNCHANGED mainVars
         /\ \/ UNCHANGED <<packetPending, sentResetsSincePacket>>
            \/ ~packetPending' /\ packetPending /\ sentResetsSincePacket' = 0
            \/ ~packetPending' /\ ~packetPending
  <1>1. UNCHANGED mainVars
    BY DEF interruptHandler
  <1>2. CASE BitStart
    BY <1>1, <1>2 DEF BitStart, SendPreamble, SendBit, EndPacket, Repeat,
       TakePending, SendFiller
  <1>3. CASE BitRest
    BY <1>1, <1>3 DEF BitRest
  <1> QED
    BY <1>2, <1>3 DEF interruptHandler

LEMMA StepHandOff == HandOffInv /\ [Next]_vars => HandOffInv'
  <1> SUFFICES ASSUME HandOffInv, [Next]_vars PROVE HandOffInv'
    OBVIOUS
  <1> USE DEF HandOffInv, WriterExcludesReader, WaitingPacketHasNoResets,
              InSchedulePacket
  <1>1. CASE interruptHandler
    BY <1>1, InterruptHandOff DEF mainVars
  <1>2. CASE Call
    <2>1. PICK buf \in Buffers, reps \in Repeats : schedulePacket(buf, reps)
      BY <1>2 DEF Call
    <2> QED
      BY <2>1 DEF schedulePacket, Goto
  <1>3. CASE LeaveSpin
    BY <1>3 DEF LeaveSpin, Goto
  <1>4. CASE CopyByte
    BY <1>4 DEF CopyByte, Goto
  <1>5. CASE AddChecksum
    BY <1>5 DEF AddChecksum, Goto
  <1>6. CASE SetLength
    BY <1>6 DEF SetLength, Goto
  <1>7. CASE SetRepeats
    BY <1>7 DEF SetRepeats, Goto
  <1>8. CASE PostPacket
    BY <1>8 DEF PostPacket, Goto
  <1>9. CASE ClearResets
    BY <1>9 DEF ClearResets, Goto
  <1>10. CASE ForgetAck
    BY <1>10 DEF ForgetAck
  <1>11. CASE OpenWindow
    BY <1>11 DEF OpenWindow
  <1>12. CASE RestartResets
    BY <1>12 DEF RestartResets, Goto
  <1>13. CASE UNCHANGED vars
    BY <1>13 DEF vars, mainVars
  <1> QED
    BY <1>1, <1>2, <1>3, <1>4, <1>5, <1>6, <1>7, <1>8, <1>9, <1>10, <1>11,
       <1>12, <1>13 DEF Next, InSchedule

LEMMA HandOffInvariant == Spec => []HandOffInv
  BY InitHandOff, StepHandOff, PTL DEF Spec

\* The main loop never writes a pending buffer that the interrupt may be
\* copying, though nothing locks it.
THEOREM WriterIsExclusive == Spec => []WriterExcludesReader
  BY HandOffInvariant, PTL DEF HandOffInv

\* A reset count above zero speaks of resets sent after the last packet
\* handed over: the test of checkResets means what its callers take it for.
THEOREM ResetsComeAfterPackets == Spec => []WaitingPacketHasNoResets
  BY HandOffInvariant, PTL DEF HandOffInv

\* A packet is on its way from the post to the rails as it was posted.
THEOREM PendingPacketIsStable == Spec => PendingIsStable
  <1>1. HandOffInv /\ [Next]_vars =>
          [packetPending /\ packetPending' => UNCHANGED pendVars]_vars
    <2> SUFFICES ASSUME HandOffInv, Next, packetPending, packetPending'
                 PROVE  UNCHANGED pendVars
      OBVIOUS
    <2> USE DEF HandOffInv, WriterExcludesReader, InSchedulePacket
    <2>1. CASE interruptHandler
      BY <2>1, InterruptHandOff DEF mainVars
    <2>2. CASE Call
      BY <2>2 DEF Call, schedulePacket
    <2>3. CASE InSchedule
      BY <2>3 DEF InSchedule, LeaveSpin, CopyByte, AddChecksum, SetLength,
         SetRepeats, PostPacket, ClearResets, ForgetAck, OpenWindow
    <2>4. CASE RestartResets
      BY <2>4 DEF RestartResets
    <2> QED
      BY <2>1, <2>2, <2>3, <2>4 DEF Next
  <1> QED
    BY <1>1, HandOffInvariant, PTL DEF Spec, PendingIsStable

-----------------------------------------------------------------------------
(* A programming write never spins: it begins with resets counted, hence   *)
(* with an empty mailbox, which only it can fill.                          *)

\* On the programming track the resets that the caller waited for were
\* counted after its last packet was taken.
THEOREM ProgrammingWriteNeverSpins == Spec => []ProgrammingNeverSpins
  <1> DEFINE Inv == HandOffInv /\ ProgrammingNeverSpins
  <1>1. Init => Inv
    BY InitHandOff DEF Init, ProgrammingNeverSpins
  <1>2. Inv /\ [Next]_vars => Inv'
    <2> SUFFICES ASSUME Inv, [Next]_vars PROVE ProgrammingNeverSpins'
      BY StepHandOff
    <2> USE DEF ProgrammingNeverSpins
    <2>1. CASE interruptHandler
      BY <2>1, InterruptHandOff DEF mainVars
    <2>2. CASE Call
      <3>1. PICK buf \in Buffers, reps \in Repeats : schedulePacket(buf, reps)
        BY <2>2 DEF Call
      <3>2. CASE isMainTrack
        BY <3>2
      <3>3. CASE ~isMainTrack
        <4>1. pc = "ready" /\ sentResetsSincePacket >= ResetMin
          BY <3>1, <3>3 DEF schedulePacket, CallerReady
        <4>2. sentResetsSincePacket # 0
          BY <4>1
        <4>3. ~packetPending
          BY <4>1, <4>2 DEF HandOffInv, WaitingPacketHasNoResets
        <4> QED
          BY <3>1, <4>3 DEF schedulePacket, Goto
      <3> QED
        BY <3>2, <3>3
    <2>3. CASE InSchedule
      BY <2>3 DEF InSchedule, LeaveSpin, CopyByte, AddChecksum, SetLength,
         SetRepeats, PostPacket, ClearResets, ForgetAck, OpenWindow, Goto
    <2>4. CASE RestartResets
      BY <2>4 DEF RestartResets, Goto
    <2>5. CASE UNCHANGED vars
      BY <2>5 DEF vars, mainVars
    <2> QED
      BY <2>1, <2>2, <2>3, <2>4, <2>5 DEF Next
  <1>3. Inv => ProgrammingNeverSpins
    OBVIOUS
  <1> QED
    BY <1>1, <1>2, <1>3, PTL DEF Spec

-----------------------------------------------------------------------------
(* The track is the packet-level track.  What schedulePacket has done so   *)
(* far is what its label says, and what waits in the mailbox is a whole    *)
(* packet with its checksum.                                               *)

BeforePost == {"spin"} \cup InSchedulePacket

\* The first n bytes of the buffer are in the pending packet.
Copied(n) == \A k \in 0..(n - 1) : pendingPacket[k] = buffer[k + 1]

CopyInv ==
  /\ pc \in BeforePost => buffer \in Buffers /\ repeats \in Repeats
  /\ pc = "spin" => b = 0
  /\ pc \in {"spin", "copy"} => Copied(b) /\ checksum = Parity(buffer, b)
  /\ pc \in {"length", "repeats", "post"} =>
       Copied(Len(buffer)) /\ pendingPacket[Len(buffer)] = Parity(buffer, Len(buffer))
  /\ pc \in {"repeats", "post"} => pendingLength = Len(buffer) + 1
  /\ pc = "post" => pendingRepeats = repeats

MailInv == packetPending => pendingLength > 0

\* On the programming track the caller's resets stay counted, and its window
\* closed, until its packet is posted.
ReadyInv ==
  ~isMainTrack /\ pc \in BeforePost =>
    ~packetPending /\ ~ackPending /\ sentResetsSincePacket >= ResetMin

StepInv == ShapeInv /\ HandOffInv /\ CopyInv /\ MailInv /\ ReadyInv

LEMMA ParityOfNone == ASSUME NEW buf PROVE Parity(buf, 0) = AllZeros
  <1>1. ASSUME NEW k \in 1..ByteBits
        PROVE  Cardinality({i \in 1..0 : buf[i][k]}) = 0
    <2>1. {i \in 1..0 : buf[i][k]} = {}
      OBVIOUS
    <2> QED BY <2>1, FS_EmptySet
  <1>2. ASSUME NEW k \in 1..ByteBits
        PROVE  (Cardinality({i \in 1..0 : buf[i][k]}) % 2 = 1) = FALSE
    <2>1. 0 % 2 = 0
      OBVIOUS
    <2>2. ~(Cardinality({i \in 1..0 : buf[i][k]}) % 2 = 1)
      BY <1>1, <2>1
    <2> QED BY <2>2, Zenon
  <1> QED BY <1>2 DEF Parity, AllZeros

\* One more byte is exclusive-ored into the checksum.
LEMMA ParityOfMore ==
  ASSUME NEW buf \in Seq(Byte), NEW n \in Nat, n < Len(buf)
  PROVE  Parity(buf, n + 1) = Xor(Parity(buf, n), buf[n + 1])
  <1> DEFINE Ones(m, k) == {i \in 1..m : buf[i][k]}
  <1>1. ASSUME NEW k \in 1..ByteBits
        PROVE  (Cardinality(Ones(n + 1, k)) % 2 = 1)
                 = ((Cardinality(Ones(n, k)) % 2 = 1) # buf[n + 1][k])
    <2>1. IsFiniteSet(Ones(n, k))
      <3>1. IsFiniteSet(1..n)
        BY FS_Interval
      <3>2. Ones(n, k) \in SUBSET (1..n)
        OBVIOUS
      <3> QED BY <3>1, <3>2, FS_Subset
    <2>2. Cardinality(Ones(n, k)) \in Nat
      BY <2>1, FS_CardinalityType
    <2>3. buf[n + 1] \in Byte /\ buf[n + 1][k] \in BOOLEAN
      BY DEF Byte
    <2>4. CASE buf[n + 1][k]
      <3>1. Ones(n + 1, k) = Ones(n, k) \cup {n + 1} /\ n + 1 \notin Ones(n, k)
        BY <2>4
      <3>2. Cardinality(Ones(n + 1, k)) = Cardinality(Ones(n, k)) + 1
        BY <2>1, <3>1, FS_AddElement
      <3>3. (Cardinality(Ones(n + 1, k)) % 2 = 1) <=> ~(Cardinality(Ones(n, k)) % 2 = 1)
        BY <2>2, <3>2
      <3> QED BY <2>4, <2>3, <3>3
    <2>5. CASE ~buf[n + 1][k]
      <3>1. Ones(n + 1, k) = Ones(n, k)
        BY <2>5
      <3> QED BY <2>5, <2>3, <3>1
    <2> QED BY <2>4, <2>5
  <1> QED BY <1>1 DEF Parity, Xor

\* The finished pending buffer holds the sealed packet.
LEMMA FinishedIsSealed ==
  ASSUME NEW array, NEW buf \in Seq(Byte),
         \A k \in 0..(Len(buf) - 1) : array[k] = buf[k + 1],
         array[Len(buf)] = Parity(buf, Len(buf))
  PROVE  Packet(array, Len(buf) + 1) = Sealed(buf)
  <1> DEFINE n == Len(buf) + 1
             p == Packet(array, n)
  <1>1. Parity(buf, Len(buf)) \in Byte
    BY DEF Parity, Byte
  <1>2. /\ Sealed(buf) \in Seq(Byte) /\ Len(Sealed(buf)) = n
        /\ \A k \in 1..Len(buf) : Sealed(buf)[k] = buf[k]
        /\ Sealed(buf)[n] = Parity(buf, Len(buf))
    BY <1>1, AppendProperties DEF Sealed
  <1>3. \A k \in 1..n : array[k - 1] = Sealed(buf)[k]
    BY <1>2
  <1>4. p = [k \in 1..n |-> array[k - 1]]
    BY DEF Packet
  <1>5. Sealed(buf) = [k \in 1..n |-> Sealed(buf)[k]]
    BY <1>2
  <1>6. p = Sealed(buf)
    <2> HIDE DEF p
    <2> QED BY <1>3, <1>4, <1>5
  <1> QED BY <1>6

\* What an interrupt does to the mailbox, to the count and to the window.
LEMMA InterruptCounts ==
  ASSUME ShapeInv, interruptHandler
  PROVE  /\ UNCHANGED mainVars
         /\ packetPending' => packetPending
         /\ ackPending' => ackPending
         /\ ~packetPending => sentResetsSincePacket' >= sentResetsSincePacket
  <1> USE DEF ShapeInv
  <1>1. UNCHANGED mainVars
    BY DEF interruptHandler
  <1>2. CASE BitStart
    <2>1. sentResetsSincePacket \in 0..ResetCap
      BY DEF TypeOK
    <2>2. CASE SendPreamble \/ SendBit
      BY <1>1, <1>2, <2>1, <2>2 DEF BitStart, SendPreamble, SendBit
    <2>3. CASE EndPacket
      <3>1. Repeat \/ TakePending \/ SendFiller
        BY <2>3 DEF EndPacket
      <3> QED
        BY <1>1, <1>2, <2>1, <3>1 DEF BitStart, Repeat, TakePending, SendFiller, Smaller
    <2> QED
      BY <1>2, <2>2, <2>3 DEF BitStart
  <1>3. CASE BitRest
    <2>1. UNCHANGED <<packetPending, sentResetsSincePacket>>
      BY <1>3 DEF BitRest
    <2>2. ackPending' => ackPending
      BY <1>3 DEF BitRest, checkAck, AckTimeout, InPulse, NoPulse, GoodPulse,
         BadPulse, ackVars
    <2>3. sentResetsSincePacket' >= sentResetsSincePacket
      BY <2>1 DEF TypeOK
    <2> QED
      BY <1>1, <2>1, <2>2, <2>3
  <1> QED
    BY <1>2, <1>3 DEF interruptHandler

LEMMA InitCopy == Init => CopyInv /\ MailInv /\ ReadyInv
  BY DEF Init, CopyInv, MailInv, ReadyInv, BeforePost, InSchedulePacket

LEMMA InterruptCopy ==
  ASSUME StepInv, interruptHandler PROVE CopyInv' /\ MailInv' /\ ReadyInv'
  <1> USE DEF StepInv
  <1>1. UNCHANGED mainVars
    BY InterruptCounts
  <1>2. CopyInv'
    BY <1>1 DEF CopyInv, Copied, mainVars, callVars, pendVars
  <1>3. MailInv'
    BY <1>1, InterruptCounts DEF MailInv, mainVars, pendVars
  <1>4. ReadyInv'
    <2>1. sentResetsSincePacket \in 0..ResetCap /\ sentResetsSincePacket' \in 0..ResetCap
      <3>1. ShapeInv'
        BY BitStartShape, BitRestShape DEF interruptHandler
      <3> QED
        BY <3>1 DEF ShapeInv, TypeOK
    <2> QED
      BY <1>1, <2>1, InterruptCounts DEF ReadyInv, mainVars
  <1> QED BY <1>2, <1>3, <1>4

LEMMA CallCopy == ASSUME StepInv, Call PROVE CopyInv' /\ MailInv' /\ ReadyInv'
  <1> USE DEF StepInv
  <1>1. PICK buf \in Buffers, reps \in Repeats : schedulePacket(buf, reps)
    BY DEF Call
  <1>2. /\ pc' = "spin" /\ buffer' = buf /\ repeats' = reps /\ b' = 0
        /\ checksum' = AllZeros
        /\ UNCHANGED <<pendVars, packetPending, sentResetsSincePacket, ackPending>>
    BY <1>1 DEF schedulePacket, Goto, ackVars
  <1>3. CopyInv'
    <2>1. checksum' = Parity(buffer', b')
      BY <1>2, ParityOfNone
    <2>2. Copied(b)'
      BY <1>2 DEF Copied
    <2> QED BY <1>2, <2>1, <2>2 DEF CopyInv, BeforePost, InSchedulePacket
  <1>4. MailInv'
    BY <1>2 DEF MailInv, pendVars
  <1>5. ReadyInv'
    <2>1. CASE ~isMainTrack
      <3>1. sentResetsSincePacket >= ResetMin /\ ~ackPending
        BY <1>1, <2>1 DEF schedulePacket, CallerReady
      <3>2. sentResetsSincePacket # 0
        BY <3>1
      <3>3. pc = "ready"
        BY <1>1 DEF schedulePacket
      <3>4. ~packetPending
        BY <3>2, <3>3 DEF HandOffInv, WaitingPacketHasNoResets
      <3> QED
        BY <1>2, <3>1, <3>4 DEF ReadyInv
    <2> QED
      BY <2>1 DEF ReadyInv
  <1> QED BY <1>3, <1>4, <1>5

\* The statements of schedulePacket up to the post.
LEMMA CopyByteCopies == ASSUME StepInv, CopyByte PROVE CopyInv'
  <1>1. /\ pc = "copy" /\ pc' = "copy" /\ b < Len(buffer) /\ b' = b + 1
        /\ checksum' = Xor(checksum, buffer[b + 1])
        /\ pendingPacket' = [pendingPacket EXCEPT ![b] = buffer[b + 1]]
        /\ UNCHANGED <<buffer, repeats>>
    BY DEF CopyByte, Goto
  <1>2. /\ buffer \in Seq(Byte) /\ Len(buffer) < MAX_PACKET_SIZE
        /\ b \in Nat /\ pendingPacket \in [Slots -> Byte]
    BY DEF StepInv, ShapeInv, TypeOK, Array
  <1>3. Copied(b) /\ checksum = Parity(buffer, b)
    BY <1>1 DEF StepInv, CopyInv
  <1>4. checksum' = Parity(buffer', b')
    BY <1>1, <1>2, <1>3, ParityOfMore
  <1>5. Copied(b)'
    BY <1>1, <1>2, <1>3 DEF Copied, Slots
  <1> QED
    BY <1>1, <1>4, <1>5 DEF StepInv, CopyInv, BeforePost, InSchedulePacket

LEMMA AddChecksumCopies == ASSUME StepInv, AddChecksum PROVE CopyInv'
  <1>1. /\ pc = "copy" /\ pc' = "length" /\ b = Len(buffer)
        /\ pendingPacket' = [pendingPacket EXCEPT ![b] = checksum]
        /\ UNCHANGED <<buffer, repeats, b, checksum>>
    BY DEF AddChecksum, Goto, callVars
  <1>2. /\ buffer \in Seq(Byte) /\ Len(buffer) < MAX_PACKET_SIZE
        /\ b \in Nat /\ pendingPacket \in [Slots -> Byte]
    BY DEF StepInv, ShapeInv, TypeOK, Array
  <1>3. Copied(b) /\ checksum = Parity(buffer, b)
    BY <1>1 DEF StepInv, CopyInv
  <1>4. Copied(Len(buffer))' /\ pendingPacket'[Len(buffer')] = Parity(buffer', Len(buffer'))
    BY <1>1, <1>2, <1>3 DEF Copied, Slots
  <1> QED
    BY <1>1, <1>4 DEF StepInv, CopyInv, BeforePost, InSchedulePacket

LEMMA ScheduleCopy ==
  ASSUME StepInv, InSchedule \/ RestartResets PROVE CopyInv' /\ MailInv' /\ ReadyInv'
  <1> USE DEF StepInv
  <1>1. Len(buffer) \in Nat /\ pendingLength \in Nat
    BY DEF ShapeInv, TypeOK
  <1>2. CASE LeaveSpin
    BY <1>2 DEF LeaveSpin, Goto, CopyInv, MailInv, ReadyInv, Copied, BeforePost,
       InSchedulePacket, ackVars, callVars, pendVars
  <1>3. CASE CopyByte
    BY <1>3, CopyByteCopies DEF CopyByte, Goto, MailInv, ReadyInv, BeforePost,
       InSchedulePacket, ackVars
  <1>4. CASE AddChecksum
    BY <1>4, AddChecksumCopies DEF AddChecksum, Goto, MailInv, ReadyInv, BeforePost,
       InSchedulePacket, ackVars
  <1>5. CASE SetLength
    BY <1>1, <1>5 DEF SetLength, Goto, CopyInv, MailInv, ReadyInv, Copied, BeforePost,
       InSchedulePacket, ackVars, callVars
  <1>6. CASE SetRepeats
    BY <1>6 DEF SetRepeats, Goto, CopyInv, MailInv, ReadyInv, Copied, BeforePost,
       InSchedulePacket, ackVars, callVars
  <1>7. CASE PostPacket
    <2>1. pendingLength' > 0
      BY <1>1, <1>7 DEF PostPacket, CopyInv, pendVars
    <2> QED
      BY <1>7, <2>1 DEF PostPacket, Goto, CopyInv, MailInv, ReadyInv, BeforePost,
         InSchedulePacket
  <1>8. CASE ClearResets \/ ForgetAck \/ OpenWindow \/ RestartResets
    BY <1>8 DEF ClearResets, ForgetAck, OpenWindow, RestartResets, Goto, CopyInv,
       MailInv, ReadyInv, BeforePost, InSchedulePacket, pendVars
  <1> QED
    BY <1>2, <1>3, <1>4, <1>5, <1>6, <1>7, <1>8 DEF InSchedule

LEMMA StepInvariant == Spec => []StepInv
  <1>1. Init => StepInv
    BY InitShape, InitHandOff, InitCopy DEF StepInv
  <1>2. StepInv /\ [Next]_vars => StepInv'
    <2> SUFFICES ASSUME StepInv, [Next]_vars PROVE StepInv'
      OBVIOUS
    <2>1. ShapeInv' /\ HandOffInv'
      BY BitStartShape, BitRestShape, MainShape, StutterShape, StepHandOff
      DEF StepInv, Next, interruptHandler
    <2>2. CopyInv' /\ MailInv' /\ ReadyInv'
      <3>1. CASE UNCHANGED vars
        BY <3>1 DEF StepInv, CopyInv, Copied, MailInv, ReadyInv, vars, mainVars,
           callVars, pendVars, ackVars
      <3>2. CASE Next
        BY <3>2, InterruptCopy, CallCopy, ScheduleCopy DEF Next
      <3> QED
        BY <3>1, <3>2
    <2> QED
      BY <2>1, <2>2 DEF StepInv
  <1> QED
    BY <1>1, <1>2, PTL DEF Spec

-----------------------------------------------------------------------------
(* Every step is a step of the packet-level track, or stutters.            *)

\* What the packet-level track shows of the waveform.
trackVars == <<Mailbox, Air, transmitRepeats, sentResetsSincePacket, ackPending,
               ackDetected, Stage>>

LEMMA PacketIsSeq ==
  ASSUME NEW array \in Array, NEW len \in 0..MAX_PACKET_SIZE
  PROVE  Packet(array, len) \in Seq(Byte)
  BY DEF Packet, Array, Slots

LEMMA WaitingIsMail ==
  ASSUME TypeOK PROVE [packet |-> Waiting, repeats |-> pendingRepeats] # NoMail
  <1>1. Waiting \in Seq(Byte) /\ pendingRepeats \in Nat
    BY PacketIsSeq DEF TypeOK, Waiting
  <1> QED BY <1>1, NoMailAssumption

LEMMA FillerOnAir == ASSUME SendFiller PROVE OnAir' = Filler
  <1>1. Filler = [k \in 1..3 |-> Filler[k]]
    BY DEF Filler, idlePacket, resetPacket
  <1>2. \A k \in 1..3 : Overlay(Filler, transmitPacket)[k - 1] = Filler[k]
    BY DEF Overlay, Slots
  <1>3. Packet(Overlay(Filler, transmitPacket), 3) = Filler
    BY <1>1, <1>2 DEF Packet
  <1> QED
    BY <1>3 DEF SendFiller, OnAir

LEMMA BitStartTracks ==
  ASSUME StepInv, BitStart, UNCHANGED mainVars
  PROVE  Track!PacketEnd \/ UNCHANGED trackVars
  <1> USE DEF Mailbox, Air, Stage
  <1>1. TypeOK /\ ShapeInv
    BY DEF StepInv, ShapeInv
  <1>2. UNCHANGED <<ackPending, ackDetected, pc, pendVars>>
    BY DEF BitStart, mainVars
  <1>3. CASE SendPreamble \/ SendBit
    BY <1>2, <1>3 DEF SendPreamble, SendBit, sendVars, pendVars, trackVars,
       Mailbox, Air, Stage, OnAir, Waiting
  <1>4. CASE Repeat
    BY <1>1, <1>2, <1>4
    DEF TypeOK, Repeat, pendVars, OnAir, Waiting, Track!PacketEnd, Track!Again
  <1>5. CASE TakePending
    <2>1. pendingLength \in 1..MAX_PACKET_SIZE
      BY <1>1, <1>5 DEF TypeOK, TakePending, StepInv, MailInv
    <2>2. Packet(transmitPacket', pendingLength) = Waiting
      BY <1>5, <2>1 DEF TakePending, Packet, Waiting, Slots
    <2>3. transmitLength' # 0 /\ OnAir' = Waiting
      BY <1>5, <2>1, <2>2 DEF TakePending, OnAir
    <2> QED
      BY <1>1, <1>2, <1>5, <2>3, WaitingIsMail
      DEF TakePending, pendVars, Track!PacketEnd, Track!Take
  <1>6. CASE SendFiller
    <2>2. transmitLength' # 0 /\ OnAir' = Filler
      BY <1>6, FillerOnAir DEF SendFiller
    <2>3. sentResetsSincePacket' = IF sentResetsSincePacket < ResetCap
                                   THEN sentResetsSincePacket + 1
                                   ELSE sentResetsSincePacket
      BY <1>1, <1>6 DEF SendFiller, Smaller, TypeOK
    <2> QED
      BY <1>2, <1>6, <2>2, <2>3 DEF SendFiller, Track!PacketEnd, Track!Fill
  <1> QED
    BY <1>3, <1>4, <1>5, <1>6 DEF BitStart, EndPacket

LEMMA BitRestTracks ==
  ASSUME StepInv, BitRest, UNCHANGED mainVars
  PROVE  Track!CloseWindow \/ Track!Answer \/ UNCHANGED trackVars
  <1>1. UNCHANGED <<transmitPacket, transmitLength, packetPending,
                    sentResetsSincePacket, pc, pendVars>>
    BY DEF BitRest, mainVars
  <1>2. UNCHANGED <<Mailbox, Air, Stage>>
    BY <1>1 DEF Mailbox, Air, Stage, OnAir, Waiting, pendVars
  <1>3. CASE ackPending /\ AckTimeout
    BY <1>1, <1>2, <1>3 DEF AckTimeout, Mailbox, Air, Stage, Track!CloseWindow
  <1>4. CASE ackPending /\ GoodPulse
    BY <1>1, <1>2, <1>4 DEF GoodPulse, Mailbox, Air, Stage, Track!Answer
  <1>5. CASE UNCHANGED <<ackPending, ackDetected, transmitRepeats>>
    BY <1>1, <1>2, <1>5 DEF trackVars
  <1> QED
    BY <1>3, <1>4, <1>5
    DEF BitRest, checkAck, InPulse, NoPulse, BadPulse, ackVars

\* The statement that hands the packet over posts it whole.
LEMMA PostIsSealed ==
  ASSUME StepInv, PostPacket
  PROVE  /\ ~packetPending /\ buffer \in Buffers /\ repeats \in Repeats
         /\ Waiting = Sealed(buffer) /\ pendingRepeats = repeats
  <1>1. pc = "post"
    BY DEF PostPacket
  <1>2. ~packetPending
    BY <1>1 DEF StepInv, HandOffInv, WriterExcludesReader, InSchedulePacket
  <1>3. buffer \in Buffers /\ buffer \in Seq(Byte) /\ repeats \in Repeats
    BY <1>1 DEF StepInv, ShapeInv, TypeOK, CopyInv, BeforePost, InSchedulePacket
  <1>4. /\ Copied(Len(buffer)) /\ pendingPacket[Len(buffer)] = Parity(buffer, Len(buffer))
        /\ pendingLength = Len(buffer) + 1 /\ pendingRepeats = repeats
    BY <1>1 DEF StepInv, CopyInv
  <1>5. Waiting = Sealed(buffer)
    BY <1>3, <1>4, FinishedIsSealed DEF Waiting, Copied
  <1> QED
    BY <1>2, <1>3, <1>4, <1>5

LEMMA PostTracks ==
  ASSUME StepInv, PostPacket
  PROVE  \E packet \in SealedPackets, reps \in Repeats : Track!Post(packet, reps)
  <1>1. /\ pc = "post" /\ pc' = "clear" /\ packetPending'
        /\ UNCHANGED <<pendVars, sendVars, ackVars, sentResetsSincePacket>>
    BY DEF PostPacket, Goto, isrVars
  <1>2. /\ ~packetPending /\ buffer \in Buffers /\ repeats \in Repeats
        /\ Waiting = Sealed(buffer) /\ pendingRepeats = repeats
    BY PostIsSealed
  <1>6. isMainTrack \/ (sentResetsSincePacket >= ResetMin /\ ~ackPending)
    BY <1>1 DEF StepInv, ReadyInv, BeforePost, InSchedulePacket
  <1>7. /\ Waiting' = Sealed(buffer) /\ pendingRepeats' = repeats /\ OnAir' = OnAir
    BY <1>1, <1>2 DEF pendVars, sendVars, Waiting, OnAir
  <1>8. Track!Post(Sealed(buffer), repeats)
    BY <1>1, <1>2, <1>6, <1>7
    DEF Track!Post, Mailbox, Air, Stage, sendVars, ackVars
  <1> QED
    BY <1>2, <1>8 DEF SealedPackets

LEMMA MainTracks ==
  ASSUME StepInv, Call \/ InSchedule \/ RestartResets
  PROVE  Track!Caller \/ UNCHANGED trackVars
  <1> USE DEF isrVars, sendVars, ackVars, pendVars, callVars, Mailbox, Air, Stage,
              Waiting, OnAir
  <1>1. CASE Call
    BY <1>1 DEF Call, schedulePacket, Goto, trackVars
  <1>2. CASE LeaveSpin
    BY <1>2 DEF LeaveSpin, Goto, trackVars
  <1>3. CASE CopyByte \/ AddChecksum \/ SetLength \/ SetRepeats
    <2>1. ~packetPending /\ ~packetPending'
      BY <1>3 DEF StepInv, HandOffInv, WriterExcludesReader, InSchedulePacket,
         CopyByte, AddChecksum, SetLength, SetRepeats
    <2> QED
      BY <1>3, <2>1 DEF CopyByte, AddChecksum, SetLength, SetRepeats, Goto, trackVars
  <1>4. CASE PostPacket
    BY <1>4, PostTracks DEF Track!Caller
  <1>5. CASE ClearResets
    BY <1>5 DEF ClearResets, Goto, Track!Caller, Track!Clear
  <1>6. CASE ForgetAck
    BY <1>6 DEF ForgetAck, Track!Caller, Track!Forget
  <1>7. CASE OpenWindow
    BY <1>7 DEF OpenWindow, Track!Caller, Track!Open
  <1>8. CASE RestartResets
    BY <1>8 DEF RestartResets, Goto, Track!Caller, Track!Restart
  <1> QED
    BY <1>1, <1>2, <1>3, <1>4, <1>5, <1>6, <1>7, <1>8 DEF InSchedule

\* The track is the packet-level track on which the ack manager is modelled:
\* for every schedule of interrupts, what is on the rails was handed over as
\* one whole packet, sealed with its checksum, after the one before it was
\* taken.
THEOREM TrackIsPacketLevel == Spec => ImplementsTrackPackets
  <1>1. Init => Track!Init
    BY DEF Init, Track!Init, Mailbox, Air, Stage
  <1>2. StepInv /\ [Next]_vars => [Track!Next]_Track!packetVars
    <2> SUFFICES ASSUME StepInv, [Next]_vars
                 PROVE  Track!Next \/ UNCHANGED trackVars
      BY DEF Track!packetVars, trackVars, Mailbox, Air, Stage
    <2>1. CASE UNCHANGED vars
      BY <2>1 DEF vars, isrVars, mainVars, sendVars, ackVars, pendVars, trackVars,
         Mailbox, Air, Stage, Waiting, OnAir
    <2>2. CASE Next
      BY <2>2, BitStartTracks, BitRestTracks, MainTracks
      DEF Next, interruptHandler, Track!Next, Track!Interrupt
    <2> QED
      BY <2>1, <2>2
  <1> QED
    BY <1>1, <1>2, StepInvariant, PTL DEF Spec, ImplementsTrackPackets, Track!Spec
-----------------------------------------------------------------------------
(* What the decoder hears.  It follows the interrupt bit by bit: it hunts   *)
(* through the very first transmission, which has no preamble, and through  *)
(* the preambles; then it holds what was sent of the packet on the rails.   *)

Decoders == [ones : 0..preambleBits, mode : {"hunt", "byte", "gap"},
             bytes : Seq(Byte), bits : Seq(BOOLEAN), heard : Seq(Byte),
             resets : 0..ResetCap]

\* The very first transmission, of a packet of length 0.
FirstTransmission ==
  /\ transmitLength = 0 /\ transmitRepeats = 0 /\ remainingPreambles = 0
  /\ transmitPacket[0] = AllOnes
  /\ bits_sent = 0 => decoder.ones = 0

Hunting ==
  /\ decoder.bytes = <<>> /\ decoder.bits = <<>> /\ bytes_sent = 0
  /\ \/ FirstTransmission
     \/ /\ transmitLength > 0 /\ bits_sent = 0
        /\ decoder.ones + remainingPreambles >= preambleBits

InByte ==
  /\ remainingPreambles = 0 /\ bits_sent > 0 /\ bytes_sent < transmitLength
  /\ decoder.bits = [k \in 1..(bits_sent - 1) |-> transmitPacket[bytes_sent][k]]
  /\ decoder.bytes = Packet(transmitPacket, bytes_sent)

InGap ==
  /\ remainingPreambles = 0 /\ bits_sent = 0 /\ decoder.bits = <<>>
  /\ bytes_sent > 0 /\ bytes_sent < transmitLength
  /\ decoder.bytes = Packet(transmitPacket, bytes_sent)

BeforeStopBit ==
  /\ remainingPreambles = requiredPreambles /\ bits_sent = 0 /\ decoder.bits = <<>>
  /\ bytes_sent = 0 /\ transmitLength > 0

SyncInv ==
  /\ decoder \in Decoders
  /\ decoder.mode = "hunt" => Hunting
  /\ decoder.mode = "byte" => InByte
  /\ decoder.mode = "gap" => InGap \/ BeforeStopBit

\* The decoder after a bit, field by field.
Decoder(ones, mode, bytes, bits, complete, resets) ==
  [ones |-> ones, mode |-> mode, bytes |-> bytes, bits |-> bits,
   heard |-> complete, resets |-> resets]

\* One more bit, by what the decoder is waiting for.
LEMMA HearWhileHunting ==
  ASSUME NEW d \in Decoders, d.mode = "hunt", NEW bit \in BOOLEAN
  PROVE  Hear(d, bit) =
           IF bit THEN Decoder(Smaller(d.ones + 1, preambleBits), "hunt", d.bytes,
                               d.bits, <<>>, d.resets)
           ELSE IF d.ones < preambleBits
           THEN Decoder(0, "hunt", d.bytes, d.bits, <<>>, d.resets)
           ELSE Decoder(d.ones, "byte", d.bytes, d.bits, <<>>, d.resets)
  <1>1. d.ones < preambleBits \/ d.ones >= preambleBits
    BY DEF Decoders
  <1>2. Hear(d, bit) =
          IF bit THEN [d EXCEPT !.heard = <<>>, !.ones = Smaller(@ + 1, preambleBits)]
          ELSE IF d.ones < preambleBits THEN [d EXCEPT !.heard = <<>>, !.ones = 0]
          ELSE [d EXCEPT !.heard = <<>>, !.mode = "byte"]
    BY <1>1 DEF Hear, Decoders
  <1> QED BY <1>2 DEF Decoder, Decoders

LEMMA HearInByte ==
  ASSUME NEW d \in Decoders, d.mode = "byte", NEW bit \in BOOLEAN,
         Len(d.bits) < ByteBits
  PROVE  Hear(d, bit) =
           IF Len(d.bits) + 1 < ByteBits
           THEN Decoder(d.ones, "byte", d.bytes, Append(d.bits, bit), <<>>, d.resets)
           ELSE Decoder(d.ones, "gap", Append(d.bytes, Append(d.bits, bit)), <<>>,
                        <<>>, d.resets)
  <1> DEFINE grown == Append(d.bits, bit)
             n == Len(grown)
  <1>1. n = Len(d.bits) + 1 /\ Len(d.bits) \in Nat
    BY DEF Decoders
  <1>2. n < ByteBits \/ n = ByteBits
    BY <1>1
  <1>3. Hear(d, bit) =
          IF Len(d.bits) + 1 < ByteBits
          THEN [d EXCEPT !.heard = <<>>, !.bits = grown]
          ELSE [d EXCEPT !.heard = <<>>, !.mode = "gap", !.bits = <<>>,
                         !.bytes = Append(d.bytes, grown)]
    BY SMTT(20), <1>1, <1>2 DEF Hear, Decoders
  <1> HIDE DEF grown
  <1>4. Hear(d, bit) =
          IF Len(d.bits) + 1 < ByteBits
          THEN Decoder(d.ones, "byte", d.bytes, grown, <<>>, d.resets)
          ELSE Decoder(d.ones, "gap", Append(d.bytes, grown), <<>>, <<>>, d.resets)
    BY <1>3 DEF Decoder, Decoders
  <1> QED BY <1>4 DEF grown

LEMMA HearInGap ==
  ASSUME NEW d \in Decoders, d.mode = "gap", NEW bit \in BOOLEAN
  PROVE  Hear(d, bit) =
           IF bit
           THEN Decoder(0, "hunt", <<>>, d.bits, d.bytes,
                        IF d.bytes = Filler THEN Smaller(d.resets + 1, ResetCap) ELSE 0)
           ELSE Decoder(d.ones, "byte", d.bytes, d.bits, <<>>, d.resets)
  <1> DEFINE resets == IF d.bytes = Filler THEN Smaller(d.resets + 1, ResetCap) ELSE 0
  <1>1. Hear(d, bit) =
          IF bit THEN [d EXCEPT !.mode = "hunt", !.ones = 0, !.bytes = <<>>,
                                !.heard = d.bytes, !.resets = resets]
          ELSE [d EXCEPT !.heard = <<>>, !.mode = "byte"]
    BY DEF Hear, Decoders
  <1> HIDE DEF resets
  <1>2. Hear(d, bit) =
          IF bit THEN Decoder(0, "hunt", <<>>, d.bits, d.bytes, resets)
          ELSE Decoder(d.ones, "byte", d.bytes, d.bits, <<>>, d.resets)
    BY <1>1 DEF Decoder, Decoders
  <1> QED BY <1>2 DEF resets

\* The bytes sent so far, and one more.
LEMMA PacketGrows ==
  ASSUME NEW array \in Array, NEW n \in Slots
  PROVE  Append(Packet(array, n), array[n]) = Packet(array, n + 1)
  <1> DEFINE p == Packet(array, n)
             q == Packet(array, n + 1)
  <1>1. /\ p \in Seq(Byte) /\ Len(p) = n
        /\ \A k \in 1..n : p[k] = array[k - 1]
    BY DEF Packet, Array, Slots
  <1>2. /\ q \in Seq(Byte) /\ Len(q) = n + 1
        /\ \A k \in 1..(n + 1) : q[k] = array[k - 1]
    BY DEF Packet, Array, Slots
  <1>3. array[n] \in Byte
    BY DEF Array
  <1> HIDE DEF p, q
  <1>4. n \in Nat
    BY DEF Slots
  <1>5. /\ Append(p, array[n]) \in Seq(Byte) /\ Len(Append(p, array[n])) = n + 1
        /\ \A k \in 1..n : Append(p, array[n])[k] = p[k]
        /\ Append(p, array[n])[n + 1] = array[n]
    BY <1>1, <1>3, AppendProperties
  <1> DEFINE a == Append(p, array[n])
  <1>6. ASSUME NEW k \in 1..(n + 1) PROVE a[k] = q[k]
    <2>1. q[k] = array[k - 1]
      BY <1>2
    <2>2. CASE k = n + 1
      <3>1. k - 1 = n
        BY <1>4, <2>2
      <3> QED BY <1>5, <2>1, <2>2, <3>1
    <2>3. CASE k \in 1..n
      <3>1. a[k] = p[k]
        BY <1>5, <2>3
      <3>2. p[k] = array[k - 1]
        BY <1>1, <2>3
      <3> QED BY <2>1, <3>1, <3>2
    <2>4. k = n + 1 \/ k \in 1..n
      BY <1>4
    <2> HIDE DEF a
    <2> QED BY <2>2, <2>3, <2>4
  <1> HIDE DEF a
  <1>7. a = q
    BY <1>2, <1>5, <1>6, SeqEqual DEF a
  <1> QED BY <1>7 DEF p, q, a

\* The bits heard of a byte, and one more; ByteBits of them are the byte.
LEMMA BitsGrow ==
  ASSUME NEW x \in Byte, NEW n \in 1..ByteBits
  PROVE  /\ Append([k \in 1..(n - 1) |-> x[k]], x[n]) = [k \in 1..n |-> x[k]]
         /\ Len([k \in 1..(n - 1) |-> x[k]]) = n - 1
         /\ [k \in 1..ByteBits |-> x[k]] = x
  <1> DEFINE p == [k \in 1..(n - 1) |-> x[k]]
             q == [k \in 1..n |-> x[k]]
  <1>0. \A k \in 1..ByteBits : x[k] \in BOOLEAN
    BY DEF Byte
  <1>1. /\ p \in Seq(BOOLEAN) /\ Len(p) = n - 1
        /\ \A k \in 1..(n - 1) : p[k] = x[k]
    BY <1>0
  <1>2. /\ q \in Seq(BOOLEAN) /\ Len(q) = n
        /\ \A k \in 1..n : q[k] = x[k]
    BY <1>0
  <1> HIDE DEF p, q
  <1>5. /\ Append(p, x[n]) \in Seq(BOOLEAN) /\ Len(Append(p, x[n])) = n
        /\ \A k \in 1..(n - 1) : Append(p, x[n])[k] = p[k]
        /\ Append(p, x[n])[n] = x[n]
    BY <1>0, <1>1, AppendProperties
  <1>6. \A k \in 1..n : Append(p, x[n])[k] = q[k]
    BY <1>1, <1>2, <1>5
  <1>7. Append(p, x[n]) = q
    BY <1>2, <1>5, <1>6, SeqEqual
  <1>8. [k \in 1..ByteBits |-> x[k]] = x
    BY DEF Byte
  <1> QED BY <1>1, <1>7, <1>8 DEF p, q

LEMMA InitSync == Init => SyncInv
  <1> SUFFICES ASSUME Init PROVE SyncInv
    OBVIOUS
  <1>1. decoder \in Decoders
    BY DEF Init, SilentDecoder, Decoders
  <1>2. transmitPacket[0] = AllOnes
    BY DEF Init, Overlay, idlePacket, Slots
  <1> QED
    BY <1>1, <1>2 DEF Init, SilentDecoder, SyncInv, Hunting, FirstTransmission

\* What a bit can mean to the decoder: the end of the packet it holds, its
\* last bit, the last bit of the first transmission, or a bit in between.
StopBitHeard ==
  /\ decoder.mode = "gap" /\ BeforeStopBit /\ decoder'.mode = "hunt"
  /\ decoder'.heard = decoder.bytes
  /\ decoder'.resets = IF decoder.bytes = Filler
                       THEN Smaller(decoder.resets + 1, ResetCap) ELSE 0
  /\ UNCHANGED <<sendVars, packetPending, sentResetsSincePacket>>

LastBitHeard ==
  /\ EndPacket /\ transmitLength > 0 /\ decoder.mode = "byte"
  /\ decoder'.mode = "gap" /\ decoder'.bytes = OnAir /\ BeforeStopBit'
  /\ decoder'.heard = <<>> /\ decoder'.resets = decoder.resets

FirstTransmissionEnds ==
  /\ EndPacket /\ FirstTransmission /\ decoder.mode = "hunt"
  /\ decoder'.mode = "hunt"
  /\ decoder'.heard = <<>> /\ decoder'.resets = decoder.resets

BitHeard ==
  /\ ~(decoder.mode = "gap" /\ BeforeStopBit)
  /\ ~(decoder.mode = "gap" /\ BeforeStopBit)'
  /\ UNCHANGED <<sendVars, packetPending, sentResetsSincePacket>>
  /\ decoder'.heard = <<>> /\ decoder'.resets = decoder.resets

Heard == StopBitHeard \/ LastBitHeard \/ FirstTransmissionEnds \/ BitHeard

LEMMA PreambleSync ==
  ASSUME StepInv, SyncInv, SendPreamble, decoder' = Hear(decoder, currentBit')
  PROVE  SyncInv' /\ (StopBitHeard \/ BitHeard)
  <1>1. TypeOK /\ decoder \in Decoders
    BY DEF StepInv, ShapeInv, SyncInv
  <1>2. /\ remainingPreambles > 0 /\ currentBit' = TRUE
        /\ remainingPreambles' = remainingPreambles - 1
        /\ UNCHANGED <<bits_sent, bytes_sent, transmitPacket, transmitLength,
                       transmitRepeats, packetPending, sentResetsSincePacket>>
    BY DEF SendPreamble, sendVars
  <1>3. /\ remainingPreambles \in Nat /\ decoder.ones \in 0..preambleBits
        /\ decoder.resets \in 0..ResetCap
        /\ remainingPreambles <= requiredPreambles
        /\ requiredPreambles = preambleBits + 1
    BY <1>1 DEF TypeOK, Decoders, requiredPreambles
  <1>4. CASE decoder.mode = "hunt"
    <2> DEFINE ones == Smaller(decoder.ones + 1, preambleBits)
    <2>1. decoder' = Decoder(ones, "hunt", decoder.bytes, decoder.bits, <<>>,
                             decoder.resets)
      BY <1>1, <1>2, <1>4, HearWhileHunting
    <2>2. /\ Hunting /\ ~FirstTransmission
      BY <1>2, <1>4 DEF SyncInv, FirstTransmission
    <2>3. ones \in 0..preambleBits
      BY <1>3 DEF Smaller
    <2>4. /\ decoder' \in Decoders /\ decoder'.mode = "hunt"
          /\ decoder'.ones = ones
          /\ decoder'.bytes = decoder.bytes /\ decoder'.bits = decoder.bits
          /\ decoder'.heard = <<>> /\ decoder'.resets = decoder.resets
      <3>1. decoder.bytes \in Seq(Byte) /\ decoder.bits \in Seq(BOOLEAN)
        BY <1>1 DEF Decoders
      <3>2. <<>> \in Seq(Byte) /\ "hunt" \in {"hunt", "byte", "gap"}
        OBVIOUS
      <3> HIDE DEF ones
      <3> QED BY <1>3, <2>1, <2>3, <3>1, <3>2 DEF Decoder, Decoders
    <2>5. decoder'.ones + remainingPreambles' >= preambleBits
      BY <1>2, <1>3, <2>2, <2>4 DEF Hunting, Smaller
    <2>6. Hunting'
      BY <1>2, <2>2, <2>4, <2>5 DEF Hunting
    <2> QED
      BY <1>2, <1>4, <2>4, <2>6 DEF SyncInv, BitHeard, sendVars
  <1>5. CASE decoder.mode = "gap"
    <2>1. BeforeStopBit
      BY <1>2, <1>5 DEF SyncInv, InGap
    <2> DEFINE resets == IF decoder.bytes = Filler
                         THEN Smaller(decoder.resets + 1, ResetCap) ELSE 0
    <2>2. decoder' = Decoder(0, "hunt", <<>>, decoder.bits, decoder.bytes, resets)
      BY <1>1, <1>2, <1>5, HearInGap
    <2>3. resets \in 0..ResetCap /\ 0 \in 0..preambleBits
      BY <1>3 DEF Smaller
    <2>4. /\ decoder' \in Decoders /\ decoder'.mode = "hunt" /\ decoder'.ones = 0
          /\ decoder'.bytes = <<>> /\ decoder'.bits = decoder.bits
          /\ decoder'.heard = decoder.bytes
          /\ decoder'.resets = IF decoder.bytes = Filler
                               THEN Smaller(decoder.resets + 1, ResetCap) ELSE 0
      <3>1. decoder.bytes \in Seq(Byte) /\ decoder.bits \in Seq(BOOLEAN)
        BY <1>1 DEF Decoders
      <3>2. <<>> \in Seq(Byte) /\ "hunt" \in {"hunt", "byte", "gap"}
        OBVIOUS
      <3>3. resets \in 0..ResetCap
        BY <2>3
      <3> HIDE DEF resets
      <3>4. /\ decoder' \in Decoders /\ decoder'.mode = "hunt" /\ decoder'.ones = 0
            /\ decoder'.bytes = <<>> /\ decoder'.bits = decoder.bits
            /\ decoder'.heard = decoder.bytes /\ decoder'.resets = resets
        BY <2>2, <2>3, <3>1, <3>2, <3>3 DEF Decoder, Decoders
      <3> QED BY <3>4 DEF resets
    <2>5. decoder'.ones + remainingPreambles' >= preambleBits
      BY <1>2, <1>3, <2>1, <2>4 DEF BeforeStopBit
    <2>6. Hunting'
      BY <1>2, <2>1, <2>4, <2>5 DEF Hunting, BeforeStopBit
    <2> QED
      BY <1>2, <1>5, <2>1, <2>4, <2>6 DEF SyncInv, StopBitHeard, sendVars
  <1>6. decoder.mode # "byte"
    BY <1>2 DEF SyncInv, InByte
  <1> QED
    BY <1>1, <1>4, <1>5, <1>6 DEF Decoders

LEMMA BitSync ==
  ASSUME StepInv, SyncInv, SendBit, decoder' = Hear(decoder, currentBit')
  PROVE  SyncInv' /\ BitHeard
  <1>1. TypeOK /\ decoder \in Decoders
    BY DEF StepInv, ShapeInv, SyncInv
  <1>2. /\ remainingPreambles = 0 /\ remainingPreambles' = 0
        /\ ~(bits_sent = ByteBits /\ bytes_sent + 1 >= transmitLength)
        /\ currentBit' = MaskedBit
        /\ bits_sent' = IF bits_sent = ByteBits THEN 0 ELSE bits_sent + 1
        /\ bytes_sent' = IF bits_sent = ByteBits THEN bytes_sent + 1 ELSE bytes_sent
        /\ UNCHANGED <<transmitPacket, transmitLength, transmitRepeats,
                       packetPending, sentResetsSincePacket>>
    BY DEF SendBit, sendVars, LastBitOfPacket, LastBitOfByte
  <1>3. /\ bits_sent \in 0..ByteBits /\ bytes_sent \in Nat /\ bytes_sent \in Slots
        /\ transmitLength \in Nat /\ decoder.ones \in 0..preambleBits
        /\ transmitPacket \in Array /\ requiredPreambles = preambleBits + 1
    BY <1>1 DEF TypeOK, Decoders, requiredPreambles, Slots
  <1>4. MaskedBit \in BOOLEAN
    BY <1>1, MaskedBitIsBoolean
  <1>5. ~(decoder.mode = "gap" /\ BeforeStopBit)
    BY <1>2, <1>3 DEF BeforeStopBit
  <1>6. ~BeforeStopBit'
    BY <1>2, <1>3 DEF BeforeStopBit, requiredPreambles
  <1>7. /\ decoder.bytes \in Seq(Byte) /\ decoder.bits \in Seq(BOOLEAN)
        /\ decoder.resets \in 0..ResetCap
    BY <1>1 DEF Decoders
  <1>8. bits_sent = 0 => currentBit' = FALSE
    BY <1>2 DEF MaskedBit
  <1>9. CASE decoder.mode = "hunt" /\ FirstTransmission
    <2>1. Hunting
      BY <1>9 DEF SyncInv
    <2>2. bits_sent < ByteBits
      BY <1>2, <1>3, <1>9, <2>1 DEF Hunting, FirstTransmission
    <2>3. bits_sent # 0 => currentBit'
      <3>1. bytes_sent = 0 /\ transmitPacket[0] = AllOnes
        BY <1>9, <2>1 DEF Hunting, FirstTransmission
      <3>2. bits_sent # 0 => AllOnes[bits_sent] = TRUE
        BY <1>3 DEF AllOnes
      <3> QED BY <1>2, <3>1, <3>2 DEF MaskedBit
    <2>4. bits_sent = 0 => decoder.ones = 0
      BY <1>9 DEF FirstTransmission
    <2>5. PICK ones \in 0..preambleBits :
            decoder' = Decoder(ones, "hunt", decoder.bytes, decoder.bits, <<>>,
                               decoder.resets)
      <3>1. Smaller(decoder.ones + 1, preambleBits) \in 0..preambleBits
        BY <1>3 DEF Smaller
      <3>2. CASE bits_sent = 0
        <4>1. decoder.ones < preambleBits /\ 0 \in 0..preambleBits
          BY <2>4, <3>2
        <4> QED BY <1>1, <1>8, <1>9, <3>2, <4>1, HearWhileHunting
      <3>3. CASE bits_sent # 0
        <4>1. currentBit' = TRUE
          BY <1>2, <1>4, <2>3, <3>3
        <4> QED BY <1>1, <1>9, <3>1, <4>1, HearWhileHunting
      <3> QED BY <3>2, <3>3
    <2>6. /\ decoder' \in Decoders /\ decoder'.mode = "hunt"
          /\ decoder'.bytes = decoder.bytes /\ decoder'.bits = decoder.bits
          /\ decoder'.heard = <<>> /\ decoder'.resets = decoder.resets
      BY <1>7, <2>5 DEF Decoder, Decoders
    <2>7. FirstTransmission'
      BY <1>2, <1>3, <1>9, <2>2 DEF FirstTransmission
    <2>8. Hunting'
      BY <1>2, <2>1, <2>2, <2>6, <2>7 DEF Hunting
    <2> QED
      BY <1>2, <1>5, <2>6, <2>8 DEF SyncInv, BitHeard, sendVars
  <1>10. CASE decoder.mode = "hunt" /\ ~FirstTransmission
    <2>1. /\ Hunting /\ bits_sent = 0 /\ bytes_sent = 0 /\ transmitLength > 0
          /\ decoder.ones >= preambleBits
          /\ decoder.bytes = <<>> /\ decoder.bits = <<>>
      BY <1>2, <1>3, <1>10 DEF SyncInv, Hunting
    <2>2. decoder' = Decoder(decoder.ones, "byte", decoder.bytes, decoder.bits, <<>>,
                             decoder.resets)
      <3>1. ~(decoder.ones < preambleBits)
        BY <1>3, <2>1
      <3> QED BY <1>1, <1>8, <1>10, <2>1, <3>1, HearWhileHunting
    <2>3. /\ decoder' \in Decoders /\ decoder'.mode = "byte"
          /\ decoder'.bytes = decoder.bytes /\ decoder'.bits = decoder.bits
          /\ decoder'.heard = <<>> /\ decoder'.resets = decoder.resets
      BY <1>3, <1>7, <2>2 DEF Decoder, Decoders
    <2>4. bits_sent' = 1 /\ bytes_sent' = 0
      BY <1>2, <2>1
    <2>5. /\ [k \in 1..(bits_sent' - 1) |-> transmitPacket'[bytes_sent'][k]] = <<>>
          /\ Packet(transmitPacket', bytes_sent') = <<>>
      BY <2>4 DEF Packet
    <2>6. InByte'
      BY <1>2, <2>1, <2>3, <2>4, <2>5 DEF InByte
    <2> QED
      BY <1>2, <1>5, <2>3, <2>6 DEF SyncInv, BitHeard, sendVars
  <1>11. CASE decoder.mode = "gap"
    <2>1. InGap
      BY <1>5, <1>11 DEF SyncInv
    <2>2. /\ bits_sent = 0 /\ bytes_sent < transmitLength /\ decoder.bits = <<>>
          /\ decoder.bytes = Packet(transmitPacket, bytes_sent)
      BY <2>1 DEF InGap
    <2>3. decoder' = Decoder(decoder.ones, "byte", decoder.bytes, decoder.bits, <<>>,
                             decoder.resets)
      BY <1>1, <1>8, <1>11, <2>2, HearInGap
    <2>4. /\ decoder' \in Decoders /\ decoder'.mode = "byte"
          /\ decoder'.bytes = decoder.bytes /\ decoder'.bits = decoder.bits
          /\ decoder'.heard = <<>> /\ decoder'.resets = decoder.resets
      BY <1>3, <1>7, <2>3 DEF Decoder, Decoders
    <2>5. bits_sent' = 1 /\ bytes_sent' = bytes_sent
      BY <1>2, <2>2
    <2>6. [k \in 1..(bits_sent' - 1) |-> transmitPacket'[bytes_sent'][k]] = <<>>
      BY <2>5
    <2>7. InByte'
      BY <1>2, <2>2, <2>4, <2>5, <2>6 DEF InByte
    <2> QED
      BY <1>2, <1>5, <2>4, <2>7 DEF SyncInv, BitHeard, sendVars
  <1>12. CASE decoder.mode = "byte"
    <2> DEFINE byte == transmitPacket[bytes_sent]
    <2>1. /\ bits_sent \in 1..ByteBits /\ bytes_sent < transmitLength
          /\ decoder.bits = [k \in 1..(bits_sent - 1) |-> byte[k]]
          /\ decoder.bytes = Packet(transmitPacket, bytes_sent)
      BY <1>3, <1>12 DEF SyncInv, InByte
    <2>2. currentBit' = byte[bits_sent] /\ byte \in Byte
      <3>1. byte \in Byte
        BY <1>3 DEF Array
      <3>2. bits_sent # 0
        BY <2>1
      <3> QED BY <1>2, <3>1, <3>2 DEF MaskedBit
    <2> HIDE DEF byte
    <2>3. /\ Append(decoder.bits, currentBit') = [k \in 1..bits_sent |-> byte[k]]
          /\ Len(decoder.bits) = bits_sent - 1
          /\ [k \in 1..ByteBits |-> byte[k]] = byte
      BY SMTT(20), <2>1, <2>2, BitsGrow
    <2>4. currentBit' \in BOOLEAN
      BY <1>2, <1>4
    <2>5. CASE bits_sent < ByteBits
      <3> DEFINE bits == [k \in 1..bits_sent |-> byte[k]]
      <3>0. Len(decoder.bits) < ByteBits /\ Len(decoder.bits) + 1 < ByteBits
        BY <2>1, <2>3, <2>5
      <3>a. Append(decoder.bits, currentBit') = bits
        BY <2>3
      <3>2. bits \in Seq(BOOLEAN)
        BY <2>1, <2>2 DEF Byte
      <3> HIDE DEF bits
      <3>1. decoder' = Decoder(decoder.ones, "byte", decoder.bytes, bits, <<>>,
                               decoder.resets)
        BY <1>1, <1>12, <2>4, <3>0, <3>a, HearInByte
      <3>3. /\ decoder' \in Decoders /\ decoder'.mode = "byte"
            /\ decoder'.bytes = decoder.bytes /\ decoder'.bits = bits
            /\ decoder'.heard = <<>> /\ decoder'.resets = decoder.resets
        BY <1>3, <1>7, <3>1, <3>2 DEF Decoder, Decoders
      <3>4. bits_sent' = bits_sent + 1 /\ bytes_sent' = bytes_sent
        BY <1>2, <2>5
      <3>5. [k \in 1..(bits_sent' - 1) |-> transmitPacket'[bytes_sent'][k]] = bits
        <4>1. bits_sent' - 1 = bits_sent
          BY <2>1, <3>4
        <4> QED BY <1>2, <3>4, <4>1 DEF bits, byte
      <3>6. remainingPreambles' = 0 /\ bits_sent' > 0 /\ bytes_sent' < transmitLength'
        BY <1>2, <2>1, <3>4
      <3>7. decoder'.bytes = Packet(transmitPacket', bytes_sent')
        BY <1>2, <2>1, <3>3, <3>4
      <3>8. decoder'.bits = [k \in 1..(bits_sent' - 1) |-> transmitPacket'[bytes_sent'][k]]
        BY <3>3, <3>5
      <3>9. InByte'
        BY <3>6, <3>7, <3>8 DEF InByte
      <3> QED
        BY <1>2, <1>5, <3>3, <3>9 DEF SyncInv, BitHeard, sendVars
    <2>6. CASE bits_sent = ByteBits
      <3> DEFINE bytes == Packet(transmitPacket, bytes_sent + 1)
      <3>1. Append(decoder.bytes, byte) = bytes
        BY <1>3, <2>1, PacketGrows DEF byte
      <3>2. bytes \in Seq(Byte)
        <4> HIDE DEF bytes
        <4>1. Append(decoder.bytes, byte) \in Seq(Byte)
          BY <1>7, <2>2, AppendProperties
        <4> QED BY <3>1, <4>1
      <3> HIDE DEF bytes
      <3>0. Len(decoder.bits) < ByteBits /\ ~(Len(decoder.bits) + 1 < ByteBits)
        BY <2>1, <2>3, <2>6
      <3>a. Append(decoder.bits, currentBit') = byte
        BY <2>3, <2>6
      <3>3. decoder' = Decoder(decoder.ones, "gap", Append(decoder.bytes, byte), <<>>,
                               <<>>, decoder.resets)
        BY <1>1, <1>12, <2>4, <3>0, <3>a, HearInByte
      <3>4. /\ decoder' \in Decoders /\ decoder'.mode = "gap"
            /\ decoder'.bytes = bytes /\ decoder'.bits = <<>>
            /\ decoder'.heard = <<>> /\ decoder'.resets = decoder.resets
        BY <1>3, <1>7, <3>1, <3>2, <3>3 DEF Decoder, Decoders
      <3>5. bits_sent' = 0 /\ bytes_sent' = bytes_sent + 1
        BY <1>2, <2>6
      <3>6. bytes_sent' < transmitLength
        BY <1>2, <1>3, <2>6, <3>5
      <3>7. Packet(transmitPacket', bytes_sent') = bytes
        BY <1>2, <3>5 DEF bytes
      <3>8. InGap'
        BY <1>2, <1>3, <3>4, <3>5, <3>6, <3>7 DEF InGap
      <3> QED
        BY <1>2, <1>5, <1>6, <3>4, <3>8 DEF SyncInv, BitHeard, sendVars
    <2> QED
      BY <2>1, <2>5, <2>6
  <1> QED
    BY <1>1, <1>9, <1>10, <1>11, <1>12 DEF Decoders

LEMMA LastBitSync ==
  ASSUME StepInv, SyncInv, EndPacket, decoder' = Hear(decoder, currentBit')
  PROVE  SyncInv' /\ (LastBitHeard \/ FirstTransmissionEnds)
  <1>1. TypeOK /\ decoder \in Decoders
    BY DEF StepInv, ShapeInv, SyncInv
  <1>2. /\ bits_sent = ByteBits /\ bytes_sent + 1 >= transmitLength
        /\ currentBit' = MaskedBit /\ remainingPreambles = 0
        /\ bits_sent' = 0 /\ bytes_sent' = 0
        /\ remainingPreambles' = requiredPreambles
        /\ Repeat \/ TakePending \/ SendFiller
    BY DEF EndPacket, LastBitOfPacket, LastBitOfByte
  <1>3. /\ bytes_sent \in Nat /\ bytes_sent \in Slots /\ ByteBits \in 1..ByteBits
        /\ transmitLength \in Nat /\ decoder.ones \in 0..preambleBits
        /\ transmitPacket \in Array /\ requiredPreambles = preambleBits + 1
        /\ decoder.bytes \in Seq(Byte) /\ decoder.bits \in Seq(BOOLEAN)
        /\ decoder.resets \in 0..ResetCap
    BY <1>1 DEF TypeOK, Decoders, requiredPreambles, Slots
  <1>4. MaskedBit \in BOOLEAN
    BY <1>1, MaskedBitIsBoolean
  <1>5. transmitRepeats = 0 \/ transmitLength > 0 => transmitLength' > 0
    <2>1. CASE Repeat
      BY <1>1, <2>1 DEF Repeat, TypeOK
    <2>2. CASE TakePending
      BY <2>2 DEF TakePending, StepInv, MailInv
    <2>3. CASE SendFiller
      BY <2>3 DEF SendFiller
    <2> QED BY <1>2, <2>1, <2>2, <2>3
  <1>6. CASE decoder.mode = "hunt"
    <2>1. Hunting /\ FirstTransmission
      BY <1>2, <1>3, <1>6 DEF SyncInv, Hunting
    <2>2. currentBit' = TRUE
      <3>1. bytes_sent = 0 /\ transmitPacket[0] = AllOnes
        BY <2>1 DEF Hunting, FirstTransmission
      <3>2. bits_sent # 0 /\ AllOnes[bits_sent] = TRUE
        BY <1>2, <1>3 DEF AllOnes
      <3> QED BY <1>2, <3>1, <3>2 DEF MaskedBit
    <2> DEFINE ones == Smaller(decoder.ones + 1, preambleBits)
    <2>3. ones \in 0..preambleBits
      BY <1>3 DEF Smaller
    <2>4. decoder' = Decoder(ones, "hunt", decoder.bytes, decoder.bits, <<>>,
                             decoder.resets)
      BY <1>1, <1>6, <2>2, HearWhileHunting
    <2> HIDE DEF ones
    <2>5. /\ decoder' \in Decoders /\ decoder'.mode = "hunt" /\ decoder'.ones = ones
          /\ decoder'.bytes = decoder.bytes /\ decoder'.bits = decoder.bits
          /\ decoder'.heard = <<>> /\ decoder'.resets = decoder.resets
      BY <1>3, <2>3, <2>4 DEF Decoder, Decoders
    <2>6. transmitLength' > 0
      BY <1>5, <2>1 DEF FirstTransmission
    <2>7. decoder'.ones + remainingPreambles' >= preambleBits
      BY <1>2, <1>3, <2>3, <2>5
    <2>8. Hunting'
      BY <1>2, <2>1, <2>5, <2>6, <2>7 DEF Hunting
    <2> QED
      BY <1>6, <2>1, <2>5, <2>8 DEF SyncInv, FirstTransmissionEnds
  <1>7. CASE decoder.mode = "byte"
    <2> DEFINE byte == transmitPacket[bytes_sent]
               bytes == Packet(transmitPacket, bytes_sent + 1)
    <2>1. /\ bytes_sent < transmitLength
          /\ decoder.bits = [k \in 1..(ByteBits - 1) |-> byte[k]]
          /\ decoder.bytes = Packet(transmitPacket, bytes_sent)
      BY <1>2, <1>7 DEF SyncInv, InByte
    <2>2. currentBit' = byte[ByteBits] /\ byte \in Byte
      <3>1. byte \in Byte
        BY <1>3 DEF Array
      <3>2. bits_sent # 0
        BY <1>2
      <3> QED BY <1>2, <3>1, <3>2 DEF MaskedBit
    <2>3. Append(decoder.bytes, byte) = bytes
      BY <1>3, <2>1, PacketGrows
    <2> HIDE DEF byte
    <2>4. /\ Append(decoder.bits, currentBit') = byte
          /\ Len(decoder.bits) = ByteBits - 1
      BY <1>3, <2>1, <2>2, BitsGrow
    <2>5. currentBit' \in BOOLEAN
      BY <1>2, <1>4
    <2>6. Len(decoder.bits) < ByteBits /\ ~(Len(decoder.bits) + 1 < ByteBits)
      BY <2>4
    <2>7. decoder' = Decoder(decoder.ones, "gap", Append(decoder.bytes, byte), <<>>,
                             <<>>, decoder.resets)
      BY <1>1, <1>7, <2>4, <2>5, <2>6, HearInByte
    <2>8. bytes = OnAir
      <3>1. bytes_sent + 1 = transmitLength
        BY <1>2, <1>3, <2>1
      <3> QED BY <3>1 DEF OnAir
    <2> HIDE DEF bytes
    <2>9. bytes \in Seq(Byte)
      <3>1. Append(decoder.bytes, byte) \in Seq(Byte)
        BY <1>3, <2>2, AppendProperties
      <3> QED BY <2>3, <3>1
    <2>10. /\ decoder' \in Decoders /\ decoder'.mode = "gap"
           /\ decoder'.bytes = bytes /\ decoder'.bits = <<>>
           /\ decoder'.heard = <<>> /\ decoder'.resets = decoder.resets
      BY <1>3, <2>3, <2>7, <2>9 DEF Decoder, Decoders
    <2>11. transmitLength > 0 /\ transmitLength' > 0
      BY <1>3, <1>5, <2>1
    <2>12. BeforeStopBit'
      BY <1>2, <2>10, <2>11 DEF BeforeStopBit, requiredPreambles
    <2> QED
      BY <1>7, <2>8, <2>10, <2>11, <2>12 DEF SyncInv, LastBitHeard
  <1>8. decoder.mode # "gap"
    BY <1>2, <1>3 DEF SyncInv, InGap, BeforeStopBit
  <1> QED
    BY <1>1, <1>6, <1>7, <1>8 DEF Decoders

LEMMA BitStartSync ==
  ASSUME StepInv, SyncInv, BitStart PROVE SyncInv' /\ Heard
  BY PreambleSync, BitSync, LastBitSync DEF BitStart, Heard

\* No other step touches what the decoder and the interrupt share, but an
\* answer, which drops the repeats.
OtherSteps ==
  /\ UNCHANGED <<bitVars, transmitPacket, transmitLength, decoder>>
  /\ transmitRepeats' \in {transmitRepeats, 0}
  /\ sentResetsSincePacket' \in {sentResetsSincePacket, 0}

LEMMA OtherSync == ASSUME SyncInv, OtherSteps PROVE SyncInv'
  BY DEF OtherSteps, bitVars, SyncInv, Hunting, FirstTransmission, InByte, InGap,
     BeforeStopBit

LEMMA NextIsOther ==
  ASSUME [Next]_vars PROVE OtherSteps \/ (BitStart /\ UNCHANGED mainVars)
  <1>1. CASE BitRest
    BY <1>1 DEF BitRest, checkAck, AckTimeout, InPulse, NoPulse, GoodPulse, BadPulse,
       OtherSteps
  <1>2. CASE Call
    BY <1>2 DEF Call, schedulePacket, Goto, isrVars, sendVars, OtherSteps
  <1>3. CASE InSchedule
    BY <1>3 DEF InSchedule, LeaveSpin, CopyByte, AddChecksum, SetLength, SetRepeats,
       PostPacket, ClearResets, ForgetAck, OpenWindow, Goto, isrVars, sendVars,
       OtherSteps
  <1>4. CASE RestartResets
    BY <1>4 DEF RestartResets, Goto, isrVars, sendVars, OtherSteps
  <1>5. CASE UNCHANGED vars
    BY <1>5 DEF vars, isrVars, sendVars, OtherSteps
  <1> QED
    BY <1>1, <1>2, <1>3, <1>4, <1>5 DEF Next, interruptHandler

\* How far the count of resets runs ahead of what was heard.
CountInv ==
  /\ OnAir # Filler => sentResetsSincePacket = 0
  /\ IF decoder.mode = "gap" /\ BeforeStopBit
     THEN IF decoder.bytes = Filler
          THEN sentResetsSincePacket <= decoder.resets + 2
          ELSE sentResetsSincePacket <= 1
     ELSE sentResetsSincePacket <= decoder.resets + 1

HearInv == StepInv /\ SyncInv /\ CountInv

\* The very first transmission, of no bytes, is no filler.
LEMMA NothingIsNoFiller ==
  ASSUME transmitLength = 0 PROVE OnAir # Filler
  <1>1. OnAir = <<>>
    BY DEF OnAir, Packet
  <1>2. Len(Filler) = 3
    BY DEF Filler, idlePacket, resetPacket
  <1> QED BY <1>1, <1>2

LEMMA InitCount == Init => CountInv
  BY DEF Init, CountInv, SilentDecoder

LEMMA BitStartCount ==
  ASSUME HearInv, BitStart, Heard PROVE CountInv'
  <1>1. /\ sentResetsSincePacket \in 0..ResetCap /\ decoder.resets \in 0..ResetCap
        /\ transmitRepeats \in Nat
    BY DEF HearInv, StepInv, ShapeInv, TypeOK, SyncInv, Decoders
  <1>2. /\ OnAir # Filler => sentResetsSincePacket = 0
        /\ IF decoder.mode = "gap" /\ BeforeStopBit
           THEN IF decoder.bytes = Filler
                THEN sentResetsSincePacket <= decoder.resets + 2
                ELSE sentResetsSincePacket <= 1
           ELSE sentResetsSincePacket <= decoder.resets + 1
    BY DEF HearInv, CountInv
  <1>3. UNCHANGED sendVars => OnAir' = OnAir
    BY DEF sendVars, OnAir
  <1>4. CASE StopBitHeard
    <2>1. sentResetsSincePacket' <= decoder'.resets + 1
      BY <1>1, <1>2, <1>4 DEF StopBitHeard, Smaller
    <2> QED
      BY <1>2, <1>3, <1>4, <2>1 DEF StopBitHeard, CountInv
  <1>5. CASE BitHeard
    <2>1. decoder'.resets = decoder.resets /\ sentResetsSincePacket' = sentResetsSincePacket
      BY <1>5 DEF BitHeard
    <2> QED
      BY <1>2, <1>3, <1>5, <2>1 DEF BitHeard, CountInv
  \* What a new packet on the rails does to the count.
  <1>6. ASSUME EndPacket, transmitLength = 0 => transmitRepeats = 0
        PROVE  /\ OnAir' # Filler => sentResetsSincePacket' = 0
               /\ \/ sentResetsSincePacket' = 0
                  \/ sentResetsSincePacket' = sentResetsSincePacket
                  \/ /\ sentResetsSincePacket' <= sentResetsSincePacket + 1
                     /\ sentResetsSincePacket' \in Nat
    <2>1. CASE Repeat
      <3>1. OnAir' = OnAir /\ sentResetsSincePacket' = sentResetsSincePacket
        BY <2>1 DEF Repeat, OnAir
      <3> QED BY <1>2, <3>1
    <2>2. CASE TakePending
      BY <2>2 DEF TakePending
    <2>3. CASE SendFiller
      <3>1. OnAir' = Filler
        BY <2>3, FillerOnAir
      <3>2. sentResetsSincePacket' = Smaller(sentResetsSincePacket + 1, ResetCap)
        BY <2>3 DEF SendFiller
      <3> QED BY <1>1, <3>1, <3>2 DEF Smaller
    <2> QED BY <1>6, <2>1, <2>2, <2>3 DEF EndPacket
  <1>7. CASE LastBitHeard
    <2>1. /\ EndPacket /\ transmitLength > 0 /\ decoder.mode = "byte"
          /\ decoder'.bytes = OnAir /\ decoder'.resets = decoder.resets
          /\ decoder'.mode = "gap" /\ BeforeStopBit'
      BY <1>7 DEF LastBitHeard
    <2>2. sentResetsSincePacket <= decoder.resets + 1
      BY <1>2, <2>1
    <2>3. OnAir # Filler => sentResetsSincePacket' <= 1
      BY <1>1, <1>2, <1>6, <2>1
    <2>4. sentResetsSincePacket' <= decoder'.resets + 2
      BY <1>1, <1>6, <2>1, <2>2
    <2> QED
      BY <1>6, <2>1, <2>3, <2>4 DEF CountInv
  <1>8. CASE FirstTransmissionEnds
    <2>1. /\ EndPacket /\ transmitLength = 0 /\ transmitRepeats = 0
          /\ decoder'.mode = "hunt" /\ decoder'.resets = decoder.resets
      BY <1>8 DEF FirstTransmissionEnds, FirstTransmission
    <2>2. sentResetsSincePacket = 0
      BY <1>2, <2>1, NothingIsNoFiller
    <2>3. sentResetsSincePacket' <= decoder'.resets + 1
      BY <1>1, <1>6, <2>1, <2>2
    <2> QED
      BY <1>6, <2>1, <2>3 DEF CountInv
  <1> QED
    BY <1>4, <1>5, <1>7, <1>8 DEF Heard

LEMMA OtherCount == ASSUME HearInv, OtherSteps PROVE CountInv'
  <1>1. sentResetsSincePacket \in Nat /\ decoder.resets \in Nat
    BY DEF HearInv, StepInv, ShapeInv, TypeOK, SyncInv, Decoders
  <1>2. /\ decoder' = decoder /\ OnAir' = OnAir /\ BeforeStopBit' = BeforeStopBit
    BY DEF OtherSteps, bitVars, OnAir, BeforeStopBit
  <1>3. sentResetsSincePacket' = sentResetsSincePacket \/ sentResetsSincePacket' = 0
    BY DEF OtherSteps
  <1> QED
    BY <1>1, <1>2, <1>3 DEF HearInv, CountInv

LEMMA HearInvariant == Spec => []HearInv
  <1>1. Init => HearInv
    BY InitShape, InitHandOff, InitCopy, InitSync, InitCount DEF HearInv, StepInv
  <1>2. HearInv /\ [Next]_vars => SyncInv' /\ CountInv'
    BY NextIsOther, BitStartSync, OtherSync, BitStartCount, OtherCount DEF HearInv
  <1> QED
    BY <1>1, <1>2, StepInvariant, PTL DEF Spec, HearInv

\* Of the resets that checkResets counts, all but the one on the rails and the
\* one whose stop bit is due were heard in full by the decoder.
THEOREM CountsWhatWasHeard == Spec => []CountedResetsWereHeard
  <1>1. HearInv => CountedResetsWereHeard
    <2> SUFFICES ASSUME HearInv PROVE CountedResetsWereHeard
      OBVIOUS
    <2>1. sentResetsSincePacket \in Nat /\ decoder.resets \in Nat
      BY DEF HearInv, StepInv, ShapeInv, TypeOK, SyncInv, Decoders
    <2> QED
      BY <2>1 DEF HearInv, CountInv, CountedResetsWereHeard
  <1> QED
    BY <1>1, HearInvariant, PTL

\* A window is open only on the programming track and only between two calls.
WindowInv ==
  /\ pc \in {"disarm", "arm"} => ~isMainTrack
  /\ ackPending => ~isMainTrack /\ pc = "ready"

LEMMA WindowInvariant == Spec => []WindowInv
  <1>1. Init => WindowInv
    BY DEF Init, WindowInv
  <1>2. WindowInv /\ [Next]_vars => WindowInv'
    <2> SUFFICES ASSUME WindowInv, [Next]_vars PROVE WindowInv'
      OBVIOUS
    <2> USE DEF WindowInv
    <2>1. CASE interruptHandler
      <3>1. pc' = pc
        BY <2>1 DEF interruptHandler, mainVars
      <3>2. ackPending' => ackPending
        BY <2>1 DEF interruptHandler, BitStart, BitRest, checkAck, AckTimeout, InPulse,
           NoPulse, GoodPulse, BadPulse, ackVars
      <3> QED BY <3>1, <3>2
    <2>2. CASE Call
      BY <2>2 DEF Call, schedulePacket, CallerReady, Goto, ackVars
    <2>3. CASE InSchedule
      BY <2>3 DEF InSchedule, LeaveSpin, CopyByte, AddChecksum, SetLength, SetRepeats,
         PostPacket, ClearResets, ForgetAck, OpenWindow, Goto, ackVars
    <2>4. CASE RestartResets
      BY <2>4 DEF RestartResets, Goto, ackVars
    <2>5. CASE UNCHANGED vars
      BY <2>5 DEF vars, mainVars, ackVars
    <2> QED
      BY <2>1, <2>2, <2>3, <2>4, <2>5 DEF Next
  <1> QED
    BY <1>1, <1>2, PTL DEF Spec

\* A second reset is begun only when no packet is left to be heard: a caller
\* that sees its window time out knows that its question was asked in full.
THEOREM TimeoutMeansHeard == Spec => TimeoutAfterLastCopy
  <1>1. ASSUME HearInv, WindowInv, Next, ackPending, ~ackPending', ~ackDetected'
        PROVE  OwedPackets = <<>>
    <2>1. AckTimeout /\ BitRest
      BY <1>1 DEF Next, interruptHandler, BitStart, BitRest, checkAck, InPulse, NoPulse,
         GoodPulse, BadPulse, ackVars, Call, schedulePacket, InSchedule, LeaveSpin,
         CopyByte, AddChecksum, SetLength, SetRepeats, PostPacket, ClearResets,
         ForgetAck, OpenWindow, RestartResets, Goto
    <2>2. sentResetsSincePacket \in Nat /\ sentResetsSincePacket > 1
      BY <1>1, <2>1 DEF AckTimeout, HearInv, StepInv, ShapeInv, TypeOK
    <2>3. OnAir = Filler
      BY <1>1, <2>2 DEF HearInv, CountInv
    <2>4. ~packetPending
      BY <1>1, <2>2 DEF HearInv, StepInv, HandOffInv, WaitingPacketHasNoResets, WindowInv
    <2>5. ~(decoder.mode = "gap" /\ BeforeStopBit /\ decoder.bytes # Filler)
      <3>1. ~(sentResetsSincePacket <= 1)
        BY <2>2
      <3> QED BY <1>1, <2>3, <3>1 DEF HearInv, CountInv
    <2>6. decoder.mode = "gap" /\ remainingPreambles = requiredPreambles => BeforeStopBit
      BY <1>1 DEF HearInv, SyncInv, InGap, requiredPreambles
    <2>7. StopBitDue = <<>> /\ DueOnAir = <<>> /\ DueInMail = <<>>
      BY <2>3, <2>4, <2>5, <2>6 DEF StopBitDue, DueOnAir, DueInMail
    <2> QED
      BY <2>7 DEF OwedPackets
  <1>2. HearInv /\ WindowInv /\ [Next]_vars =>
          [ackPending /\ ~ackPending' /\ ~ackDetected' => OwedPackets = <<>>]_vars
    BY <1>1
  <1> QED
    BY <1>2, HearInvariant, WindowInvariant, PTL DEF Spec, TimeoutAfterLastCopy

-----------------------------------------------------------------------------
(* What is heard is what was scheduled: every step is a step of the channel, *)
(* or stutters.                                                             *)

Bytes == Seq(Byte)

LEMMA CopyTyped ==
  ASSUME NEW p \in Bytes, NEW n \in Nat
  PROVE  Copy(p, n) \in Seq(Bytes) /\ Len(Copy(p, n)) = n
  BY DEF Copy

AllDueTyped ==
  /\ StopBitDue \in Seq(Bytes) /\ DueOnAir \in Seq(Bytes) /\ DueInMail \in Seq(Bytes)
  /\ OnAir \in Bytes /\ Waiting \in Bytes

LEMMA DueTyped == HearInv => AllDueTyped
  <1> SUFFICES ASSUME HearInv PROVE AllDueTyped
    OBVIOUS
  <1>1. OnAir \in Bytes /\ Waiting \in Bytes
    BY PacketIsSeq DEF HearInv, StepInv, ShapeInv, TypeOK, OnAir, Waiting, Bytes
  <1>2. decoder.bytes \in Bytes /\ transmitRepeats \in Nat /\ pendingRepeats \in Nat
    BY DEF HearInv, StepInv, ShapeInv, TypeOK, SyncInv, Decoders, Bytes
  <1>3. 1 + transmitRepeats \in Nat /\ 1 + pendingRepeats \in Nat
    BY <1>2
  <1>4. /\ Copy(OnAir, 1 + transmitRepeats) \in Seq(Bytes)
        /\ Copy(Waiting, 1 + pendingRepeats) \in Seq(Bytes)
    BY <1>1, <1>3, CopyTyped
  <1>5. <<>> \in Seq(Bytes) /\ <<decoder.bytes>> \in Seq(Bytes)
    BY <1>2
  <1> QED
    BY <1>1, <1>4, <1>5 DEF AllDueTyped, StopBitDue, DueOnAir, DueInMail

LEMMA DueTypedNext == HearInv' => AllDueTyped'
  BY DueTyped, PTL

\* The first of some copies.
LEMMA FirstCopy ==
  ASSUME NEW p \in Bytes, NEW n \in Nat
  PROVE  Copy(p, 1) = <<p>> /\ <<p>> \o Copy(p, n) = Copy(p, 1 + n)
  <1> DEFINE t == Copy(p, n)
             u == Copy(p, 1 + n)
             v == <<p>> \o t
  <1>1. t \in Seq(Bytes) /\ Len(t) = n /\ \A k \in 1..n : t[k] = p
    BY DEF Copy
  <1>2. u \in Seq(Bytes) /\ Len(u) = 1 + n /\ \A k \in 1..(1 + n) : u[k] = p
    BY DEF Copy
  <1>3. Copy(p, 1) = <<p>>
    BY DEF Copy
  <1> HIDE DEF t, u
  <1>4. v \in Seq(Bytes) /\ Len(v) = 1 + n
    BY <1>1
  <1>5. ASSUME NEW k \in 1..(1 + n) PROVE v[k] = u[k]
    <2>1. CASE k = 1
      BY <1>1, <1>2, <1>5, <2>1
    <2>2. CASE k # 1
      <3>1. k - 1 \in 1..n
        BY <1>5, <2>2
      <3>2. v[k] = t[k - 1]
        BY <1>1, <1>5, <2>2, <3>1
      <3> QED BY <1>1, <1>2, <1>5, <3>1, <3>2
    <2> QED BY <2>1, <2>2
  <1> HIDE DEF v
  <1>6. v = u
    BY <1>2, <1>4, <1>5, SeqEqual
  <1> QED BY <1>3, <1>6 DEF v, t, u

\* What a concatenation holds.
LEMMA Joined ==
  ASSUME NEW s \in Seq(Bytes), NEW t \in Seq(Bytes)
  PROVE  /\ s \o t \in Seq(Bytes) /\ Len(s \o t) = Len(s) + Len(t)
         /\ \A k \in 1..Len(s) : (s \o t)[k] = s[k]
         /\ \A k \in 1..Len(t) : (s \o t)[Len(s) + k] = t[k]
  <1> DEFINE u == s \o t
  <1>1. /\ u \in Seq(Bytes) /\ Len(u) = Len(s) + Len(t)
        /\ \A k \in 1..Len(s) : u[k] = s[k]
    OBVIOUS
  <1>2. \A k \in 1..Len(t) : u[Len(s) + k] = t[k]
    OBVIOUS
  <1> QED BY <1>1, <1>2

\* The sequence without all but the first of a run of equal packets.
CutOf(due, cut) ==
  \E first, last \in DOMAIN due :
    /\ first < last
    /\ \A k \in first..last : due[k] = due[first]
    /\ cut = SubSeq(due, 1, first) \o SubSeq(due, last + 1, Len(due))

LEMMA CopiesCut ==
  ASSUME NEW before \in Seq(Bytes), NEW after \in Seq(Bytes), NEW p \in Bytes,
         NEW n \in Nat, n > 1
  PROVE  CutOf((before \o Copy(p, n)) \o after, (before \o Copy(p, 1)) \o after)
  <1> DEFINE due == (before \o Copy(p, n)) \o after
  <1> DEFINE c == Copy(p, n)
             one == Copy(p, 1)
             m == Len(before)
             q == Len(after)
             front == before \o c
             kept == before \o one
  <1>1. /\ c \in Seq(Bytes) /\ Len(c) = n /\ \A k \in 1..n : c[k] = p
        /\ one \in Seq(Bytes) /\ Len(one) = 1 /\ one[1] = p
    BY DEF Copy
  <1>2. m \in Nat /\ q \in Nat
    OBVIOUS
  <1> HIDE DEF c, one
  <1> DEFINE lc == Len(c)
             lo == Len(one)
             l == Len(front)
  <1>a. /\ front \in Seq(Bytes) /\ l = m + lc
        /\ \A k \in 1..m : front[k] = before[k]
        /\ \A k \in 1..lc : front[m + k] = c[k]
    BY <1>1, Joined
  <1>b. /\ kept \in Seq(Bytes) /\ Len(kept) = m + lo
        /\ \A k \in 1..m : kept[k] = before[k]
        /\ \A k \in 1..lo : kept[m + k] = one[k]
    BY <1>1, Joined
  <1>c. lc = n /\ lo = 1
    BY <1>1
  <1>5. due = front \o after
    BY DEF c, front
  <1> HIDE DEF front, kept, lc, lo, due
  <1>6. /\ due \in Seq(Bytes) /\ Len(due) = l + q
        /\ \A k \in 1..l : due[k] = front[k]
        /\ \A k \in 1..q : due[l + k] = after[k]
    <2> DEFINE u == front \o after
    <2>1. /\ u \in Seq(Bytes) /\ Len(u) = l + q
          /\ \A k \in 1..l : u[k] = front[k]
          /\ \A k \in 1..q : u[l + k] = after[k]
      BY <1>a, Joined
    <2> HIDE DEF u
    <2>2. due = u
      BY <1>5 DEF u
    <2> QED BY <2>1, <2>2
  <1> HIDE DEF m, q, l
  <1>3. /\ front \in Seq(Bytes) /\ l = m + n
        /\ \A k \in 1..m : front[k] = before[k]
        /\ \A k \in 1..n : front[m + k] = p
    BY <1>1, <1>a, <1>c
  <1>4. /\ kept \in Seq(Bytes) /\ Len(kept) = m + 1
        /\ \A k \in 1..m : kept[k] = before[k]
        /\ kept[m + 1] = p
    <2>1. 1 \in 1..lo
      BY <1>c
    <2>2. kept[m + 1] = one[1]
      BY <1>b, <2>1
    <2> QED BY <1>1, <1>b, <1>c, <2>2
  <1> DEFINE first == m + 1
             last == l
             len == Len(due)
             head == SubSeq(due, 1, first)
             tail == SubSeq(due, last + 1, len)
  <1>7. /\ first \in Nat /\ last \in Nat /\ len \in Nat /\ 1 <= first /\ first < last
        /\ last <= len /\ len = last + q
    BY <1>2, <1>3, <1>6
  <1>8. DOMAIN due = 1..len
    BY <1>6
  <1>9. \A k \in first..last : due[k] = p
    <2> SUFFICES ASSUME NEW k \in first..last PROVE due[k] = p
      OBVIOUS
    <2>1. PICK i \in 1..n : k = m + i
      <3>1. k - m \in 1..n /\ k = m + (k - m)
        BY <1>2, <1>3, <1>7
      <3> QED BY <3>1
    <2>2. k \in 1..l
      BY <1>7
    <2> QED BY <1>3, <1>6, <2>1, <2>2
  <1>10. head = kept
    <2>1. /\ head \in Seq(Bytes) /\ Len(head) = first
          /\ \A k \in 1..first : head[k] = due[k]
      BY <1>6, <1>7
    <2>2. ASSUME NEW k \in 1..first PROVE head[k] = kept[k]
      <3>1. k \in 1..l /\ head[k] = due[k] /\ due[k] = front[k]
        BY <1>6, <1>7, <2>1
      <3>2. CASE k \in 1..m
        BY <1>3, <1>4, <3>1, <3>2
      <3>3. CASE k = m + 1
        <4>1. front[k] = p
          <5>1. 1 \in 1..n
            OBVIOUS
          <5> QED BY <1>3, <3>3, <5>1
        <4> QED BY <1>4, <3>1, <3>3, <4>1
      <3>4. k \in 1..m \/ k = m + 1
        BY <1>2
      <3> QED BY <3>2, <3>3, <3>4
    <2> HIDE DEF head, first
    <2>3. Len(kept) = first
      BY <1>4 DEF first
    <2> QED BY <1>4, <2>1, <2>2, <2>3, SeqEqual
  <1>11. tail = after
    <2>1. \A k \in (last + 1)..len : due[k] \in Bytes
      BY <1>6, <1>7, <1>8
    <2>2. /\ tail \in Seq(Bytes) /\ Len(tail) = q
          /\ \A k \in 1..q : tail[k] = due[last + k]
      <3>1. /\ tail \in Seq(Bytes)
            /\ Len(tail) = IF last + 1 <= len THEN len - (last + 1) + 1 ELSE 0
            /\ \A k \in 1..(len - (last + 1) + 1) : tail[k] = due[(last + 1) + k - 1]
        <4>1. last + 1 \in Int /\ len \in Int
          BY <1>7
        <4> HIDE DEF last, len
        <4> QED BY <2>1, <4>1, SubSeqProperties
      <3> HIDE DEF tail, last, len
      <3>2. len - (last + 1) + 1 = q /\ \A k \in 1..q : (last + 1) + k - 1 = last + k
        BY <1>2, <1>7
      <3>3. Len(tail) = q
        BY <1>2, <1>7, <3>1
      <3> QED BY <3>1, <3>2, <3>3
    <2>3. ASSUME NEW k \in 1..q PROVE tail[k] = after[k]
      <3> QED BY <1>6, <2>2
    <2> HIDE DEF tail
    <2> QED BY <2>2, <2>3, SeqEqual DEF q
  <1>12. first \in DOMAIN due /\ last \in DOMAIN due
    BY <1>7, <1>8
  <1>13. \A k \in first..last : due[k] = due[first]
    <2>1. first \in first..last
      BY <1>7
    <2>2. due[first] = p
      BY <1>9, <2>1
    <2> QED BY <1>9, <2>2
  <1>14. (before \o Copy(p, 1)) \o after = head \o tail
    BY <1>10, <1>11 DEF kept, one
  <1> HIDE DEF first, last
  <1>15. CutOf(due, (before \o Copy(p, 1)) \o after)
    BY <1>7, <1>12, <1>13, <1>14 DEF CutOf
  <1> QED BY <1>15 DEF due

ChannelStep == Channel!Next \/ UNCHANGED <<OwedPackets, decoder.heard>>

LEMMA OwedAssociates ==
  HearInv => OwedPackets = StopBitDue \o (DueOnAir \o DueInMail)
  BY DueTyped, ConcatAssociative DEF AllDueTyped, OwedPackets

LEMMA OwedAssociatesNext ==
  HearInv' => (OwedPackets = StopBitDue \o (DueOnAir \o DueInMail))'
  BY OwedAssociates, PTL

\* Whether a stop bit is due is seen on the interrupt's side alone.
LEMMA StopBitIsDue ==
  SyncInv => (StopBitDue # <<>> => decoder.mode = "gap" /\ BeforeStopBit)
  BY DEF StopBitDue, SyncInv, InGap, BeforeStopBit, requiredPreambles

LEMMA StopBitIsDueNext ==
  SyncInv' => (StopBitDue # <<>> => decoder.mode = "gap" /\ BeforeStopBit)'
  BY StopBitIsDue, PTL

\* The stop bit: the packet that was due is heard.
LEMMA StopBitDelivers ==
  ASSUME HearInv, HearInv', StopBitHeard, UNCHANGED pendVars PROVE ChannelStep
  <1> DEFINE rest == DueOnAir \o DueInMail
  <1>1. /\ decoder.mode = "gap" /\ BeforeStopBit /\ decoder'.mode = "hunt"
        /\ decoder'.heard = decoder.bytes
        /\ UNCHANGED <<sendVars, packetPending, pendVars>>
    BY DEF StopBitHeard
  <1>2. UNCHANGED <<DueOnAir, DueInMail>>
    BY <1>1 DEF sendVars, pendVars, DueOnAir, DueInMail, OnAir, Waiting
  <1>3. rest \in Seq(Bytes) /\ decoder.bytes \in Bytes
    BY DueTyped, Joined DEF AllDueTyped, HearInv, SyncInv, Decoders, Bytes
  <1>4. OwedPackets = StopBitDue \o rest
    BY OwedAssociates
  <1>5. OwedPackets' = rest
    <2>1. StopBitDue' = <<>>
      BY <1>1 DEF StopBitDue
    <2>2. OwedPackets' = <<>> \o rest
      BY <1>2, <2>1, DueTyped, ConcatEmptySeq DEF AllDueTyped, OwedPackets
    <2> HIDE DEF rest
    <2> QED BY <1>3, <2>2, ConcatEmptySeq
  <1>6. CASE decoder.bytes = Filler
    <2>1. StopBitDue = <<>>
      BY <1>6 DEF StopBitDue
    <2>2. OwedPackets = rest
      <3> HIDE DEF rest
      <3> QED BY <1>3, <1>4, <2>1, ConcatEmptySeq
    <2> QED
      BY <1>1, <1>5, <1>6, <2>2 DEF ChannelStep, Channel!Next, Channel!DeliverFiller
  <1>7. CASE decoder.bytes # Filler
    <2>1. StopBitDue = <<decoder.bytes>>
      BY <1>1, <1>7 DEF StopBitDue, BeforeStopBit
    <2>2. /\ OwedPackets # <<>> /\ Head(OwedPackets) = decoder.bytes
          /\ Tail(OwedPackets) = rest
      <3> HIDE DEF rest
      <3>1. /\ <<decoder.bytes>> \o rest # <<>>
            /\ Head(<<decoder.bytes>> \o rest) = decoder.bytes
            /\ Tail(<<decoder.bytes>> \o rest) = rest
        BY <1>3
      <3> QED BY <1>4, <2>1, <3>1
    <2> QED
      BY <1>1, <1>5, <2>2 DEF ChannelStep, Channel!Next, Channel!Deliver
  <1> QED BY <1>6, <1>7

\* A bit within a packet or a preamble.
LEMMA BitIsQuiet ==
  ASSUME HearInv, HearInv', BitHeard, UNCHANGED pendVars PROVE ChannelStep
  <1>1. UNCHANGED <<sendVars, packetPending, pendVars>> /\ decoder'.heard = <<>>
    BY DEF BitHeard
  <1>2. UNCHANGED <<DueOnAir, DueInMail>>
    BY <1>1 DEF sendVars, pendVars, DueOnAir, DueInMail, OnAir, Waiting
  <1>3. StopBitDue = <<>> /\ StopBitDue' = <<>>
    BY StopBitIsDue, StopBitIsDueNext DEF HearInv, BitHeard
  <1>4. OwedPackets' = OwedPackets
    BY <1>2, <1>3 DEF OwedPackets
  <1> QED
    BY <1>1, <1>4 DEF ChannelStep, Channel!Next, Channel!Quiet

\* The last bit of a transmission: the packet on the rails waits for its stop
\* bit, and the next one is its repeat, the one in the mailbox or a filler.
LEMMA NextOnAir ==
  ASSUME HearInv, HearInv', EndPacket, UNCHANGED pendVars,
         transmitLength = 0 => transmitRepeats = 0
  PROVE  DueOnAir \o DueInMail =
           (IF transmitLength = 0 \/ OnAir = Filler THEN <<>> ELSE <<OnAir>>)
             \o (DueOnAir' \o DueInMail')
  <1> DEFINE ended == IF transmitLength = 0 \/ OnAir = Filler THEN <<>> ELSE <<OnAir>>
  <1>1. /\ DueOnAir \in Seq(Bytes) /\ DueInMail \in Seq(Bytes)
        /\ OnAir \in Bytes /\ Waiting \in Bytes
        /\ DueOnAir' \in Seq(Bytes) /\ DueInMail' \in Seq(Bytes)
    BY DueTyped, DueTypedNext DEF AllDueTyped
  <1>2. ended \in Seq(Bytes)
    BY <1>1
  <1>3. transmitRepeats \in Nat
    BY DEF HearInv, StepInv, ShapeInv, TypeOK
  <1>4. CASE Repeat
    <2>1. /\ DueInMail' = DueInMail /\ OnAir' = OnAir /\ transmitLength' = transmitLength
          /\ transmitRepeats > 0 /\ transmitRepeats' = transmitRepeats - 1
      BY <1>4 DEF Repeat, DueInMail, OnAir, Waiting, pendVars
    <2>2. DueOnAir = ended \o DueOnAir'
      <3>1. CASE OnAir = Filler
        <4>1. DueOnAir = <<>> /\ DueOnAir' = <<>> /\ ended = <<>>
          BY <2>1, <3>1 DEF DueOnAir
        <4> QED BY <4>1
      <3>2. CASE OnAir # Filler
        <4>1. transmitLength # 0
          BY <1>3, <2>1
        <4> DEFINE n == transmitRepeats
        <4>2. n \in Nat /\ 1 + transmitRepeats' = n
          BY <1>3, <2>1
        <4>3. ended = <<OnAir>> /\ DueOnAir' = Copy(OnAir, n) /\ DueOnAir = Copy(OnAir, 1 + n)
          BY <2>1, <3>2, <4>1, <4>2 DEF DueOnAir
        <4> HIDE DEF n, ended
        <4> QED BY <1>1, <4>2, <4>3, FirstCopy
      <3> QED BY <3>1, <3>2
    <2> HIDE DEF ended
    <2>3. (ended \o DueOnAir') \o DueInMail = ended \o (DueOnAir' \o DueInMail)
      <3> DEFINE air == DueOnAir'
      <3>1. air \in Seq(Bytes)
        BY <1>1
      <3> HIDE DEF air
      <3>2. (ended \o air) \o DueInMail = ended \o (air \o DueInMail)
        BY SMTT(20), <1>1, <1>2, <3>1, ConcatAssociative
      <3> QED BY <3>2 DEF air
    <2> QED BY <2>1, <2>2, <2>3 DEF ended
  <1>5. transmitRepeats = 0 => DueOnAir = ended
    <2>1. Copy(OnAir, 1) = <<OnAir>>
      BY <1>1, FirstCopy
    <2> QED BY <2>1 DEF DueOnAir
  <1>6. CASE TakePending
    <2>1. DueOnAir = ended
      BY <1>5, <1>6 DEF TakePending
    <2>2. pendingLength \in 1..MAX_PACKET_SIZE
      <3>1. packetPending
        BY <1>6 DEF TakePending
      <3> QED BY <3>1 DEF HearInv, StepInv, ShapeInv, TypeOK, MailInv
    <2>3. OnAir' = Waiting /\ transmitLength' # 0 /\ transmitRepeats' = pendingRepeats
      <3>1. Packet(transmitPacket', pendingLength) = Waiting
        BY <1>6, <2>2 DEF TakePending, Packet, Waiting, Slots
      <3> QED BY <1>6, <2>2, <3>1 DEF TakePending, OnAir
    <2>4. DueOnAir' = DueInMail /\ DueInMail' = <<>>
      BY <1>6, <2>3 DEF TakePending, DueOnAir, DueInMail
    <2> HIDE DEF ended
    <2>5. DueInMail \o <<>> = DueInMail
      BY <1>1, ConcatEmptySeq
    <2> QED BY <2>1, <2>4, <2>5 DEF ended
  <1>7. CASE SendFiller
    <2>1. DueOnAir = ended
      BY <1>5, <1>7 DEF SendFiller
    <2>2. DueOnAir' = <<>> /\ DueInMail = <<>> /\ DueInMail' = <<>>
      BY <1>7, FillerOnAir DEF SendFiller, DueOnAir, DueInMail
    <2> QED BY <2>1, <2>2
  <1> QED BY <1>4, <1>6, <1>7 DEF EndPacket

LEMMA LastBitIsQuiet ==
  ASSUME HearInv, HearInv', LastBitHeard, UNCHANGED pendVars PROVE ChannelStep
  <1>1. /\ EndPacket /\ transmitLength > 0 /\ decoder.mode = "byte"
        /\ decoder'.mode = "gap" /\ decoder'.bytes = OnAir /\ BeforeStopBit'
        /\ decoder'.heard = <<>>
    BY DEF LastBitHeard
  <1>2. transmitLength # 0
    BY <1>1 DEF HearInv, StepInv, ShapeInv, TypeOK
  <1>3. StopBitDue = <<>>
    BY <1>1 DEF StopBitDue
  <1>4. StopBitDue' = IF OnAir = Filler THEN <<>> ELSE <<OnAir>>
    BY <1>1 DEF StopBitDue, BeforeStopBit, requiredPreambles
  <1> DEFINE rest == DueOnAir \o DueInMail
             later == DueOnAir' \o DueInMail'
  <1>5. rest = StopBitDue' \o later
    BY <1>1, <1>2, <1>4, NextOnAir
  <1>6. OwedPackets = StopBitDue \o rest /\ OwedPackets' = StopBitDue' \o later
    BY OwedAssociates, OwedAssociatesNext
  <1>7. rest \in Seq(Bytes)
    BY DueTyped, Joined DEF AllDueTyped
  <1>8. OwedPackets' = OwedPackets
    <2> HIDE DEF rest, later
    <2> QED BY <1>3, <1>5, <1>6, <1>7, ConcatEmptySeq
  <1> QED
    BY <1>1, <1>8 DEF ChannelStep, Channel!Next, Channel!Quiet

LEMMA FirstTransmissionIsQuiet ==
  ASSUME HearInv, HearInv', FirstTransmissionEnds, UNCHANGED pendVars PROVE ChannelStep
  <1>1. /\ EndPacket /\ transmitLength = 0 /\ transmitRepeats = 0
        /\ decoder.mode = "hunt" /\ decoder'.mode = "hunt" /\ decoder'.heard = <<>>
    BY DEF FirstTransmissionEnds, FirstTransmission
  <1>2. StopBitDue = <<>> /\ StopBitDue' = <<>>
    BY <1>1 DEF StopBitDue
  <1> DEFINE later == DueOnAir' \o DueInMail'
  <1>3. DueOnAir \o DueInMail = <<>> \o later
    BY <1>1, NextOnAir
  <1>4. OwedPackets = <<>> \o (DueOnAir \o DueInMail) /\ OwedPackets' = <<>> \o later
    BY <1>2, OwedAssociates, OwedAssociatesNext
  <1>5. later \in Seq(Bytes)
    BY DueTypedNext, Joined DEF AllDueTyped
  <1>6. OwedPackets' = OwedPackets
    <2> HIDE DEF later
    <2> QED BY <1>3, <1>4, <1>5, ConcatEmptySeq
  <1> QED
    BY <1>1, <1>6 DEF ChannelStep, Channel!Next, Channel!Quiet

\* The interrupts that start no bit, and the main loop.
LEMMA AnswerCuts ==
  ASSUME HearInv, OtherSteps, UNCHANGED <<packetPending, pendVars>>
  PROVE  ChannelStep
  <1>1. /\ UNCHANGED <<remainingPreambles, transmitPacket, transmitLength, decoder>>
        /\ transmitRepeats' = transmitRepeats \/ transmitRepeats' = 0
    BY DEF OtherSteps, bitVars
  <1>2. /\ StopBitDue' = StopBitDue /\ DueInMail' = DueInMail /\ OnAir' = OnAir
        /\ decoder'.heard = decoder.heard
    BY <1>1 DEF pendVars, StopBitDue, DueInMail, OnAir, Waiting
  <1>3. transmitRepeats \in Nat
    BY DEF HearInv, StepInv, ShapeInv, TypeOK
  <1>4. CASE DueOnAir' = DueOnAir
    BY <1>2, <1>4 DEF ChannelStep, OwedPackets
  <1>5. CASE DueOnAir' # DueOnAir
    <2> DEFINE n == 1 + transmitRepeats
    <2>1. /\ transmitLength # 0 /\ OnAir # Filler
          /\ transmitRepeats' = 0 /\ n > 1 /\ n \in Nat
      BY <1>1, <1>2, <1>3, <1>5 DEF DueOnAir
    <2>2. DueOnAir = Copy(OnAir, n) /\ DueOnAir' = Copy(OnAir, 1)
      BY <1>1, <1>2, <2>1 DEF DueOnAir
    <2>3. /\ OwedPackets = (StopBitDue \o Copy(OnAir, n)) \o DueInMail
          /\ OwedPackets' = (StopBitDue \o Copy(OnAir, 1)) \o DueInMail
      BY <1>2, <2>2 DEF OwedPackets
    <2>4. /\ StopBitDue \in Seq(Bytes) /\ DueInMail \in Seq(Bytes) /\ OnAir \in Bytes
      BY DueTyped DEF AllDueTyped
    <2> HIDE DEF n
    <2>5. CutOf(OwedPackets, OwedPackets')
      BY <2>1, <2>3, <2>4, CopiesCut
    <2> QED
      BY <1>2, <2>5 DEF CutOf, ChannelStep, Channel!Next, Channel!CutShort
  <1> QED BY <1>4, <1>5

LEMMA PostSubmits == ASSUME HearInv, OtherSteps, PostPacket PROVE ChannelStep
  <1>1. /\ UNCHANGED <<sendVars, pendVars, decoder, remainingPreambles>>
        /\ packetPending'
    BY DEF PostPacket, Goto, isrVars, bitVars
  <1>2. /\ StopBitDue' = StopBitDue /\ DueOnAir' = DueOnAir /\ OnAir' = OnAir
        /\ Waiting' = Waiting /\ decoder'.heard = decoder.heard
    BY <1>1 DEF pendVars, sendVars, StopBitDue, DueOnAir, OnAir, Waiting
  <1>3. /\ ~packetPending /\ Waiting \in SealedPackets /\ pendingRepeats \in Repeats
    BY PostIsSealed DEF HearInv, SealedPackets
  <1>4. DueInMail = <<>>
    BY <1>3 DEF DueInMail
  <1>5. /\ StopBitDue \in Seq(Bytes) /\ DueOnAir \in Seq(Bytes)
    BY DueTyped DEF AllDueTyped
  <1>6. OwedPackets = StopBitDue \o DueOnAir
    <2>1. StopBitDue \o DueOnAir \in Seq(Bytes)
      BY <1>5, Joined
    <2> QED BY <1>4, <2>1, ConcatEmptySeq DEF OwedPackets
  <1>7. OwedPackets' = OwedPackets \o DueInMail'
    BY <1>2, <1>6 DEF OwedPackets
  <1>8. CASE Waiting = Filler
    <2>1. DueInMail' = <<>>
      BY <1>2, <1>8 DEF DueInMail
    <2>2. OwedPackets' = OwedPackets
      BY <1>2, <1>4, <2>1 DEF OwedPackets
    <2> QED BY <1>2, <2>2 DEF ChannelStep
  <1>9. CASE Waiting # Filler
    <2>1. DueInMail' = Copy(Waiting, 1 + pendingRepeats)
      BY <1>1, <1>2, <1>9 DEF DueInMail, pendVars
    <2>2. 1 + pendingRepeats \in {1 + n : n \in Repeats}
      BY <1>3
    <2>3. Channel!Submit(Waiting, 1 + pendingRepeats)
      BY <1>2, <1>7, <2>1 DEF Channel!Submit, Copy
    <2> QED
      BY <1>3, <2>2, <2>3 DEF ChannelStep, Channel!Next
  <1> QED BY <1>8, <1>9

LEMMA OtherChannel ==
  ASSUME HearInv, OtherSteps, [Next]_vars, ~(BitStart /\ UNCHANGED mainVars)
  PROVE  ChannelStep
  <1>1. CASE UNCHANGED <<packetPending, pendVars>>
    BY <1>1, AnswerCuts
  <1>2. CASE PostPacket
    BY <1>2, PostSubmits
  \* The statements that fill the mailbox find it empty.
  <1>3. CASE CopyByte \/ AddChecksum \/ SetLength \/ SetRepeats
    <2>1. /\ UNCHANGED <<sendVars, decoder, remainingPreambles, packetPending>>
          /\ ~packetPending
      BY <1>3 DEF CopyByte, AddChecksum, SetLength, SetRepeats, Goto, isrVars, bitVars,
         HearInv, StepInv, HandOffInv, WriterExcludesReader, InSchedulePacket
    <2>2. /\ StopBitDue' = StopBitDue /\ DueOnAir' = DueOnAir /\ DueInMail' = DueInMail
          /\ decoder'.heard = decoder.heard
      BY <2>1 DEF sendVars, StopBitDue, DueOnAir, DueInMail, OnAir
    <2> QED BY <2>2 DEF ChannelStep, OwedPackets
  <1>4. CASE interruptHandler
    <2>1. UNCHANGED <<packetPending, pendVars>>
      BY <1>4 DEF interruptHandler, BitRest, mainVars
    <2> QED BY <2>1, <1>1
  <1>5. CASE Call \/ RestartResets \/ LeaveSpin \/ ClearResets \/ ForgetAck \/ OpenWindow
    <2>1. UNCHANGED <<packetPending, pendVars>>
      BY <1>5 DEF Call, schedulePacket, RestartResets, LeaveSpin, ClearResets, ForgetAck,
         OpenWindow
    <2> QED BY <2>1, <1>1
  <1>6. CASE UNCHANGED vars
    BY <1>1, <1>6 DEF vars, mainVars
  <1> QED
    BY <1>2, <1>3, <1>4, <1>5, <1>6 DEF Next, InSchedule

LEMMA BitStartChannel ==
  ASSUME HearInv, HearInv', BitStart, UNCHANGED mainVars PROVE ChannelStep
  <1>1. UNCHANGED pendVars
    BY DEF mainVars
  <1>2. Heard
    BY BitStartSync DEF HearInv
  <1> QED
    BY <1>1, <1>2, StopBitDelivers, LastBitIsQuiet, FirstTransmissionIsQuiet, BitIsQuiet
    DEF Heard

\* The rails as a decoder hears them are the channel: every packet handed to
\* schedulePacket is heard whole, with its checksum, in order, 1 + repeats
\* times or, after an answer, fewer; nothing else is heard but the filler.
\* That each is heard in the end is left to the run of EveryPacketIsHeard.
THEOREM RailsAreTheChannel == Spec => Channel!Spec
  <1>1. Init => Channel!Init
    BY DEF Init, SilentDecoder, Channel!Init, OwedPackets, StopBitDue, DueOnAir, DueInMail
  <1>2. HearInv /\ HearInv' /\ [Next]_vars => [Channel!Next]_Channel!channelVars
    <2> SUFFICES ASSUME HearInv, HearInv', [Next]_vars PROVE ChannelStep
      BY DEF Channel!channelVars, ChannelStep
    <2>1. CASE BitStart /\ UNCHANGED mainVars
      BY <2>1, BitStartChannel
    <2>2. CASE OtherSteps /\ ~(BitStart /\ UNCHANGED mainVars)
      BY <2>2, OtherChannel
    <2> QED
      BY <2>1, <2>2, NextIsOther
  <1> QED
    BY <1>1, <1>2, HearInvariant, PTL DEF Spec, Channel!Spec

=============================================================================
