-------------------------- MODULE WaveformProperties --------------------------
(***************************************************************************)
(* What the waveform of one track must do: invariants, action properties   *)
(* and liveness of DCCWaveform, and the two abstract specifications it     *)
(* implements.                                                             *)
(***************************************************************************)
EXTENDS DCCWaveform, FiniteSets

CONSTANT NoMail

\* It is no packet, and no packet in a mailbox.
ASSUME NoMailAssumption ==
  NoMail \notin Seq(Byte) /\ NoMail \notin [packet : Seq(Byte), repeats : Nat]

InSchedulePacket ==
  {"copy", "length", "repeats", "post"}

Labels == {"ready", "spin", "clear", "disarm", "arm"} \cup InSchedulePacket

Array == [Slots -> Byte]

\* Every variable keeps the range its C++ type and its use give it.
TypeOK ==
  /\ state \in 0..3 /\ currentBit \in BOOLEAN
  /\ halves \in (0..2) \X (0..2)
  /\ remainingPreambles \in 0..requiredPreambles
  /\ bits_sent \in 0..ByteBits /\ bytes_sent \in Slots
  /\ transmitPacket \in Array /\ transmitLength \in 0..MAX_PACKET_SIZE
  /\ transmitRepeats \in Nat
  /\ packetPending \in BOOLEAN /\ pendingPacket \in Array
  /\ pendingLength \in 0..MAX_PACKET_SIZE /\ pendingRepeats \in Nat
  /\ sentResetsSincePacket \in 0..ResetCap
  /\ ackPending \in BOOLEAN /\ ackDetected \in BOOLEAN
  /\ ackPulse \in 0..(2 * PulseWrap)
  /\ pc \in Labels
  /\ buffer \in Seq(Byte) /\ Len(buffer) < MAX_PACKET_SIZE
  /\ repeats \in Nat /\ b \in 0..Len(buffer) /\ checksum \in Byte

-----------------------------------------------------------------------------
(* The hand-off.                                                           *)

\* The main loop writes the pending buffer only while the interrupt has no
\* reason to read it (the spin on packetPending in schedulePacket).
WriterExcludesReader == pc \in InSchedulePacket => ~packetPending

\* While a packet waits to be sent no reset is counted: a count above zero
\* is about resets sent after every packet scheduled so far.  The one gap is
\* between the last two statements of schedulePacket.
WaitingPacketHasNoResets ==
  packetPending /\ pc # "clear" => sentResetsSincePacket = 0

\* A programming write, which waits for RESET_MIN resets, never waits in
\* schedulePacket: its mailbox is empty when it calls.
ProgrammingNeverSpins == ~isMainTrack /\ pc = "spin" => ~packetPending

-----------------------------------------------------------------------------
(* What the decoder hears.                                                 *)

\* sentResetsSincePacket is raised when a reset is begun: of the resets it
\* counts, all but the one being sent and the one whose stop bit is still to
\* come were heard in full.  checkResets relies on that.
CountedResetsWereHeard ==
  sentResetsSincePacket <= decoder.resets + 2

\* Each finished bit is as long high as it is low: one interrupt each way for
\* a one, two for a zero.
BalancedBits ==
  state = 0 /\ halves # <<0, 0>> =>
    halves = IF currentBit THEN <<1, 1>> ELSE <<2, 2>>

\* The copies still to be heard: of the packet whose stop bit is due, of the
\* packet on the rails and of the packet in the mailbox.
Copy(packet, n) == [k \in 1..n |-> packet]

StopBitDue ==
  IF /\ decoder.mode = "gap" /\ remainingPreambles = requiredPreambles
     /\ decoder.bytes # Filler
  THEN <<decoder.bytes>> ELSE <<>>

OnAir   == Packet(transmitPacket, transmitLength)
Waiting == Packet(pendingPacket, pendingLength)

DueOnAir ==
  IF transmitLength = 0 \/ OnAir = Filler THEN <<>>
  ELSE Copy(OnAir, 1 + transmitRepeats)

DueInMail ==
  IF packetPending /\ Waiting # Filler THEN Copy(Waiting, 1 + pendingRepeats)
  ELSE <<>>

OwedPackets == StopBitDue \o DueOnAir \o DueInMail

\* A window closes without an answer only after every copy of the packet it
\* was opened for was heard, repeats included.
TimeoutAfterLastCopy ==
  [][ackPending /\ ~ackPending' /\ ~ackDetected' => OwedPackets = <<>>]_vars

\* A packet is taken for sending as it was when it was posted: no statement
\* of the main loop changes the pending buffer between the two.
PendingIsStable ==
  [][packetPending /\ packetPending' => UNCHANGED pendVars]_vars

\* schedulePacket, which spins until the mailbox is empty, always returns.
ScheduleReturns == pc = "spin" ~> pc = "ready"

-----------------------------------------------------------------------------
(* The checksummed packets, and the abstract specifications.               *)

\* The checksum of the first n bytes has the bits that an odd number of them has.
Parity(buf, n) ==
  [k \in 1..ByteBits |-> Cardinality({i \in 1..n : buf[i][k]}) % 2 = 1]

Sealed(buf) == Append(buf, Parity(buf, Len(buf)))
SealedPackets == {Sealed(buf) : buf \in Buffers}

Channel == INSTANCE PacketChannel WITH
  Packets <- SealedPackets,
  Copies <- {1 + n : n \in Repeats},
  FillerPacket <- Filler,
  Silence <- <<>>,
  owed <- OwedPackets,
  heard <- decoder.heard

\* What is heard on the rails is what was scheduled: every packet whole and
\* checksummed, in order, 1 + repeats times (fewer only after an answer), and
\* each of them in the end.
EveryPacketIsHeard == Channel!FairSpec

\* What the packet level sees of the mailbox, the rails and the caller.
Mailbox == IF packetPending
           THEN [packet |-> Waiting, repeats |-> pendingRepeats] ELSE NoMail
Air     == IF transmitLength = 0 THEN NoMail ELSE OnAir
Stage   == IF pc \in {"clear", "disarm", "arm"} THEN pc ELSE "free"

Track == INSTANCE TrackPackets WITH
  mainTrack <- isMainTrack,
  Sendable <- SealedPackets,
  RepeatCounts <- Repeats,
  FillerOnAir <- Filler,
  Nothing <- NoMail,
  CountCap <- ResetCap,
  WindowResets <- AckResets,
  CallResets <- ResetMin,
  mailbox <- Mailbox,
  air <- Air,
  left <- transmitRepeats,
  resets <- sentResetsSincePacket,
  window <- ackPending,
  detected <- ackDetected,
  stage <- Stage

\* The track is the packet-level track: the unlocked hand-off loses, tears and
\* reorders nothing.
ImplementsTrackPackets == Track!Spec
=============================================================================
