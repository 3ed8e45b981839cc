----------------------------- MODULE DCCWaveform -----------------------------
(***************************************************************************)
(* One track of the command station: the bit generator that runs in the    *)
(* 58 microsecond timer interrupt, and the main-loop operations that hand  *)
(* packets to it and watch it (schedulePacket, setAckPending).  The        *)
(* interrupt handler is atomic for the main loop; the main loop may be     *)
(* interrupted between any two of its statements, so each statement of     *)
(* schedulePacket that touches a shared variable is an action.             *)
(*                                                                         *)
(* The mobile decoder that listens to the rails is not part of the         *)
(* repository.  It is modelled as the receiver of the bit stream           *)
(* (variable decoder) so that what the track promises can be stated on     *)
(* what is heard and not on what was meant.                                *)
(***************************************************************************)
EXTENDS Integers, Sequences

CONSTANTS
  isMainTrack,      \* TRUE for the main track, FALSE for the programming one
  preambleBits,     \* ones a decoder may count on before a packet
  ByteBits,         \* bits in a byte (8 in the code)
  MAX_PACKET_SIZE,  \* bytes in a packet buffer, checksum included
  Buffers,          \* the packets, without checksum, that callers schedule
  Repeats,          \* the repeat counts that callers ask for
  ResetCap,         \* where sentResetsSincePacket saturates (250)
  AckResets,        \* resets after which an unanswered window closes (6)
  ResetMin,         \* resets a programming write waits for (RESET_MIN, 8)
  MinPulse,         \* MIN_ACK_PULSE_DURATION, in interrupts
  MaxPulse,         \* MAX_ACK_PULSE_DURATION, in interrupts
  PulseWrap         \* range of the 16-bit ackPulseDuration, in interrupts

Byte == [1..ByteBits -> BOOLEAN]

ASSUME TrackAssumption ==
  /\ isMainTrack \in BOOLEAN
  /\ preambleBits \in Nat \ {0}
  /\ ByteBits \in Nat \ {0}
  /\ MAX_PACKET_SIZE \in Nat /\ MAX_PACKET_SIZE >= 3

ASSUME CallerAssumption ==
  /\ Buffers \subseteq Seq(Byte)
  /\ \A buf \in Buffers : Len(buf) > 0
  /\ Repeats \subseteq Nat

ASSUME AckAssumption ==
  /\ AckResets \in Nat \ {0} /\ ResetMin \in Nat /\ ResetCap \in Nat
  /\ AckResets < ResetMin /\ ResetMin <= ResetCap
  /\ MinPulse \in Nat /\ MaxPulse \in Nat /\ PulseWrap \in Nat
  /\ 0 < MinPulse /\ MinPulse <= MaxPulse /\ MaxPulse < PulseWrap

VARIABLES
  \* the waveform, owned by the interrupt
  state, currentBit, halves, remainingPreambles, bits_sent, bytes_sent,
  transmitPacket, transmitLength, transmitRepeats,
  \* the hand-off from the main loop to the interrupt
  packetPending, pendingPacket, pendingLength, pendingRepeats,
  sentResetsSincePacket,
  \* the acknowledgement window
  ackPending, ackDetected, ackPulse,
  \* the main loop inside schedulePacket and setAckPending
  pc, buffer, repeats, b, checksum,
  \* the listening decoder
  decoder

bitVars  == <<currentBit, remainingPreambles, bits_sent, bytes_sent>>
sendVars == <<transmitPacket, transmitLength, transmitRepeats>>
pendVars == <<pendingPacket, pendingLength, pendingRepeats>>
ackVars  == <<ackPending, ackDetected, ackPulse>>
callVars == <<buffer, repeats, b, checksum>>
isrVars  == <<state, halves, bitVars, sendVars, decoder>>
mainVars == <<pc, callVars, pendVars>>
vars == <<isrVars, packetPending, sentResetsSincePacket, ackVars, mainVars>>

-----------------------------------------------------------------------------
(* Bytes, packets and the arrays that hold them.                           *)

Slots    == 0..(MAX_PACKET_SIZE - 1)
AllOnes  == [k \in 1..ByteBits |-> TRUE]
AllZeros == [k \in 1..ByteBits |-> FALSE]
Xor(x, y) == [k \in 1..ByteBits |-> x[k] # y[k]]

idlePacket  == <<AllOnes, AllZeros, AllOnes>>
resetPacket == <<AllZeros, AllZeros, AllZeros>>
Filler == IF isMainTrack THEN idlePacket ELSE resetPacket

\* The packet held in the first len entries of an array.
Packet(array, len) == [k \in 1..len |-> array[k - 1]]

\* A filler packet over the front of an array; the rest is left as it was.
Overlay(packet, array) ==
  [s \in Slots |-> IF s < 3 THEN packet[s + 1] ELSE array[s]]

\* Seeded fault: the preamble without the stop bit of the packet before.
PreamblesWithoutStopBit == preambleBits

requiredPreambles == preambleBits + 1

-----------------------------------------------------------------------------
(* The listening decoder: preambleBits ones, then bytes each announced by  *)
(* a zero; a one in place of that zero ends the packet and is not counted  *)
(* into the next preamble.                                                 *)

SilentDecoder == [ones |-> 0, mode |-> "hunt", bytes |-> <<>>, bits |-> <<>>,
                  heard |-> <<>>, resets |-> 0]

Smaller(x, y) == IF x < y THEN x ELSE y

\* The decoder after one more bit; heard is the packet this bit completed,
\* resets counts the filler packets heard since the last other packet.
Hear(d, bit) ==
  LET quiet == [d EXCEPT !.heard = <<>>]
      ended == [quiet EXCEPT !.mode = "hunt", !.ones = 0, !.bytes = <<>>,
                             !.heard = d.bytes,
                             !.resets = IF d.bytes = Filler
                                        THEN Smaller(d.resets + 1, ResetCap)
                                        ELSE 0]
      grown == Append(d.bits, bit)
  IN CASE d.mode = "hunt" /\ bit ->
            [quiet EXCEPT !.ones = Smaller(@ + 1, preambleBits)]
       [] d.mode = "hunt" /\ ~bit /\ d.ones < preambleBits ->
            [quiet EXCEPT !.ones = 0]
       [] d.mode = "hunt" /\ ~bit /\ d.ones >= preambleBits ->
            [quiet EXCEPT !.mode = "byte"]
       [] d.mode = "byte" /\ Len(grown) < ByteBits ->
            [quiet EXCEPT !.bits = grown]
       [] d.mode = "byte" /\ Len(grown) = ByteBits ->
            [quiet EXCEPT !.mode = "gap", !.bits = <<>>,
                          !.bytes = Append(@, grown)]
       [] d.mode = "gap" /\ ~bit -> [quiet EXCEPT !.mode = "byte"]
       [] d.mode = "gap" /\ bit  -> ended

-----------------------------------------------------------------------------
(* Static objects are zero before the constructor runs; the constructor    *)
(* copies the idle packet but sets no length and no preambles, so the very *)
(* first transmission is one byte without a preamble.                      *)

Init ==
  /\ state = 0 /\ currentBit = FALSE /\ halves = <<0, 0>>
  /\ remainingPreambles = 0 /\ bits_sent = 0 /\ bytes_sent = 0
  /\ transmitPacket = Overlay(idlePacket, [s \in Slots |-> AllZeros])
  /\ transmitLength = 0 /\ transmitRepeats = 0
  /\ packetPending = FALSE /\ sentResetsSincePacket = 0
  /\ pendingPacket = [s \in Slots |-> AllZeros]
  /\ pendingLength = 0 /\ pendingRepeats = 0
  /\ ackPending = FALSE /\ ackDetected = FALSE /\ ackPulse = 0
  /\ pc = "ready" /\ buffer = <<>> /\ repeats = 0
  /\ b = 0 /\ checksum = AllZeros
  /\ decoder = SilentDecoder

-----------------------------------------------------------------------------
(* interrupt2: choose the next bit; at the end of a packet choose the next *)
(* packet.  Runs in the interrupt that starts a bit.                       *)

SendPreamble ==
  /\ remainingPreambles > 0
  /\ currentBit' = TRUE
  /\ remainingPreambles' = remainingPreambles - 1
  /\ UNCHANGED <<bits_sent, bytes_sent, sendVars, packetPending,
                 sentResetsSincePacket>>

\* transmitPacket[bytes_sent] & bitMask[bits_sent]: entry 0 of the mask is
\* empty, so that every byte starts with a zero.
MaskedBit ==
  IF bits_sent = 0 THEN FALSE ELSE transmitPacket[bytes_sent][bits_sent]

LastBitOfByte   == bits_sent = ByteBits
\* Seeded fault: > for >= reads one byte past the packet.
LastBitOneByteLate == bits_sent = ByteBits /\ bytes_sent + 1 > transmitLength

LastBitOfPacket == LastBitOfByte /\ bytes_sent + 1 >= transmitLength

SendBit ==
  /\ remainingPreambles = 0 /\ ~LastBitOfPacket
  /\ currentBit' = MaskedBit
  /\ bits_sent' = IF LastBitOfByte THEN 0 ELSE bits_sent + 1
  /\ bytes_sent' = IF LastBitOfByte THEN bytes_sent + 1 ELSE bytes_sent
  /\ UNCHANGED <<remainingPreambles, sendVars, packetPending,
                 sentResetsSincePacket>>

\* Seeded fault: a repeat is counted as a reset.
RepeatCounted ==
  /\ transmitRepeats > 0
  /\ transmitRepeats' = transmitRepeats - 1
  /\ sentResetsSincePacket' = Smaller(sentResetsSincePacket + 1, ResetCap)
  /\ UNCHANGED <<transmitPacket, transmitLength, packetPending>>

Repeat ==
  /\ transmitRepeats > 0
  /\ transmitRepeats' = transmitRepeats - 1
  /\ UNCHANGED <<transmitPacket, transmitLength, packetPending,
                 sentResetsSincePacket>>

\* Seeded fault: the packet is taken but still marked as pending.
TakeAndLeavePending ==
  /\ transmitRepeats = 0 /\ packetPending
  /\ transmitPacket' = [s \in Slots |-> IF s < pendingLength
                                        THEN pendingPacket[s]
                                        ELSE transmitPacket[s]]
  /\ transmitLength' = pendingLength
  /\ transmitRepeats' = pendingRepeats
  /\ sentResetsSincePacket' = 0
  /\ UNCHANGED packetPending

TakePending ==
  /\ transmitRepeats = 0 /\ packetPending
  /\ transmitPacket' = [s \in Slots |-> IF s < pendingLength
                                        THEN pendingPacket[s]
                                        ELSE transmitPacket[s]]
  /\ transmitLength' = pendingLength
  /\ transmitRepeats' = pendingRepeats
  /\ packetPending' = FALSE
  /\ sentResetsSincePacket' = 0

SendFiller ==
  /\ transmitRepeats = 0 /\ ~packetPending
  /\ transmitPacket' = Overlay(Filler, transmitPacket)
  /\ transmitLength' = 3
  /\ transmitRepeats' = 0
  /\ sentResetsSincePacket' = Smaller(sentResetsSincePacket + 1, ResetCap)
  /\ UNCHANGED packetPending

EndPacket ==
  /\ remainingPreambles = 0 /\ LastBitOfPacket
  /\ currentBit' = MaskedBit
  /\ bits_sent' = 0 /\ bytes_sent' = 0
  /\ remainingPreambles' = requiredPreambles
  /\ Repeat \/ TakePending \/ SendFiller

-----------------------------------------------------------------------------
(* checkAck: called by interrupt1 on every interrupt that does not start a *)
(* bit, while the window is open.  Whether the current is above the        *)
(* threshold is an input.  ackPulse is 0 when no pulse is being timed      *)
(* (ackPulseStart == 0) and otherwise one more than the interrupts since   *)
(* its leading edge; it folds at twice the range of the 16-bit duration.   *)

Older(pulse) ==
  IF pulse = 0 THEN 0
  ELSE IF pulse = 2 * PulseWrap THEN PulseWrap + 1 ELSE pulse + 1

\* ackPulseDuration = micros() - ackPulseStart, cut to an unsigned int.
ackPulseDuration == Older(ackPulse) - 1
StoredDuration   == ackPulseDuration % PulseWrap
ValidPulse == StoredDuration >= MinPulse /\ StoredDuration <= MaxPulse

AckTimeout ==
  /\ sentResetsSincePacket > AckResets
  /\ ackPending' = FALSE
  /\ UNCHANGED <<ackDetected, ackPulse, transmitRepeats>>

InPulse ==
  /\ sentResetsSincePacket <= AckResets
  /\ ackPulse' = IF ackPulse = 0 THEN 1 ELSE Older(ackPulse)
  /\ UNCHANGED <<ackPending, ackDetected, transmitRepeats>>

NoPulse ==
  /\ sentResetsSincePacket <= AckResets /\ ackPulse = 0
  /\ UNCHANGED <<ackVars, transmitRepeats>>

\* Seeded fault: an answer does not cut the repeats short.
PulseKeepsRepeats ==
  /\ sentResetsSincePacket <= AckResets /\ ackPulse # 0 /\ ValidPulse
  /\ ackDetected' = TRUE /\ ackPending' = FALSE
  /\ ackPulse' = Older(ackPulse)
  /\ UNCHANGED transmitRepeats

GoodPulse ==
  /\ sentResetsSincePacket <= AckResets /\ ackPulse # 0 /\ ValidPulse
  /\ ackDetected' = TRUE /\ ackPending' = FALSE
  /\ transmitRepeats' = 0
  /\ ackPulse' = Older(ackPulse)

BadPulse ==
  /\ sentResetsSincePacket <= AckResets /\ ackPulse # 0 /\ ~ValidPulse
  /\ ackPulse' = 0
  /\ UNCHANGED <<ackPending, ackDetected, transmitRepeats>>

checkAck == AckTimeout \/ InPulse \/ NoPulse \/ GoodPulse \/ BadPulse

-----------------------------------------------------------------------------
(* interrupt1 and the handler.  halves counts the interrupts of the current *)
(* bit spent with the signal high and low.                                  *)

BitStart ==
  /\ state = 0
  /\ state' = 1
  /\ halves' = <<1, 0>>
  /\ SendPreamble \/ SendBit \/ EndPacket
  /\ decoder' = Hear(decoder, currentBit')
  /\ ackPulse' = IF ackPending THEN Older(ackPulse) ELSE ackPulse
  /\ UNCHANGED <<ackPending, ackDetected>>

High == <<halves[1] + 1, halves[2]>>
Low  == <<halves[1], halves[2] + 1>>

\* Seeded fault: a zero without its fourth interrupt.
ShortZeroWave ==
  \/ /\ state = 1 /\ currentBit
     /\ state' = 0 /\ halves' = Low
  \/ /\ state = 1 /\ ~currentBit
     /\ state' = 2 /\ halves' = High
  \/ /\ state = 2
     /\ state' = 0 /\ halves' = Low

Wave ==
  \/ /\ state = 1 /\ currentBit
     /\ state' = 0 /\ halves' = Low
  \/ /\ state = 1 /\ ~currentBit
     /\ state' = 2 /\ halves' = High
  \/ /\ state = 2
     /\ state' = 3 /\ halves' = Low
  \/ /\ state = 3
     /\ state' = 0 /\ halves' = Low

BitRest ==
  /\ Wave
  /\ IF ackPending THEN checkAck ELSE UNCHANGED <<ackVars, transmitRepeats>>
  /\ UNCHANGED <<bitVars, transmitPacket, transmitLength, packetPending,
                 sentResetsSincePacket, decoder>>

interruptHandler == (BitStart \/ BitRest) /\ UNCHANGED mainVars

-----------------------------------------------------------------------------
(* schedulePacket, one action per statement that touches shared state.     *)
(* On the programming track the only callers are the steps of the ack      *)
(* manager: they wait until getAck has seen the last window close and      *)
(* ResetMin resets were sent, and call setAckPending next.                 *)

Goto(label) == pc' = label /\ UNCHANGED <<isrVars, ackVars>>

\* Seeded fault: a programming write without checkResets.
CallerWithoutResets == isMainTrack \/ ~ackPending

CallerReady ==
  isMainTrack \/ (sentResetsSincePacket >= ResetMin /\ ~ackPending)

schedulePacket(buf, reps) ==
  /\ pc = "ready" /\ CallerReady
  /\ Len(buf) < MAX_PACKET_SIZE
  /\ buffer' = buf /\ repeats' = reps
  /\ b' = 0 /\ checksum' = AllZeros
  /\ Goto("spin")
  /\ UNCHANGED <<pendVars, packetPending, sentResetsSincePacket>>

\* Seeded fault: no waiting for the mailbox.
NoSpin ==
  /\ pc = "spin"
  /\ Goto("copy")
  /\ UNCHANGED <<callVars, pendVars, packetPending, sentResetsSincePacket>>

LeaveSpin ==
  /\ pc = "spin" /\ ~packetPending
  /\ Goto("copy")
  /\ UNCHANGED <<callVars, pendVars, packetPending, sentResetsSincePacket>>

CopyByte ==
  /\ pc = "copy" /\ b < Len(buffer)
  /\ checksum' = Xor(checksum, buffer[b + 1])
  /\ pendingPacket' = [pendingPacket EXCEPT ![b] = buffer[b + 1]]
  /\ b' = b + 1
  /\ Goto("copy")
  /\ UNCHANGED <<buffer, repeats, pendingLength, pendingRepeats,
                 packetPending, sentResetsSincePacket>>

AddChecksum ==
  /\ pc = "copy" /\ b = Len(buffer)
  /\ pendingPacket' = [pendingPacket EXCEPT ![b] = checksum]
  /\ Goto("length")
  /\ UNCHANGED <<callVars, pendingLength, pendingRepeats, packetPending,
                 sentResetsSincePacket>>

SetLength ==
  /\ pc = "length"
  /\ pendingLength' = Len(buffer) + 1
  /\ Goto("repeats")
  /\ UNCHANGED <<callVars, pendingPacket, pendingRepeats, packetPending,
                 sentResetsSincePacket>>

SetRepeats ==
  /\ pc = "repeats"
  /\ pendingRepeats' = repeats
  /\ Goto("post")
  /\ UNCHANGED <<callVars, pendingPacket, pendingLength, packetPending,
                 sentResetsSincePacket>>

PostPacket ==
  /\ pc = "post"
  /\ packetPending' = TRUE
  /\ Goto("clear")
  /\ UNCHANGED <<callVars, pendVars, sentResetsSincePacket>>

\* Seeded fault: schedulePacket without its last statement.
ResetsKept ==
  /\ pc = "clear"
  /\ Goto(IF isMainTrack THEN "ready" ELSE "disarm")
  /\ UNCHANGED <<callVars, pendVars, packetPending, sentResetsSincePacket>>

ClearResets ==
  /\ pc = "clear"
  /\ sentResetsSincePacket' = 0
  /\ Goto(IF isMainTrack THEN "ready" ELSE "disarm")
  /\ UNCHANGED <<callVars, pendVars, packetPending>>

-----------------------------------------------------------------------------
(* setAckPending: forget the last answer, then open the window.            *)

ForgetAck ==
  /\ pc = "disarm"
  /\ ackPulse' = 0 /\ ackDetected' = FALSE
  /\ pc' = "arm"
  /\ UNCHANGED <<isrVars, ackPending, callVars, pendVars, packetPending,
                 sentResetsSincePacket>>

OpenWindow ==
  /\ pc = "arm"
  /\ ackPending' = TRUE
  /\ pc' = "ready"
  /\ UNCHANGED <<isrVars, ackPulse, ackDetected, callVars, pendVars,
                 packetPending, sentResetsSincePacket>>

\* BASELINE switches the track on and starts counting resets afresh.
RestartResets ==
  /\ pc = "ready" /\ ~isMainTrack
  /\ sentResetsSincePacket' = 0
  /\ Goto("ready")
  /\ UNCHANGED <<callVars, pendVars, packetPending>>

InSchedule ==
  \/ LeaveSpin \/ CopyByte \/ AddChecksum \/ SetLength \/ SetRepeats
  \/ PostPacket \/ ClearResets \/ ForgetAck \/ OpenWindow

Call == \E buf \in Buffers, reps \in Repeats : schedulePacket(buf, reps)

Next == interruptHandler \/ Call \/ InSchedule \/ RestartResets

Spec == Init /\ [][Next]_vars

\* The timer never stops, and the main loop is delayed by it but not stopped.
Fairness == WF_vars(interruptHandler) /\ WF_vars(InSchedule)

FairSpec == Spec /\ Fairness
=============================================================================
