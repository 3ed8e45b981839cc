----------------------------- MODULE TrackPackets -----------------------------
(***************************************************************************)
(* A track one packet at a time: the one-place mailbox between the main    *)
(* loop and the interrupt, the packet on the rails with its remaining      *)
(* repeats, the count of resets sent since the last packet, and the        *)
(* window in which an acknowledgement is looked for.  DCCWaveform          *)
(* implements this with bits and unlocked shared variables; the            *)
(* programming-track model composes the ack manager with it.               *)
(***************************************************************************)
EXTENDS Integers

CONSTANTS
  mainTrack,     \* isMainTrack
  Sendable,      \* the packets that are ever scheduled
  RepeatCounts,  \* the repeat counts they are scheduled with
  FillerOnAir,   \* the idle or reset packet
  Nothing,       \* the mailbox is empty, or no packet has been sent
  CountCap,      \* sentResetsSincePacket saturates here
  WindowResets,  \* resets that close the window
  CallResets     \* resets a programming write waits for

VARIABLES
  mailbox,       \* [packet, repeats] or Nothing
  air, left,     \* the packet being sent and its remaining repeats
  resets,        \* sentResetsSincePacket
  window,        \* ackPending
  detected,      \* ackDetected
  stage          \* how far the caller is after posting a packet

packetVars == <<mailbox, air, left, resets, window, detected, stage>>

TypeOK ==
  /\ mailbox = Nothing \/ mailbox \in [packet : Sendable, repeats : RepeatCounts]
  /\ air \in Sendable \cup {FillerOnAir, Nothing}
  /\ left \in Nat
  /\ resets \in 0..CountCap
  /\ window \in BOOLEAN /\ detected \in BOOLEAN
  /\ stage \in {"free", "clear", "disarm", "arm"}

Init ==
  /\ mailbox = Nothing /\ air = Nothing /\ left = 0
  /\ resets = 0 /\ window = FALSE /\ detected = FALSE /\ stage = "free"

-----------------------------------------------------------------------------
(* The caller.                                                             *)

Post(packet, reps) ==
  /\ stage = "free" /\ mailbox = Nothing
  /\ mainTrack \/ (resets >= CallResets /\ ~window)
  /\ mailbox' = [packet |-> packet, repeats |-> reps]
  /\ stage' = "clear"
  /\ UNCHANGED <<air, left, resets, window, detected>>

Clear ==
  /\ stage = "clear"
  /\ resets' = 0
  /\ stage' = IF mainTrack THEN "free" ELSE "disarm"
  /\ UNCHANGED <<mailbox, air, left, window, detected>>

Forget ==
  /\ stage = "disarm" /\ detected' = FALSE /\ stage' = "arm"
  /\ UNCHANGED <<mailbox, air, left, resets, window>>

Open ==
  /\ stage = "arm" /\ window' = TRUE /\ stage' = "free"
  /\ UNCHANGED <<mailbox, air, left, resets, detected>>

Restart ==
  /\ stage = "free" /\ ~mainTrack
  /\ resets' = 0
  /\ UNCHANGED <<mailbox, air, left, window, detected, stage>>

-----------------------------------------------------------------------------
(* The interrupt, at the end of a packet.                                  *)

Again ==
  /\ left > 0 /\ left' = left - 1
  /\ UNCHANGED <<mailbox, air, resets, window, detected, stage>>

Take ==
  /\ left = 0 /\ mailbox # Nothing
  /\ air' = mailbox.packet /\ left' = mailbox.repeats
  /\ mailbox' = Nothing /\ resets' = 0
  /\ UNCHANGED <<window, detected, stage>>

Fill ==
  /\ left = 0 /\ mailbox = Nothing
  /\ air' = FillerOnAir
  /\ resets' = IF resets < CountCap THEN resets + 1 ELSE resets
  /\ UNCHANGED <<mailbox, left, window, detected, stage>>

PacketEnd == Again \/ Take \/ Fill

(* The interrupt, between the packets.                                     *)

CloseWindow ==
  /\ window /\ resets > WindowResets
  /\ window' = FALSE
  /\ UNCHANGED <<mailbox, air, left, resets, detected, stage>>

Answer ==
  /\ window /\ resets <= WindowResets
  /\ window' = FALSE /\ detected' = TRUE /\ left' = 0
  /\ UNCHANGED <<mailbox, air, resets, stage>>

Interrupt == PacketEnd \/ CloseWindow \/ Answer

Caller ==
  \/ \E packet \in Sendable, reps \in RepeatCounts : Post(packet, reps)
  \/ Clear \/ Forget \/ Open \/ Restart

Next == Caller \/ Interrupt

Spec == Init /\ [][Next]_packetVars
=============================================================================
