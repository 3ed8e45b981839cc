---------------------------- MODULE PacketChannel ----------------------------
(***************************************************************************)
(* What a track promises to the code that schedules packets on it, seen    *)
(* from the rails: the packets that were submitted are heard whole, in the *)
(* order of their submission, each as often as was asked, and nothing else *)
(* is heard but the filler that keeps the decoders awake.  An answer on    *)
(* the programming track may cut the remaining copies of a packet short,   *)
(* never the last one.                                                     *)
(***************************************************************************)
EXTENDS Naturals, Sequences

CONSTANTS
  Packets,    \* the packets that may be submitted
  Copies,     \* how often a submitted packet is to be heard
  FillerPacket,
  Silence     \* nothing was heard in the last step

VARIABLES
  owed,       \* the packets still to be heard, copies included, oldest first
  heard       \* the packet that the last step completed, or Silence

channelVars == <<owed, heard>>

TypeOK ==
  /\ owed \in Seq(Packets)
  /\ heard \in Packets \cup {FillerPacket, Silence}

Init == owed = <<>> /\ heard = Silence

Submit(packet, n) ==
  /\ owed' = owed \o [k \in 1..n |-> packet]
  /\ UNCHANGED heard

Deliver ==
  /\ owed # <<>>
  /\ heard' = Head(owed)
  /\ owed' = Tail(owed)

DeliverFiller == heard' = FillerPacket /\ UNCHANGED owed

Quiet == heard # Silence /\ heard' = Silence /\ UNCHANGED owed

\* Drop all but the first of a run of equal packets.
CutShort ==
  /\ \E first, last \in DOMAIN owed :
       /\ first < last
       /\ \A k \in first..last : owed[k] = owed[first]
       /\ owed' = SubSeq(owed, 1, first) \o SubSeq(owed, last + 1, Len(owed))
  /\ UNCHANGED heard

Next ==
  \/ \E packet \in Packets, n \in Copies : Submit(packet, n)
  \/ Deliver \/ DeliverFiller \/ Quiet \/ CutShort

Spec == Init /\ [][Next]_channelVars

\* Whatever is owed is heard in the end, however much filler comes before it.
FairSpec == Spec /\ WF_channelVars(Deliver)
=============================================================================
