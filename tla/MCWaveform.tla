------------------------------ MODULE MCWaveform ------------------------------
(* Instances of WaveformProperties for TLC: two-bit bytes, one-byte and      *)
(* two-byte buffers.                                                         *)
EXTENDS WaveformProperties

MCByte(x, y) == <<x, y>>

\* Two different packets, of different lengths, neither of them a filler.
MCBuffers == {<<MCByte(TRUE, FALSE)>>,
              <<MCByte(FALSE, TRUE), MCByte(TRUE, TRUE)>>}

\* One packet is enough where the question is the acknowledgement.
MCOneBuffer == {<<MCByte(FALSE, TRUE), MCByte(TRUE, TRUE)>>}
=============================================================================
