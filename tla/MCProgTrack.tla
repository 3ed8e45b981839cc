----------------------------- MODULE MCProgTrack ------------------------------
EXTENDS ProgTrack

\* The programs that read no byte: control, and not data, is the question here.
MCRequests ==
  {[program |-> "WRITE_BIT1", cv |-> 8, value |-> 0],
   [program |-> "READ_BIT", cv |-> 8, value |-> 0]}

MCMemories == {[cv \in {8} |-> 6]}
=============================================================================
