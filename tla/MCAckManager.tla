----------------------------- MODULE MCAckManager -----------------------------
EXTENDS AckProperties

\* A short-address and a long-address loco (bit 5 of CV 29); CV 8 is a plain
\* one, which no program reads together with the others.  The values have both
\* bits at both ends.
MCMemories ==
  {[cv \in {1, 8, 17, 18, 29} |->
     CASE cv = 1 -> 3 [] cv = 8 -> d.plain [] cv = 17 -> 199 [] cv = 18 -> 208
       [] cv = 29 -> d.flags] :
     d \in {[plain |-> 6, flags |-> 6], [plain |-> 200, flags |-> 38]}}

Req(program, cv, value) == [program |-> program, cv |-> cv, value |-> value]

MCRequests ==
  {Req(p, 8, v) : p \in BitPrograms, v \in {7, 8}} \cup
  {Req("WRITE_BYTE", 8, 129), Req("VERIFY_BYTE", 8, 6),
   Req("READ_CV", 8, 0), Req("LOCO_ID", 0, 0)}

=============================================================================
