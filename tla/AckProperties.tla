---------------------------- MODULE AckProperties ----------------------------
(* What a programming-track operation must do, whatever answers are lost.   *)
EXTENDS AckManager

Bytes == 0..255
Question ==
  [what : {"W", "V", "WB", "VB"}, cv : Nat, bit : 0..7, value : Bytes]

\* A caller names one of the programs and gives a byte, in the code's types.
LegalCalls ==
  /\ Requests \subseteq [program : DOMAIN Program, cv : Nat, value : Bytes]
  /\ NoQuestion \notin Question

ASSUME CallAssumption == LegalCalls

\* A decoder has bytes in its configuration variables, and has those that it is
\* asked about: of one that it lacks it would rightly say nothing.
Holds(cvs) ==
  /\ cvs \in [DOMAIN cvs -> Bytes]
  /\ \A r \in Requests : IF r.program = "LOCO_ID"
                         THEN {1, 17, 18, 29} \subseteq DOMAIN cvs
                         ELSE r.cv \in DOMAIN cvs

LegalMemories == \A cvs \in Memories : Holds(cvs)

ASSUME MemoryAssumption == LegalMemories

\* Registers keep their eight bits, a program is left only through a callback
\* (ip never runs off its end), and a bit number put into a packet is a bit
\* number: it would change the instruction otherwise.
TypeOK ==
  /\ ackManagerProg \in DOMAIN Program \cup {"NULL"}
  /\ Running => ip \in DOMAIN Program[ackManagerProg]
  /\ ackManagerByte \in Bytes /\ ackManagerBitNum \in Bytes
  /\ ackManagerStash \in Bytes
  /\ waiting \subseteq Callers
  /\ question = NoQuestion \/ question \in Question

\* The caller to be called back is one that waits.
CallbackIsAwaited == Running => ackManagerCallback \in waiting

\* What a truthful operation answers, from the decoder's memory.
Truth ==
  LET cv == memory[asked.cv]
  IN CASE ackManagerProg \in {"WRITE_BIT0", "WRITE_BIT1", "WRITE_BYTE"} -> 1
       [] ackManagerProg \in {"READ_BIT", "VERIFY_BIT0", "VERIFY_BIT1"} ->
            BitOf(cv, asked.value)
       [] ackManagerProg \in {"READ_CV", "VERIFY_BYTE"} -> cv
       [] ackManagerProg = "LOCO_ID" /\ BitOf(memory[29], 5) = 0 -> memory[1]
       [] ackManagerProg = "LOCO_ID" /\ BitOf(memory[29], 5) = 1 ->
            (memory[17] - 192) * 256 + memory[18]

Written ==
  CASE ackManagerProg = "WRITE_BYTE" -> memory[asked.cv] = asked.value
    [] ackManagerProg = "WRITE_BIT0" -> BitOf(memory[asked.cv], asked.value) = 0
    [] ackManagerProg = "WRITE_BIT1" -> BitOf(memory[asked.cv], asked.value) = 1
    [] OTHER -> TRUE

Completes == Running /\ ~Running'

\* Lost answers never make a wrong result: an operation calls back with what
\* is in the decoder, or with -1.
ResultIsTrueOrFailure ==
  [][Completes => called'.value = -1 \/ (called'.value = Truth /\ Written)]_ackVars

\* An operation fails only if an answer was lost (or the packet that asked
\* for it was): every program reads and verifies what it set out to.  One
\* address looks like a failure: that of a decoder with 191 in CV 17, which is
\* below the base that the code subtracts, and 255 in CV 18.
FailureNeedsALostAnswer ==
  [][Completes /\ called'.value = -1 => lost \/ Truth = -1]_ackVars

=============================================================================
