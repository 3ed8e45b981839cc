------------------------------ MODULE AckManager ------------------------------
(***************************************************************************)
(* The ack manager: a small interpreter that runs a programming-track      *)
(* operation as a program of opcodes, one question to the decoder at a     *)
(* time, and calls the caller back with the result.                        *)
(*                                                                         *)
(* The track is seen here as a channel for one question at a time, whose   *)
(* answer may be lost; ProgTrack replaces it by the real one.  The decoder *)
(* is outside the repository: it executes writes, acknowledges a write and *)
(* a true verification, and says nothing to a false one.                   *)
(***************************************************************************)
EXTENDS Integers, Sequences

CONSTANTS
  Callers,     \* who calls the API: the command parser, the user's sketch
  Requests,    \* the operations they ask for, see API
  Memories,    \* what the decoder's configuration variables may hold
  NoQuestion

VARIABLES
  ackManagerProg,     \* the name of the running program, or "NULL"
  ip,                 \* the position in it
  ackManagerCv, ackManagerByte, ackManagerBitNum, ackManagerStash,
  ackReceived,
  ackManagerCallback, \* the caller to be called back
  blocking,           \* the running call blocks its caller
  waiting,            \* the callers that have not been called back
  called,             \* the last callback and its value
  asked,              \* the cv and value of the running operation's call
  question,           \* what was last sent to the decoder
  heard,              \* the decoder has received it
  memory,             \* the decoder's configuration variables
  lost                \* an answer of the running operation was lost

registers == <<ackManagerCv, ackManagerByte, ackManagerBitNum, ackManagerStash>>
callerVars == <<ackManagerCallback, blocking, waiting, called, asked>>
decoderVars == <<question, heard, memory, lost>>
ackVars == <<ackManagerProg, ip, registers, ackReceived, callerVars, decoderVars>>

-----------------------------------------------------------------------------
(* The programs.  The operand of SETBIT and SETCV is part of the name.      *)

BitOperand == [SETBIT5 |-> 5, SETBIT6 |-> 6, SETBIT7 |-> 7]
CvOperand == [SETCV1 |-> 1, SETCV17 |-> 17, SETCV18 |-> 18, SETCV29 |-> 29]

WRITE_BIT0_PROG == <<"BASELINE", "W0", "WACK", "V0", "WACK", "ITC1", "FAIL">>
WRITE_BIT1_PROG == <<"BASELINE", "W1", "WACK", "V1", "WACK", "ITC1", "FAIL">>
WRITE_BYTE_PROG == <<"BASELINE", "WB", "WACK", "VB", "WACK", "ITC1", "FAIL">>

VERIFY_BIT0_PROG ==
  <<"BASELINE", "V0", "WACK", "ITC0", "V1", "WACK", "ITC1", "FAIL">>
VERIFY_BIT1_PROG ==
  <<"BASELINE", "V1", "WACK", "ITC1", "V0", "WACK", "ITC0", "FAIL">>
READ_BIT_PROG ==
  <<"BASELINE", "V1", "WACK", "ITC1", "V0", "WACK", "ITC0", "FAIL">>

\* Read the byte of a CV bit by bit.  The first bit is tested both ways
\* unless it is zero, so that an empty track fails fast.
READ_CV_PROG ==
  <<"BASELINE", "STARTMERGE",
    "V0", "WACK", "MERGE", "ITSKIP",
    "SETBIT7", "V1", "WACK", "NAKFAIL", "SETBIT6", "SKIPTARGET",
    "V0", "WACK", "MERGE", "V0", "WACK", "MERGE", "V0", "WACK", "MERGE",
    "V0", "WACK", "MERGE", "V0", "WACK", "MERGE", "V0", "WACK", "MERGE",
    "V0", "WACK", "MERGE", "VB", "WACK", "ITCB", "FAIL">>

\* The same after a first guess.
VERIFY_BYTE_PROG ==
  <<"BASELINE", "VB", "WACK", "ITCB", "STARTMERGE",
    "V0", "WACK", "MERGE", "ITSKIP",
    "SETBIT7", "V1", "WACK", "NAKFAIL", "SETBIT6", "SKIPTARGET",
    "V0", "WACK", "MERGE", "V0", "WACK", "MERGE", "V0", "WACK", "MERGE",
    "V0", "WACK", "MERGE", "V0", "WACK", "MERGE", "V0", "WACK", "MERGE",
    "V0", "WACK", "MERGE", "VB", "WACK", "ITCB", "FAIL">>

\* Bit 5 of CV 29 tells a long address, in CVs 17 and 18, from a short one.
LOCO_ID_PROG ==
  <<"BASELINE", "SETCV29", "SETBIT5", "V0", "WACK", "ITSKIP",
    "V1", "WACK", "NAKFAIL",
    "SETCV17", "STARTMERGE",
    "V0", "WACK", "MERGE", "V0", "WACK", "MERGE", "V0", "WACK", "MERGE",
    "V0", "WACK", "MERGE", "V0", "WACK", "MERGE", "V0", "WACK", "MERGE",
    "V0", "WACK", "MERGE", "V0", "WACK", "MERGE", "VB", "WACK", "NAKFAIL",
    "STASHLOCOID",
    "SETCV18", "STARTMERGE",
    "V0", "WACK", "MERGE", "V0", "WACK", "MERGE", "V0", "WACK", "MERGE",
    "V0", "WACK", "MERGE", "V0", "WACK", "MERGE", "V0", "WACK", "MERGE",
    "V0", "WACK", "MERGE", "V0", "WACK", "MERGE", "VB", "WACK", "NAKFAIL",
    "COMBINELOCOID", "SKIPTARGET",
    "SETCV1", "STARTMERGE",
    "V0", "WACK", "MERGE", "V0", "WACK", "MERGE", "V0", "WACK", "MERGE",
    "V0", "WACK", "MERGE", "V0", "WACK", "MERGE", "V0", "WACK", "MERGE",
    "V0", "WACK", "MERGE", "V0", "WACK", "MERGE", "VB", "WACK", "ITCB", "FAIL">>

Program ==
  [WRITE_BIT0 |-> WRITE_BIT0_PROG, WRITE_BIT1 |-> WRITE_BIT1_PROG,
   VERIFY_BIT0 |-> VERIFY_BIT0_PROG, VERIFY_BIT1 |-> VERIFY_BIT1_PROG,
   READ_BIT |-> READ_BIT_PROG, WRITE_BYTE |-> WRITE_BYTE_PROG,
   VERIFY_BYTE |-> VERIFY_BYTE_PROG, READ_CV |-> READ_CV_PROG,
   LOCO_ID |-> LOCO_ID_PROG]

Running == ackManagerProg # "NULL"
opcode == Program[ackManagerProg][ip]
At(names) == Running /\ opcode \in names

-----------------------------------------------------------------------------
(* The decoder.                                                            *)

BitOf(byte, n) == (byte \div 2^n) % 2
WithBit(byte, n, bit) == byte + (bit - BitOf(byte, n)) * 2^n

\* The CV after the decoder has executed a question.
Executed(q, cvs) ==
  CASE q.what = "W" -> [cvs EXCEPT ![q.cv] = WithBit(@, q.bit, q.value)]
    [] q.what = "WB" -> [cvs EXCEPT ![q.cv] = q.value]
    [] OTHER -> cvs

\* Whether the decoder acknowledges it.
Acknowledges(q, cvs) ==
  CASE q.what = "V" -> BitOf(cvs[q.cv], q.bit) = q.value
    [] q.what = "VB" -> cvs[q.cv] = q.value
    [] OTHER -> TRUE

Hear ==
  /\ question # NoQuestion /\ ~heard
  /\ heard' = TRUE
  /\ memory' = Executed(question, memory)
  /\ UNCHANGED <<ackManagerProg, ip, registers, ackReceived, callerVars,
                 question, lost>>

-----------------------------------------------------------------------------
Init ==
  /\ ackManagerProg = "NULL" /\ ip = 0
  /\ ackManagerCv = 0 /\ ackManagerByte = 0 /\ ackManagerBitNum = 0
  /\ ackManagerStash = 0 /\ ackReceived = FALSE
  /\ ackManagerCallback \in Callers /\ blocking = FALSE
  /\ waiting = {} /\ called = [caller |-> ackManagerCallback, value |-> 0]
  /\ asked = [cv |-> 0, value |-> 0]
  /\ question = NoQuestion /\ heard = FALSE /\ memory \in Memories
  /\ lost = FALSE

(* The API.  A call while another operation runs replaces it.              *)

ackManagerSetup(caller, cv, byteValueOrBitnum, program, block) ==
  /\ ackManagerProg' = program /\ ip' = 1
  /\ ackManagerCv' = cv
  /\ ackManagerByte' = byteValueOrBitnum
  /\ ackManagerBitNum' = byteValueOrBitnum
  /\ ackManagerCallback' = caller /\ blocking' = block
  /\ waiting' = waiting \cup {caller}
  /\ asked' = [cv |-> cv, value |-> byteValueOrBitnum]
  /\ lost' = FALSE
  /\ UNCHANGED <<ackManagerStash, ackReceived, called, question, heard, memory>>

\* A bit number above 7 is answered at once and disturbs nothing.
Reject(caller) ==
  /\ called' = [caller |-> caller, value |-> -1]
  /\ UNCHANGED <<ackManagerProg, ip, registers, ackReceived, ackManagerCallback,
                 blocking, waiting, asked, decoderVars>>

BitPrograms == {"WRITE_BIT0", "WRITE_BIT1", "VERIFY_BIT0", "VERIFY_BIT1", "READ_BIT"}

\* A caller may call again before it has been called back, and replaces its own
\* operation then; a blocking call lets no other code run.
API(caller, r, block) ==
  /\ ~(Running /\ blocking)
  /\ IF r.program \in BitPrograms /\ r.value >= 8
     THEN Reject(caller)
     ELSE ackManagerSetup(caller, r.cv, r.value, r.program, block)

-----------------------------------------------------------------------------
(* The opcodes.  Step goes to the next entry of the program.               *)

Step == ip' = ip + 1 /\ UNCHANGED <<ackManagerProg, callerVars>>

\* Seeded fault: the program goes on after its callback.
CallbackAndGoOn(value) ==
  /\ ip' = ip + 1
  /\ called' = [caller |-> ackManagerCallback, value |-> value]
  /\ waiting' = waiting \ {ackManagerCallback}
  /\ blocking' = FALSE
  /\ UNCHANGED <<ackManagerProg, registers, ackReceived, ackManagerCallback,
                 asked, decoderVars>>

\* End the operation: the program is dropped before the callback runs.
Callback(value) ==
  /\ ackManagerProg' = "NULL" /\ ip' = 0
  /\ called' = [caller |-> ackManagerCallback, value |-> value]
  /\ waiting' = waiting \ {ackManagerCallback}
  /\ blocking' = FALSE
  /\ UNCHANGED <<registers, ackReceived, ackManagerCallback, asked, decoderVars>>

\* Enough resets were sent: nothing of an earlier operation is on the rails.
Baseline ==
  /\ At({"BASELINE"})
  /\ question' = NoQuestion /\ heard' = FALSE
  /\ Step
  /\ UNCHANGED <<registers, ackReceived, memory, lost>>

BitQuestion(what, bit) ==
  [what |-> what, cv |-> ackManagerCv, bit |-> ackManagerBitNum, value |-> bit]
ByteQuestion(what) ==
  [what |-> what, cv |-> ackManagerCv, bit |-> 0, value |-> ackManagerByte]

Message ==
  CASE opcode = "W0" -> BitQuestion("W", 0)
    [] opcode = "W1" -> BitQuestion("W", 1)
    [] opcode = "V0" -> BitQuestion("V", 0)
    [] opcode = "V1" -> BitQuestion("V", 1)
    [] OTHER -> ByteQuestion(opcode)

Send ==
  /\ At({"W0", "W1", "V0", "V1", "WB", "VB"})
  /\ question' = Message /\ heard' = FALSE
  /\ Step
  /\ UNCHANGED <<registers, ackReceived, memory, lost>>

\* WACK, once getAck has said whether an answer came.
Receive(answer) ==
  /\ At({"WACK"})
  /\ ackReceived' = answer
  /\ lost' = (lost \/ (~answer /\ Acknowledges(question, memory)))
  /\ question' = NoQuestion /\ heard' = FALSE
  /\ Step
  /\ UNCHANGED <<registers, memory>>

\* An answer comes only to a question that was heard and is acknowledged.
Collect(answer) ==
  /\ answer => heard /\ Acknowledges(question, memory)
  /\ Receive(answer)

IfTrueCallback ==
  /\ At({"ITC0", "ITC1", "ITCB"}) /\ ackReceived
  /\ Callback(CASE opcode = "ITC0" -> 0 [] opcode = "ITC1" -> 1
                [] opcode = "ITCB" -> ackManagerByte)

FailCallback ==
  /\ \/ At({"NAKFAIL"}) /\ ~ackReceived
     \/ At({"FAIL"})
  /\ Callback(-1)

CombineCallback ==
  /\ At({"COMBINELOCOID"})
  /\ Callback(ackManagerByte + (ackManagerStash - 192) * 256)

\* An instruction that only sets registers, or falls through.
Assign(cv, byte, bitNum, stash) ==
  /\ ackManagerCv' = cv /\ ackManagerByte' = byte
  /\ ackManagerBitNum' = bitNum /\ ackManagerStash' = stash
  /\ Step
  /\ UNCHANGED <<ackReceived, decoderVars>>

\* Seeded fault: the first bit is one too high.
StartMergeAtBit8 ==
  /\ At({"STARTMERGE"})
  /\ Assign(ackManagerCv, 0, 8, ackManagerStash)

StartMerge ==
  /\ At({"STARTMERGE"})
  /\ Assign(ackManagerCv, 0, 7, ackManagerStash)

\* The bit is the inverse of the answer to V0; the byte and the bit number
\* are eight bits wide.
Merge ==
  /\ At({"MERGE"})
  /\ Assign(ackManagerCv,
            (ackManagerByte * 2 + (IF ackReceived THEN 0 ELSE 1)) % 256,
            (ackManagerBitNum + 255) % 256, ackManagerStash)

\* Seeded fault: the excursion leaves the bit number where it was.
SetBitIgnored ==
  /\ At(DOMAIN BitOperand)
  /\ Assign(ackManagerCv, ackManagerByte, ackManagerBitNum, ackManagerStash)

SetBit ==
  /\ At(DOMAIN BitOperand)
  /\ Assign(ackManagerCv, ackManagerByte, BitOperand[opcode], ackManagerStash)

SetCv ==
  /\ At(DOMAIN CvOperand)
  /\ Assign(CvOperand[opcode], ackManagerByte, ackManagerBitNum, ackManagerStash)

StashLocoId ==
  /\ At({"STASHLOCOID"})
  /\ Assign(ackManagerCv, ackManagerByte, ackManagerBitNum, ackManagerByte)

\* Seeded fault: an unverified byte is taken for read.
FallThroughUnverified ==
  /\ \/ At({"ITC0", "ITC1", "ITCB", "ITSKIP"}) /\ ~ackReceived
     \/ At({"NAKFAIL", "SKIPTARGET"})
  /\ Step
  /\ UNCHANGED <<registers, ackReceived, decoderVars>>

FallThrough ==
  /\ \/ At({"ITC0", "ITC1", "ITCB", "ITSKIP"}) /\ ~ackReceived
     \/ At({"NAKFAIL"}) /\ ackReceived
     \/ At({"SKIPTARGET"})
  /\ Step
  /\ UNCHANGED <<registers, ackReceived, decoderVars>>

\* Go past the next SKIPTARGET.
Skip ==
  /\ At({"ITSKIP"}) /\ ackReceived
  /\ \E target \in (ip + 1)..Len(Program[ackManagerProg]) :
       /\ Program[ackManagerProg][target] = "SKIPTARGET"
       /\ \A k \in ip..(target - 1) :
            Program[ackManagerProg][k] # "SKIPTARGET"
       /\ ip' = target + 1
  /\ UNCHANGED <<ackManagerProg, registers, ackReceived, callerVars, decoderVars>>

Internal ==
  \/ IfTrueCallback \/ FailCallback \/ CombineCallback
  \/ StartMerge \/ Merge \/ SetBit \/ SetCv \/ StashLocoId \/ FallThrough \/ Skip

ackManagerLoop ==
  Baseline \/ Send \/ (\E answer \in BOOLEAN : Collect(answer)) \/ Internal

Call == \E c \in Callers, r \in Requests, block \in BOOLEAN : API(c, r, block)

Next == Call \/ ackManagerLoop \/ Hear

Spec == Init /\ [][Next]_ackVars

FairSpec == Spec /\ WF_ackVars(ackManagerLoop)
=============================================================================
