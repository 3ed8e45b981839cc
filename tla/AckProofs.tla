------------------------------ MODULE AckProofs ------------------------------
(***************************************************************************)
(* Proofs, for every set of callers, of requests and of decoder memories,  *)
(* that the ack manager keeps its registers and its place in the program,  *)
(* and that what it calls back with is what the decoder holds, or -1.      *)
(***************************************************************************)
EXTENDS AckProperties, TLAPS

USE CallAssumption

Senders == {"W0", "W1", "V0", "V1", "WB", "VB"}
BitReaders == {"VERIFY_BIT0", "VERIFY_BIT1", "READ_BIT"}
ByteReaders == {"VERIFY_BYTE", "READ_CV", "LOCO_ID"}
Writers == {"WRITE_BIT0", "WRITE_BIT1", "WRITE_BYTE"}

-----------------------------------------------------------------------------
(* The programs.                                                           *)

LEMMA Programs ==
  /\ DOMAIN Program = BitPrograms \cup {"WRITE_BYTE"} \cup ByteReaders
  /\ "NULL" \notin DOMAIN Program
  /\ Program["WRITE_BIT0"] = WRITE_BIT0_PROG /\ Program["WRITE_BIT1"] = WRITE_BIT1_PROG
  /\ Program["VERIFY_BIT0"] = VERIFY_BIT0_PROG
  /\ Program["VERIFY_BIT1"] = VERIFY_BIT1_PROG
  /\ Program["READ_BIT"] = READ_BIT_PROG /\ Program["WRITE_BYTE"] = WRITE_BYTE_PROG
  /\ Program["VERIFY_BYTE"] = VERIFY_BYTE_PROG /\ Program["READ_CV"] = READ_CV_PROG
  /\ Program["LOCO_ID"] = LOCO_ID_PROG
  BY DEF Program, BitPrograms, ByteReaders

\* The rules that the programs are written by: a BASELINE first and a FAIL last,
\* an answer awaited after every question and only there, and every result
\* taken from the answer to the question that tells it.
Obeys(p, prog) ==
  /\ DOMAIN prog = 1..Len(prog) /\ Len(prog) \in Nat \ {0} /\ prog[Len(prog)] = "FAIL"
  /\ \A k \in 1..Len(prog) :
       /\ prog[k] = "BASELINE" <=> k = 1
       /\ prog[k] = "WACK" <=> k > 1 /\ prog[k - 1] \in Senders
       /\ prog[k] = "ITC0" =>
            k > 2 /\ prog[k - 1] = "WACK" /\ prog[k - 2] = "V0" /\ p \in BitReaders
       /\ prog[k] = "ITC1" =>
            /\ k > 2 /\ prog[k - 1] = "WACK"
            /\ \/ prog[k - 2] = "V1" /\ p \in BitReaders \cup {"WRITE_BIT1"}
               \/ prog[k - 2] = "V0" /\ p = "WRITE_BIT0"
               \/ prog[k - 2] = "VB" /\ p = "WRITE_BYTE"
       /\ prog[k] = "ITCB" =>
            k > 2 /\ prog[k - 1] = "WACK" /\ prog[k - 2] = "VB" /\ p \in ByteReaders
       /\ prog[k] \in {"W0", "W1"} => p \in {"WRITE_BIT0", "WRITE_BIT1"}
       /\ prog[k] = "WB" => p = "WRITE_BYTE"
       /\ prog[k] \in {"V0", "V1"} => p # "WRITE_BYTE"
       /\ prog[k] \in {"STARTMERGE", "MERGE", "ITSKIP", "SKIPTARGET",
                       "SETBIT5", "SETBIT6", "SETBIT7"} => p \in ByteReaders
       /\ prog[k] \in {"SETCV1", "SETCV17", "SETCV18", "SETCV29", "STASHLOCOID",
                       "COMBINELOCOID"} => p = "LOCO_ID"

LEMMA ProgramsObey == \A p \in DOMAIN Program : Obeys(p, Program[p])
  <1> USE DEF Obeys, Senders, BitReaders, ByteReaders
  <1>1. Obeys("WRITE_BIT0", WRITE_BIT0_PROG)
    BY DEF WRITE_BIT0_PROG
  <1>2. Obeys("WRITE_BIT1", WRITE_BIT1_PROG)
    BY DEF WRITE_BIT1_PROG
  <1>3. Obeys("WRITE_BYTE", WRITE_BYTE_PROG)
    BY DEF WRITE_BYTE_PROG
  <1>4. Obeys("VERIFY_BIT0", VERIFY_BIT0_PROG)
    BY DEF VERIFY_BIT0_PROG
  <1>5. Obeys("VERIFY_BIT1", VERIFY_BIT1_PROG)
    BY DEF VERIFY_BIT1_PROG
  <1>6. Obeys("READ_BIT", READ_BIT_PROG)
    BY DEF READ_BIT_PROG
  <1>7. Obeys("VERIFY_BYTE", VERIFY_BYTE_PROG)
    BY DEF VERIFY_BYTE_PROG
  <1>8. Obeys("READ_CV", READ_CV_PROG)
    BY DEF READ_CV_PROG
  <1>9. Obeys("LOCO_ID", LOCO_ID_PROG)
    BY DEF LOCO_ID_PROG
  <1> HIDE DEF Obeys, Senders, BitReaders
  <1> QED
    BY <1>1, <1>2, <1>3, <1>4, <1>5, <1>6, <1>7, <1>8, <1>9, Programs
    DEF BitPrograms
-----------------------------------------------------------------------------
(* The inductive invariant.                                                *)

Typed ==
  /\ TypeOK
  /\ Callers # {} => ackManagerCallback \in Callers
  /\ ackManagerCv \in Nat /\ ackReceived \in BOOLEAN
  /\ asked \in [cv : Nat, value : Bytes]

\* In the merging loops, with n instructions left, the bit is the one to test.
InLoop(n, bit) == n \in (3 * bit + 1)..(3 * bit + 3)

\* The bit number in the r-th instruction of reading a byte.
ReadBit(r, bit) ==
  /\ r \in {2, 3, 4, 7, 8, 9} => bit = 7
  /\ r \in {5, 11} => bit = 6
  /\ r \in 12..32 => InLoop(33 - r, bit)

\* The bit number in the k-th instruction of reading an address.
AddressBit(k, bit) ==
  /\ k \in 4..9 => bit = 5
  /\ k \in 12..35 => InLoop(36 - k, bit)
  /\ k \in 42..65 => InLoop(66 - k, bit)
  /\ k \in 73..96 => InLoop(97 - k, bit)

AsAsked ==
  ackManagerCv = asked.cv /\ ackManagerByte = asked.value /\ ackManagerBitNum = asked.value

\* The registers hold what the program needs at its next instruction.
Registers ==
  Running =>
    /\ ackManagerProg \in BitPrograms => asked.value < 8
    /\ ackManagerProg \notin ByteReaders => AsAsked
    /\ ackManagerProg \in {"READ_CV", "VERIFY_BYTE"} => ackManagerCv = asked.cv
    /\ ackManagerProg = "READ_CV" => ReadBit(ip - 1, ackManagerBitNum)
    /\ ackManagerProg = "VERIFY_BYTE" => ReadBit(ip - 4, ackManagerBitNum)
    /\ ackManagerProg = "LOCO_ID" => AddressBit(ip, ackManagerBitNum)

\* What an instruction asks.
MessageOf(op) ==
  CASE op = "W0" -> BitQuestion("W", 0)
    [] op = "W1" -> BitQuestion("W", 1)
    [] op = "V0" -> BitQuestion("V", 0)
    [] op = "V1" -> BitQuestion("V", 1)
    [] OTHER -> ByteQuestion(op)

\* After the baseline the decoder is asked what the program says, and nothing
\* while no answer is awaited.
Asking ==
  Running /\ ip > 1 =>
    question = IF opcode = "WACK"
               THEN MessageOf(Program[ackManagerProg][ip - 1]) ELSE NoQuestion

\* An acknowledgement that was just received was to what was just asked.
Answered ==
  Running /\ ip > 2 /\ Program[ackManagerProg][ip - 1] = "WACK" /\ ackReceived =>
    Acknowledges(MessageOf(Program[ackManagerProg][ip - 2]), memory)

\* What is known of the address of a loco on the way to reading it.
AddressSoFar ==
  Running /\ ackManagerProg = "LOCO_ID" =>
    /\ ip # 70
    /\ ip \in 3..10 => ackManagerCv = 29
    /\ ip \in 10..70 => BitOf(memory[29], 5) = 1
    /\ ip \in 11..40 => ackManagerCv = 17
    /\ ip = 39 => ackManagerByte = memory[17]
    /\ ip \in 40..70 => ackManagerStash = memory[17]
    /\ ip \in 41..70 => ackManagerCv = 18
    /\ ip = 69 => ackManagerByte = memory[18]
    /\ ip > 70 => BitOf(memory[29], 5) = 0
    /\ ip > 71 => ackManagerCv = 1

AckInv == Typed /\ Registers /\ Asking /\ Answered /\ AddressSoFar

-----------------------------------------------------------------------------
(* Where the program stands.                                               *)

LEMMA Place ==
  ASSUME Typed, Running
  PROVE  /\ ackManagerProg \in DOMAIN Program
         /\ ip \in 1..Len(Program[ackManagerProg])
         /\ Len(Program[ackManagerProg]) \in Nat
         /\ Obeys(ackManagerProg, Program[ackManagerProg])
  <1>1. ackManagerProg \in DOMAIN Program /\ ip \in DOMAIN Program[ackManagerProg]
    BY DEF Typed, TypeOK, Running
  <1> QED
    BY <1>1, ProgramsObey DEF Obeys

\* Only FAIL is last, and no program returns to its baseline.
LEMMA Onward ==
  ASSUME Typed, Running, opcode # "FAIL"
  PROVE  /\ ip + 1 \in DOMAIN Program[ackManagerProg] /\ ip + 1 > 1
         /\ Program[ackManagerProg][ip + 1] # "BASELINE"
         /\ Program[ackManagerProg][ip + 1] = "WACK" <=> opcode \in Senders
         /\ opcode = "WACK" <=> ip > 1 /\ Program[ackManagerProg][ip - 1] \in Senders
         /\ opcode = "BASELINE" <=> ip = 1
  BY Place DEF Obeys, opcode

\* The same after a jump.
LEMMA Beyond ==
  ASSUME Typed, Running, NEW target \in 1..Len(Program[ackManagerProg]),
         Program[ackManagerProg][target] = "SKIPTARGET"
  PROVE  /\ target + 1 \in DOMAIN Program[ackManagerProg] /\ target + 1 > 1
         /\ Program[ackManagerProg][target + 1] # "WACK"
         /\ ackManagerProg \in ByteReaders
  BY Place DEF Obeys, Senders

\* The bit number is one whenever it is put into a packet.
LEMMA BitToAsk ==
  ASSUME Typed, Registers, Running, opcode \in {"W0", "W1", "V0", "V1"}
  PROVE  ackManagerBitNum \in 0..7
  <1>1. ackManagerBitNum \in 0..255 /\ asked.value \in 0..255
    BY DEF Typed, TypeOK, Bytes
  <1>2. ackManagerProg # "WRITE_BYTE"
    BY Place DEF Obeys, opcode
  <1>3. CASE ackManagerProg \in BitPrograms
    <2>1. ackManagerProg \notin ByteReaders
      BY <1>3 DEF BitPrograms, ByteReaders
    <2> QED
      BY <1>1, <1>3, <2>1 DEF Registers, AsAsked
  <1>4. CASE ackManagerProg = "READ_CV"
    <2>1. ip \in 1..Len(READ_CV_PROG) /\ READ_CV_PROG[ip] \in {"V0", "V1", "W0", "W1"}
      BY <1>4, Place, Programs DEF opcode
    <2>2. ip - 1 \in {2, 7} \cup 12..32
      BY <2>1 DEF READ_CV_PROG
    <2> QED
      BY <1>1, <1>4, <2>2 DEF Registers, ReadBit, InLoop
  <1>5. CASE ackManagerProg = "VERIFY_BYTE"
    <2>1. /\ ip \in 1..Len(VERIFY_BYTE_PROG)
          /\ VERIFY_BYTE_PROG[ip] \in {"V0", "V1", "W0", "W1"}
      BY <1>5, Place, Programs DEF opcode
    <2>2. ip - 4 \in {2, 7} \cup 12..32
      BY <2>1 DEF VERIFY_BYTE_PROG
    <2> QED
      BY <1>1, <1>5, <2>2 DEF Registers, ReadBit, InLoop
  <1>6. CASE ackManagerProg = "LOCO_ID"
    <2>1. ip \in 1..Len(LOCO_ID_PROG) /\ LOCO_ID_PROG[ip] \in {"V0", "V1", "W0", "W1"}
      BY <1>6, Place, Programs DEF opcode
    <2>2. ip \in 4..9 \cup 12..35 \cup 42..65 \cup 73..96
      BY <2>1 DEF LOCO_ID_PROG
    <2> QED
      BY <1>1, <1>6, <2>2 DEF Registers, AddressBit, InLoop
  <1> QED
    BY <1>2, <1>3, <1>4, <1>5, <1>6, Place, Programs DEF ByteReaders

-----------------------------------------------------------------------------
(* The initial states, and each conjunct under each action.                *)

Leaving == IfTrueCallback \/ FailCallback \/ CombineCallback
Setting == StartMerge \/ Merge \/ SetBit \/ SetCv \/ StashLocoId

LEMMA LeavingEnds ==
  ASSUME Leaving
  PROVE  /\ Running /\ ~Running'
         /\ waiting' = waiting \ {ackManagerCallback}
         /\ UNCHANGED <<registers, ackReceived, ackManagerCallback, asked, decoderVars>>
  BY DEF Leaving, IfTrueCallback, FailCallback, CombineCallback, Callback, At, Running,
         registers, decoderVars

\* An instruction that sets registers, or falls through, goes to the next one.
LEMMA SettingSteps ==
  ASSUME Setting \/ FallThrough
  PROVE  /\ Running /\ opcode \notin {"FAIL", "WACK", "BASELINE"} \cup Senders
         /\ ip' = ip + 1
         /\ UNCHANGED <<ackManagerProg, ackReceived, callerVars, decoderVars>>
  BY DEF Setting, StartMerge, Merge, SetBit, SetCv, StashLocoId, FallThrough, Assign, At, Step,
         BitOperand, CvOperand, Senders, callerVars, decoderVars

LEMMA SkipJumps ==
  ASSUME Typed, Skip
  PROVE  /\ Running /\ opcode = "ITSKIP" /\ ackReceived
         /\ UNCHANGED <<ackManagerProg, registers, ackReceived, callerVars, decoderVars>>
         /\ \E target \in (ip + 1)..Len(Program[ackManagerProg]) :
              /\ target \in 1..Len(Program[ackManagerProg])
              /\ Program[ackManagerProg][target] = "SKIPTARGET"
              /\ \A k \in ip..(target - 1) : Program[ackManagerProg][k] # "SKIPTARGET"
              /\ ip' = target + 1
  <1>1. Running /\ opcode = "ITSKIP" /\ ackReceived
    BY DEF Skip, At
  <1>2. ip \in Nat \ {0} /\ Len(Program[ackManagerProg]) \in Nat
    BY <1>1, Place
  <1> QED
    BY <1>1, <1>2 DEF Skip

\* What every step does, told by what it changes.
LEMMA Kinds ==
  ASSUME [Next]_ackVars
  PROVE  \/ Call \/ Baseline \/ Send
         \/ \E answer \in BOOLEAN : Collect(answer)
         \/ Leaving \/ Setting \/ FallThrough \/ Skip \/ Hear \/ UNCHANGED ackVars
  BY DEF Next, ackManagerLoop, Internal, Leaving, Setting

LEMMA InitAckInv == ASSUME Init PROVE AckInv
  <1>1. ~Running
    BY DEF Init, Running
  <1>2. TypeOK
    BY <1>1 DEF Init, TypeOK, Bytes
  <1>3. asked \in [cv : Nat, value : Bytes]
    BY DEF Init, Bytes
  <1> QED
    BY <1>1, <1>2, <1>3 DEF Init, AckInv, Typed, Registers, Asking, Answered, AddressSoFar

LEMMA MessageIsQuestion ==
  ASSUME Typed, Registers, At(Senders)
  PROVE  Message \in Question /\ Message = MessageOf(opcode)
  <1>1. Message = MessageOf(opcode)
    BY DEF Message, MessageOf
  <1>2. ackManagerCv \in Nat /\ ackManagerByte \in Bytes /\ 0 \in Bytes /\ 1 \in Bytes
    BY DEF Typed, TypeOK, Bytes
  <1>3. CASE opcode \in {"W0", "W1", "V0", "V1"}
    <2>1. ackManagerBitNum \in 0..7
      BY <1>3, BitToAsk DEF At
    <2> QED
      BY <1>1, <1>2, <1>3, <2>1 DEF Message, BitQuestion, Question
  <1>4. CASE opcode \in {"WB", "VB"}
    BY <1>1, <1>2, <1>4 DEF Message, ByteQuestion, Question
  <1> QED
    BY <1>3, <1>4 DEF At, Senders

LEMMA SettingBytes ==
  ASSUME Typed, Setting
  PROVE  /\ ackManagerByte' \in Bytes /\ ackManagerBitNum' \in Bytes
         /\ ackManagerStash' \in Bytes /\ ackManagerCv' \in Nat
  <1> USE DEF Assign, Bytes
  <1>1. /\ ackManagerByte \in Bytes /\ ackManagerBitNum \in Bytes
        /\ ackManagerStash \in Bytes /\ ackManagerCv \in Nat
    BY DEF Typed, TypeOK
  <1>2. CASE StartMerge
    BY <1>1, <1>2 DEF StartMerge
  <1>3. CASE Merge
    BY <1>1, <1>3 DEF Merge
  <1>4. CASE SetBit
    BY <1>1, <1>4 DEF SetBit, At, BitOperand
  <1>5. CASE SetCv
    BY <1>1, <1>5 DEF SetCv, At, CvOperand
  <1>6. CASE StashLocoId
    BY <1>1, <1>6 DEF StashLocoId
  <1> QED
    BY <1>2, <1>3, <1>4, <1>5, <1>6 DEF Setting

LEMMA TypedKept ==
  ASSUME Typed, Registers, [Next]_ackVars
  PROVE  Typed'
  <1> USE DEF Typed, TypeOK, registers, callerVars, decoderVars
  <1>1. CASE Call
    <2>1. PICK caller \in Callers, r \in Requests, block \in BOOLEAN :
            API(caller, r, block)
      BY <1>1 DEF Call
    <2>2. r.program \in DOMAIN Program /\ r.cv \in Nat /\ r.value \in Bytes
      BY DEF LegalCalls
    <2>3. CASE ackManagerSetup(caller, r.cv, r.value, r.program, block)
      <3>1. 1 \in DOMAIN Program[r.program]
        BY <2>2, ProgramsObey DEF Obeys
      <3>2. asked' \in [cv : Nat, value : Bytes]
        BY <2>2, <2>3 DEF ackManagerSetup
      <3> QED
        BY <2>2, <2>3, <3>1, <3>2 DEF ackManagerSetup, Running
    <2>4. CASE Reject(caller)
      BY <2>4 DEF Reject, Running
    <2> QED
      BY <2>1, <2>3, <2>4 DEF API
  <1>2. CASE Baseline
    BY <1>2, Onward DEF Baseline, Step, At, Running
  <1>3. CASE Send
    <2>1. Running /\ opcode # "FAIL" /\ question' \in Question
      BY <1>3, MessageIsQuestion DEF Send, At, Senders
    <2> QED
      BY <1>3, <2>1, Onward DEF Send, Step, Running
  <1>4. CASE \E answer \in BOOLEAN : Collect(answer)
    BY <1>4, Onward DEF Collect, Receive, Step, At, Running
  <1>5. CASE Leaving
    <2>1. ackManagerProg' = "NULL"
      BY <1>5, LeavingEnds DEF Running
    <2> QED
      BY <1>5, <2>1, LeavingEnds DEF Running
  <1>6. CASE Setting
    <2>1. /\ ackManagerByte' \in Bytes /\ ackManagerBitNum' \in Bytes
          /\ ackManagerStash' \in Bytes /\ ackManagerCv' \in Nat
      BY <1>6, SettingBytes
    <2> QED
      BY <1>6, <2>1, SettingSteps, Onward DEF Running
  <1>7. CASE FallThrough
    <2>1. UNCHANGED registers
      BY <1>7 DEF FallThrough
    <2> QED
      BY <1>7, <2>1, SettingSteps, Onward DEF Running
  <1>8. CASE Skip
    BY <1>8, SkipJumps, Beyond DEF Running
  <1>9. CASE Hear \/ UNCHANGED ackVars
    BY <1>9 DEF Hear, ackVars, Running
  <1> QED
    BY <1>1, <1>2, <1>3, <1>4, <1>5, <1>6, <1>7, <1>8, <1>9, Kinds

\* Where the programs that read set the bit number.
ReadMerges == {4, 14, 17, 20, 23, 26, 29, 32}
AddressMerges == {14, 17, 20, 23, 26, 29, 32, 35, 44, 47, 50, 53, 56, 59, 62, 65,
                  75, 78, 81, 84, 87, 90, 93, 96}

ReadsFrom(prog, start) ==
  \A k \in 1..Len(prog) :
    /\ prog[k] = "STARTMERGE" <=> k = start + 1
    /\ prog[k] = "MERGE" <=> k - start \in ReadMerges
    /\ prog[k] = "SETBIT7" <=> k = start + 6
    /\ prog[k] = "SETBIT6" <=> k = start + 10
    /\ prog[k] # "SETBIT5"

LEMMA ReadTables ==
  /\ ReadsFrom(READ_CV_PROG, 1) /\ Len(READ_CV_PROG) = 37
  /\ ReadsFrom(VERIFY_BYTE_PROG, 4) /\ Len(VERIFY_BYTE_PROG) = 40
  <1>1. ReadsFrom(READ_CV_PROG, 1) /\ Len(READ_CV_PROG) = 37
    BY DEF ReadsFrom, ReadMerges, READ_CV_PROG
  <1>2. ReadsFrom(VERIFY_BYTE_PROG, 4) /\ Len(VERIFY_BYTE_PROG) = 40
    BY DEF ReadsFrom, ReadMerges, VERIFY_BYTE_PROG
  <1> QED
    BY <1>1, <1>2

LEMMA AddressTable ==
  /\ Len(LOCO_ID_PROG) = 100
  /\ \A k \in 1..100 :
       /\ LOCO_ID_PROG[k] = "STARTMERGE" <=> k \in {11, 41, 72}
       /\ LOCO_ID_PROG[k] = "MERGE" <=> k \in AddressMerges
       /\ LOCO_ID_PROG[k] = "SETBIT5" <=> k = 3
       /\ LOCO_ID_PROG[k] \notin {"SETBIT6", "SETBIT7"}
       /\ LOCO_ID_PROG[k] \in DOMAIN CvOperand <=> k \in {2, 10, 40, 71}
       /\ LOCO_ID_PROG[k] = "STASHLOCOID" <=> k = 39
  BY DEF LOCO_ID_PROG, AddressMerges, CvOperand

\* The bit numbers in the instructions that follow.
LEMMA ReadBitSteps ==
  ASSUME NEW r \in Int, r < 37, NEW bit \in Bytes, ReadBit(r, bit)
  PROVE  /\ r \notin {1, 6, 10} \cup ReadMerges => ReadBit(r + 1, bit)
         /\ r \in ReadMerges => ReadBit(r + 1, (bit + 255) % 256)
         /\ r \in {1, 6} => ReadBit(r + 1, 7)
         /\ r = 10 => ReadBit(r + 1, 6)
  <1> USE DEF ReadBit, InLoop, ReadMerges, Bytes
  <1>1. r \notin {1, 6, 10} \cup ReadMerges => ReadBit(r + 1, bit)
    OBVIOUS
  <1>2. r \in ReadMerges => ReadBit(r + 1, (bit + 255) % 256)
    <2>1. r \in ReadMerges \ {32} => bit > 0 /\ (bit + 255) % 256 = bit - 1
      OBVIOUS
    <2> QED
      BY <2>1
  <1> QED
    BY <1>1, <1>2

LEMMA AddressBitSteps ==
  ASSUME NEW k \in 1..100, NEW bit \in Bytes, AddressBit(k, bit)
  PROVE  /\ k \notin {3, 11, 41, 72} \cup AddressMerges => AddressBit(k + 1, bit)
         /\ k \in AddressMerges => AddressBit(k + 1, (bit + 255) % 256)
         /\ k \in {11, 41, 72} => AddressBit(k + 1, 7)
         /\ k = 3 => AddressBit(k + 1, 5)
  <1> USE DEF AddressBit, InLoop, AddressMerges, Bytes
  <1>1. k \notin {3, 11, 41, 72} \cup AddressMerges => AddressBit(k + 1, bit)
    OBVIOUS
  <1>2. k \in AddressMerges => AddressBit(k + 1, (bit + 255) % 256)
    <2>1. k \in AddressMerges \ {35, 65, 96} => bit > 0 /\ (bit + 255) % 256 = bit - 1
      OBVIOUS
    <2> QED
      BY <2>1
  <1> QED
    BY <1>1, <1>2

\* Going to the next instruction with the registers as they are.
LEMMA StillRegistered ==
  ASSUME Typed, Registers, Running, ip' = ip + 1,
         UNCHANGED <<ackManagerProg, registers, asked>>,
         opcode \notin {"STARTMERGE", "MERGE"} \cup DOMAIN BitOperand \cup DOMAIN CvOperand
  PROVE  Registers'
  <1> USE DEF registers, BitOperand, CvOperand
  <1>1. /\ ip \in 1..Len(Program[ackManagerProg]) /\ ackManagerBitNum \in Bytes
        /\ opcode = Program[ackManagerProg][ip]
    BY Place DEF Typed, TypeOK, opcode
  <1>2. ASSUME NEW start \in Nat, NEW prog, ReadBit(ip - start, ackManagerBitNum),
               prog[ip] = opcode, ip \in 1..Len(prog), Len(prog) = start + 36,
               ReadsFrom(prog, start)
        PROVE  ReadBit(ip' - start, ackManagerBitNum')
    <2>1. ip - start \notin {1, 6, 10} \cup ReadMerges
      BY <1>1, <1>2 DEF ReadsFrom
    <2>2. ip - start \in Int /\ ip - start < 37 /\ ip' - start = (ip - start) + 1
      BY <1>1, <1>2
    <2> QED
      BY <1>1, <1>2, <2>1, <2>2, ReadBitSteps
  <1>3. ackManagerProg = "READ_CV" => ReadBit(ip' - 1, ackManagerBitNum')
    <2>1. SUFFICES ASSUME ackManagerProg = "READ_CV"
                   PROVE ReadBit(ip' - 1, ackManagerBitNum')
      OBVIOUS
    <2>2. ReadBit(ip - 1, ackManagerBitNum) /\ Program[ackManagerProg] = READ_CV_PROG
      BY <1>1, <2>1, Programs DEF Registers
    <2>3. /\ ip \in 1..Len(READ_CV_PROG) /\ READ_CV_PROG[ip] = opcode
          /\ Len(READ_CV_PROG) = 1 + 36 /\ ReadsFrom(READ_CV_PROG, 1)
      BY <1>1, <2>2, ReadTables
    <2> QED
      BY <1>2, <2>2, <2>3
  <1>4. ackManagerProg = "VERIFY_BYTE" => ReadBit(ip' - 4, ackManagerBitNum')
    <2>1. SUFFICES ASSUME ackManagerProg = "VERIFY_BYTE"
                   PROVE ReadBit(ip' - 4, ackManagerBitNum')
      OBVIOUS
    <2>2. ReadBit(ip - 4, ackManagerBitNum) /\ Program[ackManagerProg] = VERIFY_BYTE_PROG
      BY <1>1, <2>1, Programs DEF Registers
    <2>3. /\ ip \in 1..Len(VERIFY_BYTE_PROG) /\ VERIFY_BYTE_PROG[ip] = opcode
          /\ Len(VERIFY_BYTE_PROG) = 4 + 36 /\ ReadsFrom(VERIFY_BYTE_PROG, 4)
      BY <1>1, <2>2, ReadTables
    <2> QED
      BY <1>2, <2>2, <2>3
  <1>5. ackManagerProg = "LOCO_ID" => AddressBit(ip', ackManagerBitNum')
    <2>1. SUFFICES ASSUME ackManagerProg = "LOCO_ID"
                   PROVE AddressBit(ip', ackManagerBitNum')
      OBVIOUS
    <2>2. AddressBit(ip, ackManagerBitNum) /\ Program[ackManagerProg] = LOCO_ID_PROG
      BY <2>1, Programs DEF Registers
    <2>3. ip \in 1..100 \ ({3, 11, 41, 72} \cup AddressMerges)
      BY <1>1, <2>2, AddressTable
    <2> QED
      BY <1>1, <2>2, <2>3, AddressBitSteps
  <1> QED
    BY <1>3, <1>4, <1>5 DEF Registers, AsAsked, Running

\* Setting them.
LEMMA SettingRegistered ==
  ASSUME Typed, Registers, Setting
  PROVE  Registers'
  <1> USE DEF Assign, Step, callerVars, BitOperand, CvOperand
  <1>1. /\ ip \in 1..Len(Program[ackManagerProg]) /\ ackManagerBitNum \in Bytes
        /\ Running /\ Running' /\ ip' = ip + 1 /\ ackManagerProg \in ByteReaders
        /\ UNCHANGED <<ackManagerProg, asked>>
        /\ opcode = Program[ackManagerProg][ip]
    <2>1. /\ Running /\ ip' = ip + 1 /\ UNCHANGED <<ackManagerProg, asked>>
      BY SettingSteps
    <2>2. opcode \in {"STARTMERGE", "MERGE", "STASHLOCOID"} \cup DOMAIN BitOperand
                       \cup DOMAIN CvOperand
      BY DEF Setting, StartMerge, Merge, SetBit, SetCv, StashLocoId, At
    <2>3. ackManagerProg \in ByteReaders
      BY <2>1, <2>2, Place DEF Obeys, opcode, ByteReaders
    <2> QED
      BY <2>1, <2>3, Place DEF Typed, TypeOK, Running, opcode
  <1>2. \/ opcode = "STARTMERGE" /\ ackManagerBitNum' = 7 /\ ackManagerCv' = ackManagerCv
        \/ /\ opcode = "MERGE" /\ ackManagerBitNum' = (ackManagerBitNum + 255) % 256
           /\ ackManagerCv' = ackManagerCv
        \/ opcode = "SETBIT5" /\ ackManagerBitNum' = 5 /\ ackManagerCv' = ackManagerCv
        \/ opcode = "SETBIT6" /\ ackManagerBitNum' = 6 /\ ackManagerCv' = ackManagerCv
        \/ opcode = "SETBIT7" /\ ackManagerBitNum' = 7 /\ ackManagerCv' = ackManagerCv
        \/ opcode \in DOMAIN CvOperand /\ ackManagerBitNum' = ackManagerBitNum
        \/ /\ opcode = "STASHLOCOID" /\ ackManagerBitNum' = ackManagerBitNum
           /\ ackManagerCv' = ackManagerCv
    BY DEF Setting, StartMerge, Merge, SetBit, SetCv, StashLocoId, At
  <1>3. ASSUME NEW start \in Nat, NEW prog, ReadBit(ip - start, ackManagerBitNum),
               prog[ip] = opcode, ip \in 1..Len(prog), Len(prog) = start + 36,
               ReadsFrom(prog, start)
        PROVE  ReadBit(ip' - start, ackManagerBitNum')
    <2>1. \/ ip - start \in {1, 6} /\ ackManagerBitNum' = 7
          \/ /\ ip - start \in ReadMerges
             /\ ackManagerBitNum' = (ackManagerBitNum + 255) % 256
          \/ ip - start = 10 /\ ackManagerBitNum' = 6
          \/ /\ ip - start \notin {1, 6, 10} \cup ReadMerges
             /\ ackManagerBitNum' = ackManagerBitNum
      BY SMTT(20), <1>1, <1>2, <1>3 DEF ReadsFrom
    <2>2. ip - start \in Int /\ ip - start < 37 /\ ip' - start = (ip - start) + 1
      BY <1>1, <1>3
    <2> QED
      BY SMTT(20), <1>1, <1>3, <2>1, <2>2, ReadBitSteps
  <1>4. ackManagerProg \in {"READ_CV", "VERIFY_BYTE"} => ackManagerCv' = ackManagerCv
    BY <1>1, <1>2, Place DEF Obeys
  <1>5. ackManagerProg = "READ_CV" => ReadBit(ip' - 1, ackManagerBitNum')
    <2>1. SUFFICES ASSUME ackManagerProg = "READ_CV"
                   PROVE ReadBit(ip' - 1, ackManagerBitNum')
      OBVIOUS
    <2>2. ReadBit(ip - 1, ackManagerBitNum) /\ Program[ackManagerProg] = READ_CV_PROG
      BY <1>1, <2>1, Programs DEF Registers
    <2>3. /\ ip \in 1..Len(READ_CV_PROG) /\ READ_CV_PROG[ip] = opcode
          /\ Len(READ_CV_PROG) = 1 + 36 /\ ReadsFrom(READ_CV_PROG, 1)
      BY <1>1, <2>2, ReadTables
    <2> QED
      BY <1>3, <2>2, <2>3
  <1>6. ackManagerProg = "VERIFY_BYTE" => ReadBit(ip' - 4, ackManagerBitNum')
    <2>1. SUFFICES ASSUME ackManagerProg = "VERIFY_BYTE"
                   PROVE ReadBit(ip' - 4, ackManagerBitNum')
      OBVIOUS
    <2>2. ReadBit(ip - 4, ackManagerBitNum) /\ Program[ackManagerProg] = VERIFY_BYTE_PROG
      BY <1>1, <2>1, Programs DEF Registers
    <2>3. /\ ip \in 1..Len(VERIFY_BYTE_PROG) /\ VERIFY_BYTE_PROG[ip] = opcode
          /\ Len(VERIFY_BYTE_PROG) = 4 + 36 /\ ReadsFrom(VERIFY_BYTE_PROG, 4)
      BY <1>1, <2>2, ReadTables
    <2> QED
      BY <1>3, <2>2, <2>3
  <1>7. ackManagerProg = "LOCO_ID" => AddressBit(ip', ackManagerBitNum')
    <2>1. SUFFICES ASSUME ackManagerProg = "LOCO_ID"
                   PROVE AddressBit(ip', ackManagerBitNum')
      OBVIOUS
    <2>2. AddressBit(ip, ackManagerBitNum) /\ opcode = LOCO_ID_PROG[ip] /\ ip \in 1..100
      BY <1>1, <2>1, Programs, AddressTable DEF Registers
    <2>3. \/ ip \in {11, 41, 72} /\ ackManagerBitNum' = 7
          \/ /\ ip \in AddressMerges
             /\ ackManagerBitNum' = (ackManagerBitNum + 255) % 256
          \/ ip = 3 /\ ackManagerBitNum' = 5
          \/ /\ ip \notin {3, 11, 41, 72} \cup AddressMerges
             /\ ip \in {2, 10, 39, 40, 71}
      BY <1>2, <2>2, AddressTable DEF AddressMerges
    <2>4. ip \in {2, 10, 39, 40, 71} => AddressBit(ip', ackManagerBitNum')
      BY <1>1 DEF AddressBit
    <2>5. ip' = ip + 1 /\ ip \in 1..100
      BY <1>1, <2>2
    <2> QED
      BY <1>1, <2>2, <2>3, <2>4, <2>5, AddressBitSteps
  <1> QED
    BY <1>1, <1>4, <1>5, <1>6, <1>7 DEF Registers, BitPrograms, ByteReaders

LEMMA SkipTables ==
  /\ \A k \in 1..37 : /\ READ_CV_PROG[k] = "ITSKIP" <=> k = 6
                      /\ READ_CV_PROG[k] = "SKIPTARGET" <=> k = 12
  /\ \A k \in 1..40 : /\ VERIFY_BYTE_PROG[k] = "ITSKIP" <=> k = 9
                      /\ VERIFY_BYTE_PROG[k] = "SKIPTARGET" <=> k = 15
  /\ \A k \in 1..100 : /\ LOCO_ID_PROG[k] = "ITSKIP" <=> k = 6
                       /\ LOCO_ID_PROG[k] = "SKIPTARGET" <=> k = 70
  <1>1. \A k \in 1..37 : /\ READ_CV_PROG[k] = "ITSKIP" <=> k = 6
                         /\ READ_CV_PROG[k] = "SKIPTARGET" <=> k = 12
    BY DEF READ_CV_PROG
  <1>2. \A k \in 1..40 : /\ VERIFY_BYTE_PROG[k] = "ITSKIP" <=> k = 9
                         /\ VERIFY_BYTE_PROG[k] = "SKIPTARGET" <=> k = 15
    BY DEF VERIFY_BYTE_PROG
  <1>3. \A k \in 1..100 : /\ LOCO_ID_PROG[k] = "ITSKIP" <=> k = 6
                          /\ LOCO_ID_PROG[k] = "SKIPTARGET" <=> k = 70
    BY DEF LOCO_ID_PROG
  <1> QED
    BY <1>1, <1>2, <1>3

\* Where a jump leads.
LEMMA SkipLands ==
  ASSUME Typed, Skip
  PROVE  /\ ackManagerProg \in ByteReaders
         /\ ackManagerProg = "READ_CV" => ip = 6 /\ ip' = 13
         /\ ackManagerProg = "VERIFY_BYTE" => ip = 9 /\ ip' = 16
         /\ ackManagerProg = "LOCO_ID" => ip = 6 /\ ip' = 71
  <1>1. PICK target \in 1..Len(Program[ackManagerProg]) :
          Program[ackManagerProg][target] = "SKIPTARGET" /\ ip' = target + 1
    BY SkipJumps
  <1>2. Running /\ Program[ackManagerProg][ip] = "ITSKIP"
    BY SkipJumps DEF opcode
  <1>3. ip \in 1..Len(Program[ackManagerProg]) /\ ackManagerProg \in ByteReaders
    BY <1>1, <1>2, Place, Beyond
  <1>4. CASE ackManagerProg = "READ_CV"
    BY <1>1, <1>2, <1>3, <1>4, Programs, ReadTables, SkipTables
  <1>5. CASE ackManagerProg = "VERIFY_BYTE"
    BY <1>1, <1>2, <1>3, <1>5, Programs, ReadTables, SkipTables
  <1>6. CASE ackManagerProg = "LOCO_ID"
    BY <1>1, <1>2, <1>3, <1>6, Programs, AddressTable, SkipTables
  <1> QED
    BY <1>3, <1>4, <1>5, <1>6 DEF ByteReaders

LEMMA RegistersKept ==
  ASSUME Typed, Registers, [Next]_ackVars
  PROVE  Registers'
  <1> USE DEF registers, callerVars, decoderVars
  <1>1. CASE Call
    <2>1. PICK caller \in Callers, r \in Requests, block \in BOOLEAN :
            API(caller, r, block)
      BY <1>1 DEF Call
    <2>2. r.program \in DOMAIN Program /\ r.cv \in Nat /\ r.value \in Bytes
      BY DEF LegalCalls
    <2>3. CASE /\ ~(r.program \in BitPrograms /\ r.value >= 8)
               /\ ackManagerSetup(caller, r.cv, r.value, r.program, block)
      <3>1. ip' = 1 /\ AsAsked' /\ (ackManagerProg' \in BitPrograms => asked'.value < 8)
        BY <2>2, <2>3 DEF ackManagerSetup, AsAsked, Bytes
      <3>2. /\ ReadBit(0, ackManagerBitNum') /\ ReadBit(-3, ackManagerBitNum')
            /\ AddressBit(1, ackManagerBitNum')
        BY DEF ReadBit, AddressBit
      <3> QED
        BY <3>1, <3>2 DEF Registers, AsAsked
    <2>4. CASE Reject(caller)
      BY <2>4 DEF Reject, Registers, Running, AsAsked
    <2> QED
      BY <2>1, <2>3, <2>4 DEF API
  <1>2. CASE Baseline \/ Send \/ (\E answer \in BOOLEAN : Collect(answer)) \/ FallThrough
    <2>1. /\ Running /\ ip' = ip + 1
          /\ UNCHANGED <<ackManagerProg, registers, asked>>
          /\ opcode \notin {"STARTMERGE", "MERGE"} \cup DOMAIN BitOperand
                            \cup DOMAIN CvOperand
      BY <1>2 DEF Baseline, Send, Collect, Receive, FallThrough, Step, At, BitOperand,
                  CvOperand
    <2> QED
      BY <2>1, StillRegistered
  <1>3. CASE Leaving
    BY <1>3, LeavingEnds DEF Registers
  <1>4. CASE Setting
    BY <1>4, SettingRegistered
  <1>5. CASE Skip
    <2>1. /\ Running /\ UNCHANGED <<ackManagerProg, registers, asked>>
          /\ ackManagerProg \in ByteReaders
      BY <1>5, SkipJumps, SkipLands
    <2>2. CASE ackManagerProg = "READ_CV"
      <3>1. ReadBit(5, ackManagerBitNum) /\ ip' - 1 = 12
        BY <1>5, <2>1, <2>2, SkipLands DEF Registers
      <3>2. ReadBit(12, ackManagerBitNum)
        BY <3>1 DEF ReadBit, InLoop
      <3> QED
        BY <2>1, <2>2, <3>1, <3>2 DEF Registers, BitPrograms, ByteReaders
    <2>3. CASE ackManagerProg = "VERIFY_BYTE"
      <3>1. ReadBit(5, ackManagerBitNum) /\ ip' - 4 = 12
        BY <1>5, <2>1, <2>3, SkipLands DEF Registers
      <3>2. ReadBit(12, ackManagerBitNum)
        BY <3>1 DEF ReadBit, InLoop
      <3> QED
        BY <2>1, <2>3, <3>1, <3>2 DEF Registers, BitPrograms, ByteReaders
    <2>4. CASE ackManagerProg = "LOCO_ID"
      <3>1. AddressBit(ip', ackManagerBitNum')
        BY <1>5, <2>1, <2>4, SkipLands DEF AddressBit
      <3> QED
        BY <2>1, <2>4, <3>1 DEF Registers, BitPrograms, ByteReaders
    <2> QED
      BY <2>1, <2>2, <2>3, <2>4 DEF ByteReaders
  <1>6. CASE Hear \/ UNCHANGED ackVars
    BY <1>6 DEF Hear, ackVars, Registers, Running, AsAsked
  <1> QED
    BY <1>1, <1>2, <1>3, <1>4, <1>5, <1>6, Kinds

LEMMA AskingKept ==
  ASSUME Typed, Registers, Asking, [Next]_ackVars
  PROVE  Asking'
  <1> USE DEF registers, callerVars, decoderVars
  <1>1. CASE Call
    <2>1. PICK caller \in Callers, r \in Requests, block \in BOOLEAN :
            API(caller, r, block)
      BY <1>1 DEF Call
    <2>2. CASE ackManagerSetup(caller, r.cv, r.value, r.program, block)
      BY <2>2 DEF ackManagerSetup, Asking
    <2>3. CASE Reject(caller)
      BY <2>3 DEF Reject, Asking, Running, opcode, MessageOf, BitQuestion, ByteQuestion
    <2> QED
      BY <2>1, <2>2, <2>3 DEF API
  <1>2. CASE Baseline
    <2>1. Running /\ opcode = "BASELINE" /\ ip' = ip + 1
          /\ UNCHANGED ackManagerProg /\ question' = NoQuestion
      BY <1>2 DEF Baseline, Step, At
    <2>2. opcode' # "WACK"
      BY <2>1, Onward DEF opcode, Senders
    <2> QED
      BY <2>1, <2>2 DEF Asking
  <1>3. CASE Send
    <2>1. Running /\ opcode \in Senders /\ ip' = ip + 1 /\ question' = Message
          /\ UNCHANGED <<ackManagerProg, registers>>
      BY <1>3 DEF Send, Step, At, Senders
    <2>2. opcode' = "WACK" /\ ip' - 1 = ip
      <3>1. opcode # "FAIL" /\ ip \in Nat
        BY <2>1, Place DEF Senders
      <3> QED
        BY <2>1, <3>1, Onward DEF opcode
    <2>3. Message = MessageOf(opcode)
      BY <1>3, MessageIsQuestion DEF Send, Senders
    <2>4. MessageOf(opcode) = MessageOf(Program[ackManagerProg][ip - 1])'
      BY <2>1, <2>2 DEF MessageOf, BitQuestion, ByteQuestion, opcode
    <2> QED
      BY <2>1, <2>2, <2>3, <2>4 DEF Asking
  <1>4. CASE \E answer \in BOOLEAN : Collect(answer)
    <2>1. Running /\ opcode = "WACK" /\ ip' = ip + 1 /\ question' = NoQuestion
          /\ UNCHANGED ackManagerProg
      BY <1>4 DEF Collect, Receive, Step, At
    <2>2. opcode' # "WACK"
      BY <2>1, Onward DEF opcode, Senders
    <2> QED
      BY <2>1, <2>2 DEF Asking
  <1>5. CASE Leaving
    BY <1>5, LeavingEnds DEF Asking
  <1>6. CASE Setting \/ FallThrough
    <2>1. /\ Running /\ opcode \notin {"FAIL", "WACK", "BASELINE"} \cup Senders
          /\ ip' = ip + 1 /\ UNCHANGED <<ackManagerProg, question>>
      BY <1>6, SettingSteps
    <2>2. opcode' # "WACK" /\ ip > 1
      <3>1. ip \in 1..Len(Program[ackManagerProg])
        BY <2>1, Place
      <3> QED
        BY <2>1, <3>1, Onward DEF opcode
    <2> QED
      BY <2>1, <2>2 DEF Asking
  <1>7. CASE Skip
    <2>1. /\ Running /\ opcode = "ITSKIP" /\ UNCHANGED <<ackManagerProg, question>>
      BY <1>7, SkipJumps
    <2>2. opcode' # "WACK"
      BY <1>7, <2>1, SkipJumps, Beyond DEF opcode
    <2>3. ip > 1
      BY <2>1, Place, Onward
    <2> QED
      BY <2>1, <2>2, <2>3 DEF Asking
  <1>8. CASE Hear \/ UNCHANGED ackVars
    BY <1>8 DEF Hear, ackVars, Asking, Running, opcode, MessageOf, BitQuestion, ByteQuestion
  <1> QED
    BY <1>1, <1>2, <1>3, <1>4, <1>5, <1>6, <1>7, <1>8, Kinds

\* The decoder's memory changes only under a write that was asked for.
LEMMA MemoryKept ==
  ASSUME Typed, Asking, Running, ip > 1, [Next]_ackVars,
         opcode # "WACK" \/ ackManagerProg \notin Writers
  PROVE  UNCHANGED memory
  <1>1. CASE Hear
    <2>1. opcode = "WACK" /\ question = MessageOf(Program[ackManagerProg][ip - 1])
      BY <1>1 DEF Asking, Hear
    <2>2. ip - 1 \in 1..Len(Program[ackManagerProg])
      BY Place
    <2>3. ackManagerProg \notin Writers
      BY <2>1
    <2>4. /\ Program[ackManagerProg][ip - 1] \notin {"W0", "W1", "WB"}
          /\ Program[ackManagerProg][ip - 1] \in Senders
      BY <2>1, <2>2, <2>3, Place, Onward DEF Obeys, Writers
    <2>5. question.what \in {"V", "VB"}
      BY <2>1, <2>4 DEF MessageOf, BitQuestion, ByteQuestion, Senders
    <2> QED
      BY <1>1, <2>5 DEF Hear, Executed
  <1>2. CASE ~Hear
    BY <1>2, Kinds DEF Call, API, ackManagerSetup, Reject, Baseline, Send, Collect,
       Receive, Leaving, IfTrueCallback, FailCallback, CombineCallback, Callback, Setting,
       StartMerge, Merge, SetBit, SetCv, StashLocoId, Assign, FallThrough, Skip, ackVars,
       decoderVars
  <1> QED
    BY <1>1, <1>2

LEMMA AnsweredKept ==
  ASSUME Typed, Registers, Asking, Answered, [Next]_ackVars
  PROVE  Answered'
  <1> USE DEF registers, callerVars, decoderVars
  <1>1. CASE Call
    <2>1. PICK caller \in Callers, r \in Requests, block \in BOOLEAN :
            API(caller, r, block)
      BY <1>1 DEF Call
    <2>2. CASE ackManagerSetup(caller, r.cv, r.value, r.program, block)
      BY <2>2 DEF ackManagerSetup, Answered
    <2>3. CASE Reject(caller)
      BY <2>3 DEF Reject, Answered, Running, opcode, MessageOf, BitQuestion, ByteQuestion,
                  Acknowledges
    <2> QED
      BY <2>1, <2>2, <2>3 DEF API
  <1>2. CASE Baseline \/ Send \/ Setting \/ FallThrough
    <2>1. Running /\ opcode # "WACK" /\ ip' = ip + 1 /\ UNCHANGED ackManagerProg
      BY <1>2, SettingSteps DEF Baseline, Send, Step, At
    <2>2. Program[ackManagerProg'][ip' - 1] # "WACK"
      BY <2>1, Place DEF opcode
    <2> QED
      BY <2>2 DEF Answered
  <1>3. CASE \E answer \in BOOLEAN : Collect(answer)
    <2>1. /\ Running /\ opcode = "WACK" /\ ip' = ip + 1
          /\ UNCHANGED <<ackManagerProg, registers, memory>>
          /\ ackReceived' => Acknowledges(question, memory)
      BY <1>3 DEF Collect, Receive, Step, At
    <2>2. ip > 1 /\ ip \in Nat
      BY <2>1, Place, Onward
    <2>3. question = MessageOf(Program[ackManagerProg][ip - 1]) /\ ip' - 2 = ip - 1
      BY <2>1, <2>2 DEF Asking
    <2>4. question = MessageOf(Program[ackManagerProg][ip - 2])'
      BY <2>1, <2>3 DEF MessageOf, BitQuestion, ByteQuestion
    <2> QED
      BY <2>1, <2>4 DEF Answered
  <1>4. CASE Leaving
    BY <1>4, LeavingEnds DEF Answered
  <1>5. CASE Skip
    <2>1. PICK target \in 1..Len(Program[ackManagerProg]) :
            Program[ackManagerProg][target] = "SKIPTARGET" /\ ip' = target + 1
      BY <1>5, SkipJumps
    <2>2. UNCHANGED ackManagerProg /\ ip' - 1 = target
      BY <1>5, <2>1, SkipJumps
    <2> QED
      BY <2>1, <2>2 DEF Answered
  <1>6. CASE Hear \/ UNCHANGED ackVars
    <2>1. SUFFICES ASSUME Running, ip > 2, ackReceived,
                          Program[ackManagerProg][ip - 1] = "WACK"
                   PROVE Acknowledges(MessageOf(Program[ackManagerProg][ip - 2]), memory')
      BY <1>6 DEF Hear, ackVars, Answered, Running, MessageOf, BitQuestion, ByteQuestion
    <2>2. opcode # "FAIL" => opcode # "WACK"
      BY <2>1, Onward DEF Senders
    <2>3. UNCHANGED memory
      BY <1>6, <2>1, <2>2, Place, MemoryKept
    <2> QED
      BY <2>1, <2>3 DEF Answered
  <1> QED
    BY <1>1, <1>2, <1>3, <1>4, <1>5, <1>6, Kinds

\* Where LOCO_ID_PROG asks what, and what it makes of it.
LEMMA LocoIdTable ==
  /\ LOCO_ID_PROG[4] = "V0" /\ LOCO_ID_PROG[5] = "WACK"
  /\ LOCO_ID_PROG[7] = "V1" /\ LOCO_ID_PROG[8] = "WACK" /\ LOCO_ID_PROG[9] = "NAKFAIL"
  /\ LOCO_ID_PROG[36] = "VB" /\ LOCO_ID_PROG[37] = "WACK" /\ LOCO_ID_PROG[38] = "NAKFAIL"
  /\ LOCO_ID_PROG[66] = "VB" /\ LOCO_ID_PROG[67] = "WACK" /\ LOCO_ID_PROG[68] = "NAKFAIL"
  /\ \A k \in 1..100 :
       /\ LOCO_ID_PROG[k] = "COMBINELOCOID" <=> k = 69
       /\ LOCO_ID_PROG[k] = "SETCV29" <=> k = 2
       /\ LOCO_ID_PROG[k] = "SETCV17" <=> k = 10
       /\ LOCO_ID_PROG[k] = "SETCV18" <=> k = 40
       /\ LOCO_ID_PROG[k] = "SETCV1" <=> k = 71
       /\ LOCO_ID_PROG[k] = "ITCB" => k = 99
       /\ LOCO_ID_PROG[k] \notin {"ITC0", "ITC1"}
  <1>1. \A k \in 1..100 :
       /\ LOCO_ID_PROG[k] = "COMBINELOCOID" <=> k = 69
       /\ LOCO_ID_PROG[k] = "SETCV29" <=> k = 2
       /\ LOCO_ID_PROG[k] = "SETCV17" <=> k = 10
       /\ LOCO_ID_PROG[k] = "SETCV18" <=> k = 40
       /\ LOCO_ID_PROG[k] = "SETCV1" <=> k = 71
       /\ LOCO_ID_PROG[k] = "ITCB" => k = 99
       /\ LOCO_ID_PROG[k] \notin {"ITC0", "ITC1"}
    BY DEF LOCO_ID_PROG
  <1> QED
    BY <1>1 DEF LOCO_ID_PROG

\* What the answers to the three questions tell.
LEMMA AddressAnswers ==
  ASSUME AckInv, Running, ackManagerProg = "LOCO_ID", ackReceived
  PROVE  /\ ip = 6 => BitOf(memory[29], 5) = 0
         /\ ip = 9 => BitOf(memory[29], 5) = 1
         /\ ip = 38 => memory[17] = ackManagerByte
         /\ ip = 68 => memory[18] = ackManagerByte
  <1> USE DEF MessageOf, BitQuestion, ByteQuestion, Acknowledges
  <1>1. /\ AddressBit(ip, ackManagerBitNum) /\ Program[ackManagerProg] = LOCO_ID_PROG
        /\ ip \in 6..10 => ackManagerCv = 29
        /\ ip = 38 => ackManagerCv = 17
        /\ ip = 68 => ackManagerCv = 18
    BY Programs DEF AckInv, Registers, AddressSoFar
  <1>2. ASSUME ip = 6 PROVE BitOf(memory[29], 5) = 0
    <2>1. Acknowledges(MessageOf("V0"), memory)
      BY <1>1, <1>2, LocoIdTable DEF AckInv, Answered
    <2> QED
      BY <1>1, <1>2, <2>1 DEF AddressBit
  <1>3. ASSUME ip = 9 PROVE BitOf(memory[29], 5) = 1
    <2>1. Acknowledges(MessageOf("V1"), memory)
      BY <1>1, <1>3, LocoIdTable DEF AckInv, Answered
    <2> QED
      BY <1>1, <1>3, <2>1 DEF AddressBit
  <1>4. ASSUME ip \in {38, 68} PROVE memory[ackManagerCv] = ackManagerByte
    <2>1. Acknowledges(MessageOf("VB"), memory)
      BY <1>1, <1>4, LocoIdTable DEF AckInv, Answered
    <2> QED
      BY <2>1
  <1> QED
    BY <1>1, <1>2, <1>3, <1>4

LEMMA AddressKept ==
  ASSUME AckInv, [Next]_ackVars
  PROVE  AddressSoFar'
  <1> USE DEF registers, callerVars, decoderVars
  <1>1. CASE Call
    <2>1. PICK caller \in Callers, r \in Requests, block \in BOOLEAN :
            API(caller, r, block)
      BY <1>1 DEF Call
    <2>2. CASE ackManagerSetup(caller, r.cv, r.value, r.program, block)
      BY <2>2 DEF ackManagerSetup, AddressSoFar
    <2>3. CASE Reject(caller)
      BY <2>3 DEF Reject, AddressSoFar, Running, AckInv
    <2> QED
      BY <2>1, <2>2, <2>3 DEF API
  <1>2. CASE Baseline \/ Send \/ (\E answer \in BOOLEAN : Collect(answer))
             \/ Setting \/ FallThrough
    <2>1. SUFFICES ASSUME ackManagerProg = "LOCO_ID"
                   PROVE AddressSoFar'
      BY <1>2, SettingSteps
         DEF AddressSoFar, Baseline, Send, Collect, Receive, Step
    <2>2. /\ Running /\ ip' = ip + 1 /\ UNCHANGED ackManagerProg
          /\ opcode = LOCO_ID_PROG[ip] /\ ip \in 1..100
      <3>1. Running /\ ip' = ip + 1 /\ UNCHANGED ackManagerProg
        BY <1>2, SettingSteps DEF Baseline, Send, Collect, Receive, Step, At
      <3> QED
        BY <2>1, <3>1, Place, Programs, AddressTable DEF AckInv, opcode
    <2>3. UNCHANGED memory
      BY <1>2 DEF Baseline, Send, Collect, Receive, Setting, StartMerge, Merge, SetBit,
                  SetCv, StashLocoId, Assign, FallThrough
    <2>4. /\ opcode # "COMBINELOCOID"
          /\ opcode = "NAKFAIL" => ackReceived
          /\ opcode \in DOMAIN CvOperand => ackManagerCv' = CvOperand[opcode]
          /\ opcode \notin DOMAIN CvOperand => ackManagerCv' = ackManagerCv
          /\ opcode = "STASHLOCOID" => ackManagerStash' = ackManagerByte
          /\ opcode # "STASHLOCOID" => ackManagerStash' = ackManagerStash
          /\ opcode \in {"NAKFAIL", "STASHLOCOID"} => ackManagerByte' = ackManagerByte
      BY <1>2 DEF Baseline, Send, Collect, Receive, Setting, StartMerge, Merge, SetBit,
                  SetCv, StashLocoId, Assign, FallThrough, At, CvOperand, BitOperand
    <2>5. /\ opcode = "SETCV29" => ackManagerCv' = 29
          /\ opcode = "SETCV17" => ackManagerCv' = 17
          /\ opcode = "SETCV18" => ackManagerCv' = 18
          /\ opcode = "SETCV1" => ackManagerCv' = 1
      BY <2>4 DEF CvOperand
    <2>6. /\ ip = 9 => BitOf(memory[29], 5) = 1
          /\ ip = 38 => memory[17] = ackManagerByte
          /\ ip = 68 => memory[18] = ackManagerByte
      BY <2>1, <2>2, <2>4, AddressAnswers, LocoIdTable
    <2>7. /\ ip # 69 /\ ip # 70
          /\ ip \in 3..10 => ackManagerCv = 29
          /\ ip \in 10..70 => BitOf(memory[29], 5) = 1
          /\ ip \in 11..40 => ackManagerCv = 17
          /\ ip \in 40..70 => ackManagerStash = memory[17]
          /\ ip = 39 => ackManagerByte = memory[17]
          /\ ip \in 41..70 => ackManagerCv = 18
          /\ ip > 70 => BitOf(memory[29], 5) = 0
          /\ ip > 71 => ackManagerCv = 1
      BY <2>1, <2>2, <2>4, LocoIdTable DEF AckInv, AddressSoFar
    <2>8. /\ ip = 2 => ackManagerCv' = 29
          /\ ip = 10 => ackManagerCv' = 17
          /\ ip = 40 => ackManagerCv' = 18
          /\ ip = 71 => ackManagerCv' = 1
          /\ ip \notin {2, 10, 40, 71} => ackManagerCv' = ackManagerCv
          /\ ip = 39 => ackManagerStash' = ackManagerByte
          /\ ip # 39 => ackManagerStash' = ackManagerStash
          /\ ip \in {38, 68, 39} => ackManagerByte' = ackManagerByte
      <3>1. /\ ip = 2 <=> opcode = "SETCV29"
            /\ ip = 10 <=> opcode = "SETCV17"
            /\ ip = 40 <=> opcode = "SETCV18"
            /\ ip = 71 <=> opcode = "SETCV1"
            /\ ip \in {38, 68} => opcode = "NAKFAIL"
        BY <2>2, LocoIdTable
      <3>2. /\ opcode \in DOMAIN CvOperand <=> ip \in {2, 10, 40, 71}
            /\ opcode = "STASHLOCOID" <=> ip = 39
        BY <2>2, AddressTable
      <3> QED
        BY <2>4, <2>5, <3>1, <3>2
    <2> QED
      BY <2>2, <2>3, <2>6, <2>7, <2>8 DEF AddressSoFar
  <1>3. CASE Leaving
    BY <1>3, LeavingEnds DEF AddressSoFar
  <1>4. CASE Skip
    <2>1. SUFFICES ASSUME ackManagerProg = "LOCO_ID" PROVE AddressSoFar'
      BY <1>4, SkipJumps DEF AddressSoFar, AckInv
    <2>2. /\ Running /\ ackReceived /\ ip = 6 /\ ip' = 71
          /\ UNCHANGED <<ackManagerProg, memory>>
      BY <1>4, <2>1, SkipJumps, SkipLands DEF AckInv
    <2> QED
      BY <2>1, <2>2, AddressAnswers DEF AddressSoFar
  <1>5. CASE Hear \/ UNCHANGED ackVars
    <2>1. UNCHANGED <<ackManagerProg, ip, registers>>
      BY <1>5 DEF Hear, ackVars
    <2>2. SUFFICES ASSUME Running, ackManagerProg = "LOCO_ID" PROVE AddressSoFar'
      BY <2>1 DEF AddressSoFar, Running
    <2>3. ip \in Nat /\ (ip > 1 => UNCHANGED memory)
      BY <2>2, MemoryKept, Place DEF AckInv, Writers
    <2> QED
      BY <2>1, <2>2, <2>3 DEF AckInv, AddressSoFar
  <1> QED
    BY <1>1, <1>2, <1>3, <1>4, <1>5, Kinds

LEMMA AckInvKept ==
  ASSUME AckInv, [Next]_ackVars
  PROVE  AckInv'
  BY TypedKept, RegistersKept, AskingKept, AnsweredKept, AddressKept DEF AckInv

-----------------------------------------------------------------------------
(* What a program calls back with.                                         *)

\* The answer that an ITC instruction goes by.
LEMMA AnswerBefore ==
  ASSUME AckInv, At({"ITC0", "ITC1", "ITCB"}), ackReceived
  PROVE  /\ ip \in 1..Len(Program[ackManagerProg]) /\ ip > 2
         /\ Obeys(ackManagerProg, Program[ackManagerProg])
         /\ Program[ackManagerProg][ip - 1] = "WACK"
         /\ Acknowledges(MessageOf(Program[ackManagerProg][ip - 2]), memory)
  <1>1. /\ ip \in 1..Len(Program[ackManagerProg])
        /\ Obeys(ackManagerProg, Program[ackManagerProg])
    BY Place DEF AckInv, At
  <1>2. ip > 2 /\ Program[ackManagerProg][ip - 1] = "WACK"
    BY <1>1 DEF Obeys, At, opcode
  <1> QED
    BY <1>1, <1>2 DEF AckInv, Answered, At

LEMMA BitRead ==
  ASSUME AckInv, At({"ITC0", "ITC1"}), ackReceived, ackManagerProg \in BitReaders
  PROVE  BitOf(memory[asked.cv], asked.value) = IF opcode = "ITC0" THEN 0 ELSE 1
  <1>1. ackManagerCv = asked.cv /\ ackManagerBitNum = asked.value
    BY DEF AckInv, Registers, AsAsked, At, BitReaders, ByteReaders
  <1>2. Acknowledges(MessageOf(Program[ackManagerProg][ip - 2]), memory)
    BY AnswerBefore DEF At
  <1>3. Program[ackManagerProg][ip - 2] = IF opcode = "ITC0" THEN "V0" ELSE "V1"
    BY AnswerBefore DEF Obeys, At, opcode, BitReaders
  <1> QED
    BY <1>1, <1>2, <1>3 DEF MessageOf, BitQuestion, Acknowledges

LEMMA BitOrByteWritten ==
  ASSUME AckInv, At({"ITC1"}), ackReceived,
         ackManagerProg \in {"WRITE_BIT0", "WRITE_BIT1", "WRITE_BYTE"}
  PROVE  Written
  <1>1. /\ ackManagerCv = asked.cv /\ ackManagerBitNum = asked.value
        /\ ackManagerByte = asked.value
    BY DEF AckInv, Registers, AsAsked, At, ByteReaders
  <1>2. Acknowledges(MessageOf(Program[ackManagerProg][ip - 2]), memory)
    BY AnswerBefore DEF At
  <1>3. /\ ackManagerProg = "WRITE_BIT0" => Program[ackManagerProg][ip - 2] = "V0"
        /\ ackManagerProg = "WRITE_BIT1" => Program[ackManagerProg][ip - 2] = "V1"
        /\ ackManagerProg = "WRITE_BYTE" => Program[ackManagerProg][ip - 2] = "VB"
    BY AnswerBefore DEF Obeys, At, opcode, BitReaders
  <1> QED
    BY <1>1, <1>2, <1>3
    DEF MessageOf, BitQuestion, ByteQuestion, Acknowledges, Written

LEMMA ByteRead ==
  ASSUME AckInv, At({"ITCB"}), ackReceived
  PROVE  ackManagerByte = Truth /\ Written
  <1>1. /\ Program[ackManagerProg][ip - 2] = "VB" /\ ackManagerProg \in ByteReaders
        /\ Program[ackManagerProg][ip] = "ITCB"
    BY AnswerBefore DEF Obeys, At, opcode
  <1>2. memory[ackManagerCv] = ackManagerByte
    <2>1. Acknowledges(MessageOf("VB"), memory)
      BY <1>1, AnswerBefore DEF At
    <2> QED
      BY <2>1 DEF MessageOf, ByteQuestion, Acknowledges
  <1>3. ackManagerProg \in {"READ_CV", "VERIFY_BYTE"} => ackManagerCv = asked.cv
    BY DEF AckInv, Registers, At
  <1>4. ackManagerProg = "LOCO_ID" => ackManagerCv = 1 /\ BitOf(memory[29], 5) = 0
    <2>1. SUFFICES ASSUME ackManagerProg = "LOCO_ID"
                   PROVE ackManagerCv = 1 /\ BitOf(memory[29], 5) = 0
      OBVIOUS
    <2>2. ip \in 1..100 /\ LOCO_ID_PROG[ip] = "ITCB"
      BY <1>1, <2>1, AnswerBefore, Programs, AddressTable DEF At
    <2>3. ip = 99
      BY <2>2, LocoIdTable
    <2> QED
      BY <2>1, <2>3 DEF AckInv, AddressSoFar, At
  <1> QED
    BY <1>1, <1>2, <1>3, <1>4 DEF Truth, Written, ByteReaders

LEMMA AddressRead ==
  ASSUME AckInv, At({"COMBINELOCOID"})
  PROVE  ackManagerByte + (ackManagerStash - 192) * 256 = Truth /\ Written
  <1>1. ackManagerProg = "LOCO_ID"
    BY Place DEF AckInv, At, opcode, Obeys
  <1>2. ip = 69
    BY <1>1, Place, Programs, AddressTable, LocoIdTable DEF AckInv, At, opcode
  <1>3. /\ ackManagerByte = memory[18] /\ ackManagerStash = memory[17]
        /\ BitOf(memory[29], 5) = 1
    BY <1>1, <1>2 DEF AckInv, AddressSoFar, At
  <1>4. ackManagerByte \in Int /\ ackManagerStash \in Int
    BY DEF AckInv, Typed, TypeOK, Bytes
  <1>5. Truth = (memory[17] - 192) * 256 + memory[18] /\ Written
    BY <1>1, <1>3 DEF Truth, Written
  <1> QED
    BY <1>3, <1>4, <1>5

\* A program ends at its callback and nowhere else.
LEMMA CompletesByCallback ==
  ASSUME AckInv, [Next]_ackVars, Completes
  PROVE  Leaving
  <1>1. CASE Call
    BY <1>1, Programs
    DEF Call, API, ackManagerSetup, Reject, Completes, Running, LegalCalls
  <1>2. CASE Setting \/ FallThrough \/ Skip
    BY <1>2, SettingSteps, SkipJumps DEF Completes, Running, AckInv
  <1>3. CASE \/ Baseline \/ Send \/ (\E answer \in BOOLEAN : Collect(answer))
             \/ Hear \/ UNCHANGED ackVars
    BY <1>3 DEF Baseline, Send, Collect, Receive, Step, Hear, ackVars, Completes, Running
  <1> QED
    BY <1>1, <1>2, <1>3, Kinds

LEMMA CompletesTruly ==
  ASSUME AckInv, [Next]_ackVars, Completes
  PROVE  called'.value = -1 \/ (called'.value = Truth /\ Written)
  <1>1. Leaving
    BY CompletesByCallback
  <1>2. CASE IfTrueCallback
    <2>1. At({"ITC0", "ITC1", "ITCB"}) /\ ackReceived
      BY <1>2 DEF IfTrueCallback
    <2>2. CASE opcode = "ITCB"
      <3>1. called'.value = ackManagerByte
        BY <1>2, <2>2 DEF IfTrueCallback, Callback
      <3> QED
        BY <2>1, <2>2, <3>1, ByteRead DEF At
    <2>3. CASE opcode \in {"ITC0", "ITC1"}
      <3>1. called'.value = IF opcode = "ITC0" THEN 0 ELSE 1
        BY <1>2, <2>3 DEF IfTrueCallback, Callback
      <3>2. \/ ackManagerProg \in BitReaders
            \/ /\ ackManagerProg \in {"WRITE_BIT0", "WRITE_BIT1", "WRITE_BYTE"}
               /\ opcode = "ITC1"
        BY <2>1, <2>3, AnswerBefore DEF Obeys, At, opcode
      <3>3. CASE ackManagerProg \in BitReaders
        BY <2>1, <2>3, <3>1, <3>3, BitRead DEF At, Truth, Written, BitReaders
      <3>4. CASE /\ ackManagerProg \in {"WRITE_BIT0", "WRITE_BIT1", "WRITE_BYTE"}
                 /\ opcode = "ITC1"
        <4>1. Truth = 1 /\ Written
          BY <2>1, <3>4, BitOrByteWritten DEF At, Truth
        <4> QED
          BY <3>1, <3>4, <4>1
      <3> QED
        BY <3>2, <3>3, <3>4
    <2> QED
      BY <2>1, <2>2, <2>3 DEF At
  <1>3. CASE FailCallback
    BY <1>3 DEF FailCallback, Callback
  <1>4. CASE CombineCallback
    BY <1>4, AddressRead DEF CombineCallback, Callback
  <1> QED
    BY <1>1, <1>2, <1>3, <1>4 DEF Leaving

-----------------------------------------------------------------------------
(* What is known while no answer was lost.                                 *)

\* The decoder holds bytes, and the CVs of the running operation.
DecoderTyped ==
  /\ Holds(memory)
  /\ Running => IF ackManagerProg = "LOCO_ID" THEN {1, 17, 18, 29} \subseteq DOMAIN memory
                ELSE asked.cv \in DOMAIN memory
  /\ question # NoQuestion /\ question.what \in {"W", "V"} => question.value \in {0, 1}

\* An answer to what was just asked was received if there was one.
NotMissed ==
  (/\ Running /\ ~lost /\ ip > 2 /\ Program[ackManagerProg][ip - 1] = "WACK"
   /\ Acknowledges(MessageOf(Program[ackManagerProg][ip - 2]), memory)) => ackReceived

\* A byte after n instructions of a merging loop: the bits of m tested so far.
Merged(n, byte, m) ==
  /\ n \in 0..2 => byte = 0
  /\ n \in 3..5 => byte = m \div 128
  /\ n \in 6..8 => byte = m \div 64
  /\ n \in 9..11 => byte = m \div 32
  /\ n \in 12..14 => byte = m \div 16
  /\ n \in 15..17 => byte = m \div 8
  /\ n \in 18..20 => byte = m \div 4
  /\ n \in 21..23 => byte = m \div 2
  /\ n \in 24..26 => byte = m

\* In the r-th instruction of reading a byte m.
ByteFound(r, byte, m, answer) ==
  /\ r \in 2..4 => Merged(r - 2, byte, m)
  /\ r \in 5..11 => Merged(3, byte, m)
  /\ r = 5 => byte = IF answer THEN 0 ELSE 1
  /\ r \in 6..11 => byte = 1
  /\ r \in 12..35 => Merged(r - 9, byte, m)

\* In the k-th instruction of reading an address.
AddressFound(k, byte, cvs) ==
  /\ k \in 7..9 => BitOf(cvs[29], 5) = 1
  /\ k \in 12..38 => Merged(k - 12, byte, cvs[17])
  /\ k \in 42..68 => Merged(k - 42, byte, cvs[18])
  /\ k \in 73..99 => Merged(k - 73, byte, cvs[1])

\* In the k-th instruction of a program about a bit.
BitFound(k, program, bit) ==
  k \in 5..7 => /\ program = "VERIFY_BIT0" => bit = 1
                /\ program \in {"VERIFY_BIT1", "READ_BIT"} => bit = 0

\* What the program has found so far is so, what it was to write is written,
\* and it is not at its end.
FoundSoFar ==
  Running /\ ~lost =>
    /\ opcode # "FAIL"
    /\ ackManagerProg = "READ_CV" =>
         ByteFound(ip - 1, ackManagerByte, memory[asked.cv], ackReceived)
    /\ ackManagerProg = "VERIFY_BYTE" =>
         ByteFound(ip - 4, ackManagerByte, memory[asked.cv], ackReceived)
    /\ ackManagerProg = "LOCO_ID" => AddressFound(ip, ackManagerByte, memory)
    /\ ackManagerProg \in BitReaders =>
         BitFound(ip, ackManagerProg, BitOf(memory[asked.cv], asked.value))
    /\ ackManagerProg \in Writers /\ (ip \in 4..6 \/ (ip = 3 /\ heard)) => Written

UnlostInv == AckInv /\ DecoderTyped /\ NotMissed /\ FoundSoFar

-----------------------------------------------------------------------------
(* Bits of bytes.                                                          *)

LEMMA Bits ==
  ASSUME NEW m \in Bytes
  PROVE  /\ BitOf(m, 0) = m % 2 /\ BitOf(m, 1) = (m \div 2) % 2
         /\ BitOf(m, 2) = (m \div 4) % 2 /\ BitOf(m, 3) = (m \div 8) % 2
         /\ BitOf(m, 4) = (m \div 16) % 2 /\ BitOf(m, 5) = (m \div 32) % 2
         /\ BitOf(m, 6) = (m \div 64) % 2 /\ BitOf(m, 7) = (m \div 128) % 2
  BY DEF BitOf, Bytes

LEMMA BitIsBit ==
  ASSUME NEW m \in Bytes, NEW n \in 0..7
  PROVE  BitOf(m, n) \in {0, 1}
  <1>1. \A x \in Int : x % 2 \in {0, 1}
    OBVIOUS
  <1>2. \A x \in Bytes, y \in {1, 2, 4, 8, 16, 32, 64, 128} : x \div y \in Int
    BY DEF Bytes
  <1>3. n \in {0, 1, 2, 3, 4, 5, 6, 7}
    OBVIOUS
  <1> QED
    BY <1>1, <1>2, <1>3, Bits DEF Bytes

\* The decoder sets the bit and no other byte than one.
LEMMA BitIsSet ==
  ASSUME NEW m \in Bytes, NEW n \in 0..7, NEW bit \in {0, 1}
  PROVE  WithBit(m, n, bit) \in Bytes /\ BitOf(WithBit(m, n, bit), n) = bit
  <1> USE DEF WithBit, BitOf, Bytes
  <1>1. CASE n = 0
    BY <1>1
  <1>2. CASE n = 1
    BY <1>2
  <1>3. CASE n = 2
    BY <1>3
  <1>4. CASE n = 3
    BY <1>4
  <1>5. CASE n = 4
    BY <1>5
  <1>6. CASE n = 5
    BY <1>6
  <1>7. CASE n = 6
    BY <1>7
  <1>8. CASE n = 7
    BY <1>8
  <1> QED
    BY <1>1, <1>2, <1>3, <1>4, <1>5, <1>6, <1>7, <1>8

\* MERGE takes over one more bit.
LEMMA MergedOneMore ==
  ASSUME NEW m \in Bytes, NEW byte \in Bytes, NEW bit \in 0..7,
         Merged(23 - 3 * bit, byte, m)
  PROVE  Merged(24 - 3 * bit,
                (byte * 2 + (IF BitOf(m, bit) = 0 THEN 0 ELSE 1)) % 256, m)
  <1> USE Bits DEF Merged, Bytes
  <1>1. CASE bit = 0
    BY <1>1
  <1>2. CASE bit = 1
    BY <1>2
  <1>3. CASE bit = 2
    BY <1>3
  <1>4. CASE bit = 3
    BY <1>4
  <1>5. CASE bit = 4
    BY <1>5
  <1>6. CASE bit = 5
    BY <1>6
  <1>7. CASE bit = 6
    BY <1>7
  <1>8. CASE bit = 7
    BY <1>8
  <1> QED
    BY <1>1, <1>2, <1>3, <1>4, <1>5, <1>6, <1>7, <1>8

LEMMA DecoderKept ==
  ASSUME AckInv, DecoderTyped, [Next]_ackVars
  PROVE  DecoderTyped'
  <1> USE DEF registers, callerVars, decoderVars
  <1>1. CASE Call
    <2>1. PICK caller \in Callers, r \in Requests, block \in BOOLEAN :
            API(caller, r, block)
      BY <1>1 DEF Call
    <2>2. CASE ackManagerSetup(caller, r.cv, r.value, r.program, block)
      BY <2>2 DEF ackManagerSetup, DecoderTyped, Holds
    <2>3. CASE Reject(caller)
      BY <2>3 DEF Reject, DecoderTyped, Holds, Running
    <2> QED
      BY <2>1, <2>2, <2>3 DEF API
  <1>2. CASE Hear
    <2>1. question \in Question /\ question # NoQuestion
      BY <1>2 DEF Hear, AckInv, Typed, TypeOK
    <2>2. question.bit \in 0..7 /\ question.value \in Bytes
      BY <2>1 DEF Question
    <2>3. /\ memory' \in [DOMAIN memory -> Bytes]
      <3>1. memory' = Executed(question, memory) /\ memory \in [DOMAIN memory -> Bytes]
        BY <1>2 DEF Hear, DecoderTyped, Holds
      <3>2. CASE question.what = "W"
        <4>1. question.cv \in DOMAIN memory =>
                WithBit(memory[question.cv], question.bit, question.value) \in Bytes
          BY <2>1, <2>2, <3>1, <3>2, BitIsSet DEF DecoderTyped
        <4>2. memory' = [memory EXCEPT ![question.cv] =
                           WithBit(@, question.bit, question.value)]
          BY <3>1, <3>2 DEF Executed
        <4> QED
          BY <3>1, <4>1, <4>2
      <3>3. CASE question.what = "WB"
        BY <2>2, <3>1, <3>3 DEF Executed
      <3>4. CASE question.what \notin {"W", "WB"}
        BY <3>1, <3>4 DEF Executed
      <3> QED
        BY <3>2, <3>3, <3>4
    <2>4. DOMAIN memory' = DOMAIN memory
      BY <2>3
    <2> QED
      BY <1>2, <2>3, <2>4 DEF Hear, DecoderTyped, Holds, Running
  <1>3. CASE Send
    <2>1. question' = MessageOf(opcode) /\ opcode \in Senders
      BY <1>3, MessageIsQuestion DEF Send, At, Senders, AckInv
    <2>2. question'.what \in {"W", "V"} => question'.value \in {0, 1}
      BY <2>1 DEF MessageOf, BitQuestion, ByteQuestion, Senders
    <2> QED
      BY <1>3, <2>2 DEF Send, Step, DecoderTyped, Holds, Running
  <1>4. CASE Leaving
    BY <1>4, LeavingEnds DEF DecoderTyped, Holds, Running
  <1>5. CASE Setting \/ FallThrough
    BY <1>5, SettingSteps DEF DecoderTyped, Holds, Running
  <1>6. CASE Baseline \/ (\E answer \in BOOLEAN : Collect(answer)) \/ Skip
             \/ UNCHANGED ackVars
    BY <1>6 DEF Baseline, Collect, Receive, Step, Skip, ackVars, DecoderTyped, Holds,
                Running
  <1> QED
    BY <1>1, <1>2, <1>3, <1>4, <1>5, <1>6, Kinds

LEMMA NotMissedKept ==
  ASSUME AckInv, NotMissed, [Next]_ackVars
  PROVE  NotMissed'
  <1> USE DEF registers, callerVars, decoderVars, AckInv
  <1>1. CASE Call
    <2>1. PICK caller \in Callers, r \in Requests, block \in BOOLEAN :
            API(caller, r, block)
      BY <1>1 DEF Call
    <2>2. CASE ackManagerSetup(caller, r.cv, r.value, r.program, block)
      BY <2>2 DEF ackManagerSetup, NotMissed
    <2>3. CASE Reject(caller)
      BY <2>3 DEF Reject, NotMissed, Running, MessageOf, BitQuestion, ByteQuestion,
                  Acknowledges
    <2> QED
      BY <2>1, <2>2, <2>3 DEF API
  <1>2. CASE Baseline \/ Send \/ Setting \/ FallThrough
    <2>1. Running /\ opcode # "WACK" /\ ip' = ip + 1 /\ UNCHANGED ackManagerProg
      BY <1>2, SettingSteps DEF Baseline, Send, Step, At
    <2>2. Program[ackManagerProg'][ip' - 1] # "WACK"
      BY <2>1, Place DEF opcode
    <2> QED
      BY <2>2 DEF NotMissed
  <1>3. CASE \E answer \in BOOLEAN : Collect(answer)
    <2>1. /\ Running /\ opcode = "WACK" /\ ip' = ip + 1
          /\ UNCHANGED <<ackManagerProg, registers, memory>>
      BY <1>3 DEF Collect, Receive, Step, At
    <2>5. ~lost' /\ Acknowledges(question, memory) => ackReceived'
      <3>1. PICK answer \in BOOLEAN : Receive(answer)
        BY <1>3 DEF Collect
      <3>2. /\ lost' = (lost \/ (~answer /\ Acknowledges(question, memory)))
            /\ ackReceived' = answer
        BY <3>1 DEF Receive
      <3> QED
        BY <3>2, Zenon
    <2>2. ip > 1 /\ ip \in Nat
      BY <2>1, Place, Onward
    <2>3. question = MessageOf(Program[ackManagerProg][ip - 1]) /\ ip' - 2 = ip - 1
      BY <2>1, <2>2 DEF Asking
    <2>4. question = MessageOf(Program[ackManagerProg][ip - 2])'
      BY <2>1, <2>3 DEF MessageOf, BitQuestion, ByteQuestion
    <2> QED
      BY <2>1, <2>4, <2>5 DEF NotMissed
  <1>4. CASE Leaving
    BY <1>4, LeavingEnds DEF NotMissed
  <1>5. CASE Skip
    <2>1. PICK target \in 1..Len(Program[ackManagerProg]) :
            Program[ackManagerProg][target] = "SKIPTARGET" /\ ip' = target + 1
      BY <1>5, SkipJumps
    <2>2. UNCHANGED ackManagerProg /\ ip' - 1 = target
      BY <1>5, <2>1, SkipJumps
    <2> QED
      BY <2>1, <2>2 DEF NotMissed
  <1>6. CASE Hear \/ UNCHANGED ackVars
    <2>1. SUFFICES ASSUME Running, ip > 2, ~lost,
                          Program[ackManagerProg][ip - 1] = "WACK",
                          Acknowledges(MessageOf(Program[ackManagerProg][ip - 2]), memory')
                   PROVE ackReceived
      BY <1>6 DEF Hear, ackVars, NotMissed, Running, MessageOf, BitQuestion, ByteQuestion
    <2>2. opcode # "FAIL" => opcode # "WACK"
      BY <2>1, Onward DEF Senders
    <2>3. UNCHANGED memory
      BY <1>6, <2>1, <2>2, Place, MemoryKept
    <2> QED
      BY <2>1, <2>3 DEF NotMissed
  <1> QED
    BY <1>1, <1>2, <1>3, <1>4, <1>5, <1>6, Kinds

-----------------------------------------------------------------------------
(* One instruction further.                                                *)

\* The answer to the last question says what the decoder holds.
LEMMA AnswerTells ==
  ASSUME AckInv, NotMissed, Running, ~lost, ip > 2,
         Program[ackManagerProg][ip - 1] = "WACK"
  PROVE  /\ ackReceived \in BOOLEAN
         /\ ackReceived <=>
              Acknowledges(MessageOf(Program[ackManagerProg][ip - 2]), memory)
  BY DEF AckInv, Typed, Answered, NotMissed

Going == Baseline \/ Send \/ (\E answer \in BOOLEAN : Collect(answer))
         \/ Setting \/ FallThrough

\* What the instructions do to the byte, and which answer lets them go on.
LEMMA GoesOn ==
  ASSUME Going
  PROVE  /\ Running /\ ip' = ip + 1
         /\ UNCHANGED <<ackManagerProg, asked, memory>> /\ (~lost' => ~lost)
         /\ opcode # "WACK" => UNCHANGED ackReceived
         /\ opcode = "STARTMERGE" => ackManagerByte' = 0
         /\ opcode = "MERGE" => ackManagerByte' =
              (ackManagerByte * 2 + (IF ackReceived THEN 0 ELSE 1)) % 256
         /\ opcode \notin {"STARTMERGE", "MERGE"} => UNCHANGED ackManagerByte
         /\ opcode \in {"ITC0", "ITC1", "ITCB", "ITSKIP"} => ~ackReceived
         /\ opcode = "NAKFAIL" => ackReceived
         /\ opcode \notin {"FAIL", "COMBINELOCOID"}
  <1> USE DEF registers, callerVars, decoderVars, At
  <1>1. CASE Baseline \/ Send
    BY <1>1 DEF Baseline, Send, Step
  <1>4. ASSUME NEW answer \in BOOLEAN, Receive(answer)
        PROVE  /\ Running /\ ip' = ip + 1 /\ opcode = "WACK"
               /\ UNCHANGED <<ackManagerProg, asked, memory, ackManagerByte>>
               /\ ~lost' => ~lost
    <2>1. lost' = (lost \/ (~answer /\ Acknowledges(question, memory)))
      BY <1>4 DEF Receive
    <2>2. ~lost' => ~lost
      BY <2>1, Zenon
    <2> QED
      BY <1>4, <2>2 DEF Receive, Step
  <1>2. CASE Setting
    BY <1>2 DEF Setting, StartMerge, Merge, SetBit, SetCv, StashLocoId, Assign, Step,
                BitOperand, CvOperand
  <1>3. CASE FallThrough
    BY <1>3 DEF FallThrough, Step
  <1> QED
    BY <1>1, <1>2, <1>3, <1>4 DEF Going, Collect

\* Where the programs ask what.
ReadAsks(prog, start) ==
  /\ \A r \in ReadMerges : prog[start + r - 1] = "WACK" /\ prog[start + r - 2] = "V0"
  /\ prog[start + 8] = "WACK" /\ prog[start + 7] = "V1" /\ prog[start + 9] = "NAKFAIL"
  /\ prog[start + 34] = "WACK" /\ prog[start + 33] = "VB" /\ prog[start + 35] = "ITCB"
  /\ prog[start + 5] = "ITSKIP" /\ prog[start + 36] = "FAIL"
  /\ \A k \in 1..(start + 36) : prog[k] = "FAIL" => k = start + 36

LEMMA ReadQuestions == ReadAsks(READ_CV_PROG, 1) /\ ReadAsks(VERIFY_BYTE_PROG, 4)
  <1>1. ReadAsks(READ_CV_PROG, 1)
    BY DEF ReadAsks, READ_CV_PROG, ReadMerges
  <1>2. ReadAsks(VERIFY_BYTE_PROG, 4)
    BY DEF ReadAsks, VERIFY_BYTE_PROG, ReadMerges
  <1> QED
    BY <1>1, <1>2

LEMMA AddressQuestions ==
  /\ \A k \in AddressMerges : LOCO_ID_PROG[k - 1] = "WACK" /\ LOCO_ID_PROG[k - 2] = "V0"
  /\ LOCO_ID_PROG[97] = "VB" /\ LOCO_ID_PROG[98] = "WACK" /\ LOCO_ID_PROG[99] = "ITCB"
  /\ \A k \in 1..100 : LOCO_ID_PROG[k] = "FAIL" <=> k = 100
  BY DEF LOCO_ID_PROG, AddressMerges

LEMMA ByteFoundStep ==
  ASSUME NEW r \in Int, r < 35, NEW m \in Bytes, NEW byte \in Bytes, NEW bit \in Bytes,
         NEW byte2, NEW answer \in BOOLEAN, NEW answer2 \in BOOLEAN,
         ReadBit(r, bit), ByteFound(r, byte, m, answer),
         r = 1 => byte2 = 0,
         r \in ReadMerges =>
           /\ answer <=> BitOf(m, bit) = 0
           /\ answer2 <=> answer
           /\ byte2 = (byte * 2 + (IF answer THEN 0 ELSE 1)) % 256,
         r \notin {1} \cup ReadMerges => byte2 = byte,
         r = 5 => ~answer
  PROVE  ByteFound(r + 1, byte2, m, answer2)
  <1>1. CASE r \in ReadMerges
    <2>1. bit \in 0..7 /\ Merged(23 - 3 * bit, byte, m)
          /\ (r = 4 => bit = 7) /\ (r # 4 => r - 9 = 23 - 3 * bit)
      <3>1. CASE r = 4
        <4>1. bit = 7 /\ Merged(2, byte, m)
          BY <3>1 DEF ReadBit, ByteFound
        <4> QED
          BY <3>1, <4>1
      <3>2. CASE r # 4
        <4>1. r \in 12..32 /\ bit \in 0..7 /\ r - 9 = 23 - 3 * bit
          BY <1>1, <3>2 DEF ReadBit, InLoop, ReadMerges, Bytes
        <4>2. Merged(r - 9, byte, m)
          BY <4>1 DEF ByteFound
        <4> QED
          BY <3>2, <4>1, <4>2
      <3> QED
        BY <3>1, <3>2
    <2>2. byte2 = (byte * 2 + (IF BitOf(m, bit) = 0 THEN 0 ELSE 1)) % 256
      BY <1>1
    <2>3. Merged(24 - 3 * bit, byte2, m)
      BY <2>1, <2>2, MergedOneMore
    <2>4. CASE r = 4
      <3>1. Merged(3, byte2, m) /\ byte = 0
        BY <2>1, <2>3, <2>4 DEF ByteFound, Merged
      <3>2. byte2 = IF answer2 THEN 0 ELSE 1
        BY <1>1, <3>1
      <3> QED
        BY <2>4, <3>1, <3>2 DEF ByteFound
    <2>5. CASE r # 4
      <3>1. r + 1 - 9 = 24 - 3 * bit /\ r + 1 \in 15..33
        BY <1>1, <2>1, <2>5 DEF ReadMerges, Bytes
      <3> QED
        BY <2>3, <3>1 DEF ByteFound
    <2> QED
      BY <2>4, <2>5
  <1>2. CASE r = 1
    BY <1>2 DEF ByteFound, Merged
  <1>3. CASE r \notin {1} \cup ReadMerges
    <2>1. byte2 = byte
      BY <1>3
    <2>2. CASE r < 12
      <3>1. r = 5 => byte = 1
        BY DEF ByteFound
      <3> QED
        BY <1>3, <2>1, <2>2, <3>1 DEF ByteFound, Merged, ReadMerges
    <2>3. CASE r >= 12
      <3>1. Merged(r - 9, byte, m) /\ r - 9 \notin {2, 5, 8, 11, 14, 17, 20, 23, 26}
            /\ r - 9 \in 3..25
        BY <1>3, <2>3 DEF ByteFound, ReadMerges
      <3>2. Merged(r - 9 + 1, byte, m)
        BY <3>1 DEF Merged
      <3>3. r - 9 + 1 = r + 1 - 9 /\ r + 1 \in 13..35
        BY <2>3
      <3> QED
        BY <2>1, <3>2, <3>3 DEF ByteFound
    <2> QED
      BY <2>2, <2>3
  <1> QED
    BY <1>1, <1>2, <1>3

\* One loop of reading an address, which begins at first.
LEMMA LoopStep ==
  ASSUME NEW first \in Int, first \in {12, 42, 73},
         NEW k \in Int, k \in first..(first + 25), NEW n, n = k - first, NEW next, next = k + 1 - first,
         NEW m \in Bytes, NEW byte \in Bytes, NEW bit \in Bytes, NEW byte2,
         AddressBit(k, bit), Merged(n, byte, m),
         k \in AddressMerges /\ BitOf(m, bit) = 0 => byte2 = (byte * 2) % 256,
         k \in AddressMerges /\ BitOf(m, bit) # 0 => byte2 = (byte * 2 + 1) % 256,
         k \notin AddressMerges => byte2 = byte
  PROVE  Merged(next, byte2, m)
  <1>1. CASE k \in AddressMerges
    <2>1. bit \in 0..7 /\ n = 23 - 3 * bit
      BY <1>1 DEF AddressBit, InLoop, AddressMerges, Bytes
    <2>2. Merged(23 - 3 * bit, byte, m)
      BY <2>1
    <2>5. byte2 = (byte * 2 + (IF BitOf(m, bit) = 0 THEN 0 ELSE 1)) % 256
      BY <1>1 DEF Bytes
    <2>3. Merged(24 - 3 * bit, byte2, m)
      BY <2>1, <2>2, <2>5, MergedOneMore
    <2>4. 24 - 3 * bit = next
      BY <2>1
    <2> QED
      BY <2>3, <2>4
  <1>2. CASE k \notin AddressMerges
    <2>1. n \in 0..25 /\ n \notin {2, 5, 8, 11, 14, 17, 20, 23} /\ next = n + 1
      BY <1>2 DEF AddressMerges
    <2>2. Merged(n + 1, byte, m)
      BY <2>1 DEF Merged
    <2> QED
      BY <1>2, <2>1, <2>2
  <1> QED
    BY <1>1, <1>2

LEMMA ReadGoesOn ==
  ASSUME UnlostInv, Going, ~lost', NEW start \in {1, 4},
         ackManagerProg = IF start = 1 THEN "READ_CV" ELSE "VERIFY_BYTE"
  PROVE  /\ ByteFound(ip + 1 - start, ackManagerByte', memory[asked.cv], ackReceived')
         /\ Program[ackManagerProg][ip + 1] # "FAIL"
  <1> DEFINE r == ip - start
             m == memory[asked.cv]
             prog == Program[ackManagerProg]
  <1>1. /\ Running /\ ~lost /\ AckInv /\ DecoderTyped /\ NotMissed /\ FoundSoFar
        /\ ackReceived \in BOOLEAN /\ ackReceived' \in BOOLEAN
    <2>1. ackReceived' \in BOOLEAN
      <3>1. CASE opcode = "WACK"
        BY <3>1 DEF Going, Baseline, Send, Collect, Receive, Setting, StartMerge, Merge,
           SetBit, SetCv, StashLocoId, FallThrough, At, BitOperand, CvOperand
      <3>2. CASE opcode # "WACK"
        BY <3>2, GoesOn DEF UnlostInv, AckInv, Typed
      <3> QED
        BY <3>1, <3>2
    <2> QED
      BY <2>1, GoesOn DEF UnlostInv, AckInv, Typed
  <1>2. Len(prog) = start + 36 /\ ReadsFrom(prog, start) /\ ReadAsks(prog, start)
    <2>1. CASE start = 1
      <3>1. prog = READ_CV_PROG
        BY <2>1, Programs
      <3> QED
        BY <2>1, <3>1, ReadTables, ReadQuestions
    <2>2. CASE start = 4
      <3>1. prog = VERIFY_BYTE_PROG
        BY <2>2, Programs
      <3> QED
        BY <2>2, <3>1, ReadTables, ReadQuestions
    <2> QED
      BY <2>1, <2>2
  <1>4. ip \in 1..(start + 36) /\ opcode = prog[ip] /\ r \in Int
    BY <1>1, <1>2, Place DEF AckInv, opcode
  <1>5. /\ m \in Bytes /\ ackManagerByte \in Bytes /\ ackManagerBitNum \in Bytes
        /\ ackManagerCv = asked.cv
    <2>1. asked.cv \in DOMAIN memory
      BY <1>1 DEF DecoderTyped
    <2> QED
      BY <1>1, <2>1 DEF AckInv, Typed, TypeOK, Registers, DecoderTyped, Holds
  <1>6. ReadBit(r, ackManagerBitNum) /\ ByteFound(r, ackManagerByte, m, ackReceived)
    BY <1>1 DEF AckInv, Registers, FoundSoFar
  <1>7. r \in ReadMerges => (ackReceived <=> BitOf(m, ackManagerBitNum) = 0)
    <2>1. SUFFICES ASSUME r \in ReadMerges
                   PROVE ackReceived <=> BitOf(m, ackManagerBitNum) = 0
      OBVIOUS
    <2>2. ip > 2 /\ ip - 1 = start + r - 1 /\ ip - 2 = start + r - 2
      BY <1>4, <2>1 DEF ReadMerges
    <2>3. prog[ip - 1] = "WACK" /\ prog[ip - 2] = "V0"
      BY <1>2, <2>1, <2>2 DEF ReadAsks
    <2>4. ackReceived <=> Acknowledges(MessageOf("V0"), memory)
      BY <1>1, <2>2, <2>3, AnswerTells
    <2> QED
      BY <1>5, <2>4 DEF MessageOf, BitQuestion, Acknowledges
  <1>8. r # 35
    <2>1. SUFFICES ASSUME r = 35 PROVE FALSE
      OBVIOUS
    <2>2. ip > 2 /\ ip - 1 = start + 34 /\ ip - 2 = start + 33 /\ ip = start + 35
      BY <1>4, <2>1
    <2>3. prog[ip - 1] = "WACK" /\ prog[ip - 2] = "VB" /\ opcode = "ITCB"
      BY <1>2, <1>4, <2>2 DEF ReadAsks
    <2>4. ackReceived <=> Acknowledges(MessageOf("VB"), memory)
      BY <1>1, <2>2, <2>3, AnswerTells
    <2>5. ackManagerByte = m
      BY <1>6, <2>1 DEF ByteFound, Merged
    <2>6. Acknowledges(MessageOf("VB"), memory)
      BY <1>5, <2>5 DEF MessageOf, ByteQuestion, Acknowledges
    <2> QED
      BY <2>3, <2>4, <2>6, GoesOn
  <1>9. r # 36
    BY SMTT(20), <1>2, <1>4, GoesOn DEF ReadAsks
  <1>10. r < 35 /\ ip + 1 \in 1..(start + 36) /\ ip + 1 # start + 36
    BY <1>4, <1>8, <1>9
  <1>11. ByteFound(r + 1, ackManagerByte', m, ackReceived')
    <2>1. r = 1 => ackManagerByte' = 0
      <3>1. r = 1 => ip = start + 1 /\ ip \in 1..Len(prog)
        BY <1>2, <1>4
      <3>2. r = 1 => opcode = "STARTMERGE"
        BY <1>2, <1>4, <3>1 DEF ReadsFrom
      <3> QED
        BY <3>2, GoesOn
    <2>2. r \in ReadMerges =>
            /\ ackReceived' <=> ackReceived
            /\ ackManagerByte' =
                 (ackManagerByte * 2 + (IF ackReceived THEN 0 ELSE 1)) % 256
      <3>1. r \in ReadMerges => opcode = "MERGE"
        BY <1>2, <1>4 DEF ReadsFrom
      <3> QED
        BY <3>1, GoesOn
    <2>3. r \notin {1} \cup ReadMerges => ackManagerByte' = ackManagerByte
      <3>1. r \notin {1} \cup ReadMerges => opcode \notin {"STARTMERGE", "MERGE"}
        BY <1>2, <1>4 DEF ReadsFrom
      <3> QED
        BY <3>1, GoesOn
    <2>4. r = 5 => ~ackReceived
      <3>1. r = 5 => opcode = "ITSKIP"
        BY <1>2, <1>4 DEF ReadAsks
      <3> QED
        BY <3>1, GoesOn
    <2> HIDE DEF r, m
    <2> QED
      BY <1>1, <1>4, <1>5, <1>6, <1>7, <1>10, <2>1, <2>2, <2>3, <2>4, ByteFoundStep
  <1>12. r + 1 = ip + 1 - start
    BY <1>4
  <1>13. prog[ip + 1] # "FAIL"
    BY <1>2, <1>10 DEF ReadAsks
  <1> QED
    BY <1>11, <1>12, <1>13

LEMMA AddressGoesOn ==
  ASSUME UnlostInv, Going, ~lost', ackManagerProg = "LOCO_ID"
  PROVE  /\ AddressFound(ip + 1, ackManagerByte', memory)
         /\ Program[ackManagerProg][ip + 1] # "FAIL"
  <1>1. /\ Running /\ ~lost /\ AckInv /\ DecoderTyped /\ NotMissed /\ FoundSoFar
        /\ ackReceived \in BOOLEAN
    BY GoesOn DEF UnlostInv, AckInv, Typed
  <1>2. /\ Program[ackManagerProg] = LOCO_ID_PROG /\ Len(LOCO_ID_PROG) = 100
        /\ ip \in 1..100 /\ opcode = LOCO_ID_PROG[ip]
    BY <1>1, Programs, AddressTable, Place DEF AckInv, opcode
  <1>3. /\ memory[1] \in Bytes /\ memory[17] \in Bytes /\ memory[18] \in Bytes
        /\ memory[29] \in Bytes
        /\ ackManagerByte \in Bytes /\ ackManagerBitNum \in Bytes
    <2>1. {1, 17, 18, 29} \subseteq DOMAIN memory /\ memory \in [DOMAIN memory -> Bytes]
      BY <1>1 DEF DecoderTyped, Holds
    <2> QED
      BY <1>1, <2>1 DEF AckInv, Typed, TypeOK
  <1>4. /\ AddressBit(ip, ackManagerBitNum)
        /\ AddressFound(ip, ackManagerByte, memory)
        /\ ip \in 12..38 => ackManagerCv = 17
        /\ ip \in 42..68 => ackManagerCv = 18
        /\ ip \in 72..100 => ackManagerCv = 1
        /\ ip \in 3..10 => ackManagerCv = 29
    BY <1>1 DEF AckInv, Registers, FoundSoFar, AddressSoFar
  <1>5. ip \in AddressMerges =>
          (ackReceived <=> BitOf(memory[ackManagerCv], ackManagerBitNum) = 0)
    <2>1. SUFFICES ASSUME ip \in AddressMerges
                   PROVE ackReceived <=> BitOf(memory[ackManagerCv], ackManagerBitNum) = 0
      OBVIOUS
    <2>2. ip > 2 /\ LOCO_ID_PROG[ip - 1] = "WACK" /\ LOCO_ID_PROG[ip - 2] = "V0"
      BY <2>1, AddressQuestions DEF AddressMerges
    <2>3. ackReceived <=> Acknowledges(MessageOf("V0"), memory)
      BY <1>1, <1>2, <2>2, AnswerTells
    <2> QED
      BY <2>3 DEF MessageOf, BitQuestion, Acknowledges
  <1>6. ip = 6 => BitOf(memory[29], 5) = 1
    <2>1. SUFFICES ASSUME ip = 6 PROVE BitOf(memory[29], 5) = 1
      OBVIOUS
    <2>2. ip > 2 /\ LOCO_ID_PROG[ip - 1] = "WACK" /\ LOCO_ID_PROG[ip - 2] = "V0"
      BY <2>1, LocoIdTable
    <2>3. ackReceived <=> Acknowledges(MessageOf("V0"), memory)
      BY <1>1, <1>2, <2>2, AnswerTells
    <2>4. ~ackReceived
      BY <1>2, <2>1, SkipTables, GoesOn
    <2>5. BitOf(memory[29], 5) # 0
      BY <1>4, <2>1, <2>3, <2>4 DEF MessageOf, BitQuestion, Acknowledges, AddressBit
    <2> QED
      BY <1>3, <2>5, BitIsBit
  <1>7. ip # 99
    <2>1. SUFFICES ASSUME ip = 99 PROVE FALSE
      OBVIOUS
    <2>2. /\ ip > 2 /\ LOCO_ID_PROG[ip - 1] = "WACK" /\ LOCO_ID_PROG[ip - 2] = "VB"
          /\ opcode = "ITCB"
      BY <1>2, <2>1, AddressQuestions
    <2>3. ackReceived <=> Acknowledges(MessageOf("VB"), memory)
      BY <1>1, <1>2, <2>2, AnswerTells
    <2>4. ackManagerByte = memory[1] /\ ackManagerCv = 1
      BY <1>4, <2>1 DEF AddressFound, Merged
    <2>5. Acknowledges(MessageOf("VB"), memory)
      BY <2>4 DEF MessageOf, ByteQuestion, Acknowledges
    <2> QED
      BY <2>2, <2>3, <2>5, GoesOn
  <1>8. ip # 100
    BY <1>2, AddressQuestions, GoesOn
  <1>9. /\ ip \in {11, 41, 72} => ackManagerByte' = 0
        /\ ip \in AddressMerges => ackManagerByte' =
             (ackManagerByte * 2 + (IF ackReceived THEN 0 ELSE 1)) % 256
        /\ ip \notin {11, 41, 72} \cup AddressMerges => ackManagerByte' = ackManagerByte
    BY <1>2, AddressTable, GoesOn
  <1>10. ASSUME NEW first \in Int, first \in {12, 42, 73}, NEW m \in Bytes,
                ip \in first..(first + 25),
                m = memory[ackManagerCv], Merged(ip - first, ackManagerByte, m)
         PROVE  Merged(ip + 1 - first, ackManagerByte', m)
    <2> DEFINE n == ip - first
               next == ip + 1 - first
               byte2 == ackManagerByte'
    <2>1. ip \notin {11, 41, 72}
      BY <1>10
    <2>2. /\ ip \in AddressMerges /\ BitOf(m, ackManagerBitNum) = 0 =>
               byte2 = (ackManagerByte * 2) % 256
          /\ ip \in AddressMerges /\ BitOf(m, ackManagerBitNum) # 0 =>
               byte2 = (ackManagerByte * 2 + 1) % 256
      BY <1>3, <1>5, <1>9, <1>10 DEF Bytes
    <2>3. ip \notin AddressMerges => byte2 = ackManagerByte
      BY <1>9, <2>1
    <2>4. AddressBit(ip, ackManagerBitNum) /\ Merged(n, ackManagerByte, m)
      BY <1>4, <1>10
    <2>5. n = ip - first /\ next = ip + 1 - first
      OBVIOUS
    <2>6. ip \in Int /\ ip \in first..(first + 25)
      BY <1>2, <1>10
    <2> HIDE DEF n, next, byte2
    <2>7. Merged(next, byte2, m)
      BY <1>3, <1>10, <2>2, <2>3, <2>4, <2>5, <2>6, LoopStep
    <2> QED
      BY <2>7 DEF next, byte2
  <1>11. ip + 1 \in 12..38 => Merged(ip + 1 - 12, ackManagerByte', memory[17])
    <2>1. ip = 11 => Merged(0, ackManagerByte', memory[17])
      BY <1>9 DEF Merged
    <2>2. ip \in 12..37 => Merged(ip - 12, ackManagerByte, memory[17])
      BY <1>4 DEF AddressFound
    <2> QED
      BY <1>2, <1>3, <1>4, <1>10, <2>1, <2>2
  <1>12. ip + 1 \in 42..68 => Merged(ip + 1 - 42, ackManagerByte', memory[18])
    <2>1. ip = 41 => Merged(0, ackManagerByte', memory[18])
      BY <1>9 DEF Merged
    <2>2. ip \in 42..67 => Merged(ip - 42, ackManagerByte, memory[18])
      BY <1>4 DEF AddressFound
    <2> QED
      BY <1>2, <1>3, <1>4, <1>10, <2>1, <2>2
  <1>13. ip + 1 \in 73..99 => Merged(ip + 1 - 73, ackManagerByte', memory[1])
    <2>1. ip = 72 => Merged(0, ackManagerByte', memory[1])
      BY <1>9 DEF Merged
    <2>2. ip \in 73..98 => Merged(ip - 73, ackManagerByte, memory[1])
      BY <1>4 DEF AddressFound
    <2> QED
      BY <1>2, <1>3, <1>4, <1>10, <2>1, <2>2
  <1>14. ip + 1 \in 7..9 => BitOf(memory[29], 5) = 1
    BY <1>2, <1>4, <1>6 DEF AddressFound
  <1>15. ip + 1 \in 1..99
    BY <1>2, <1>7, <1>8
  <1> QED
    BY <1>2, <1>11, <1>12, <1>13, <1>14, <1>15, AddressQuestions DEF AddressFound


LEMMA BitTables ==
  /\ \A prog \in {VERIFY_BIT0_PROG, VERIFY_BIT1_PROG, READ_BIT_PROG} :
       /\ Len(prog) = 8 /\ prog[3] = "WACK" /\ prog[6] = "WACK"
       /\ \A k \in 1..8 : prog[k] = "FAIL" <=> k = 8
  /\ VERIFY_BIT0_PROG[2] = "V0" /\ VERIFY_BIT0_PROG[4] = "ITC0"
  /\ VERIFY_BIT0_PROG[5] = "V1" /\ VERIFY_BIT0_PROG[7] = "ITC1"
  /\ \A prog \in {VERIFY_BIT1_PROG, READ_BIT_PROG} :
       prog[2] = "V1" /\ prog[4] = "ITC1" /\ prog[5] = "V0" /\ prog[7] = "ITC0"
  BY DEF VERIFY_BIT0_PROG, VERIFY_BIT1_PROG, READ_BIT_PROG

LEMMA WriteTables ==
  /\ \A prog \in {WRITE_BIT0_PROG, WRITE_BIT1_PROG, WRITE_BYTE_PROG} :
       /\ Len(prog) = 7 /\ prog[3] = "WACK" /\ prog[5] = "WACK" /\ prog[6] = "ITC1"
       /\ \A k \in 1..7 : prog[k] = "FAIL" <=> k = 7
       /\ \A k \in 1..7 : prog[k] = "WACK" => k \in {3, 5}
  /\ WRITE_BIT0_PROG[2] = "W0" /\ WRITE_BIT0_PROG[4] = "V0"
  /\ WRITE_BIT1_PROG[2] = "W1" /\ WRITE_BIT1_PROG[4] = "V1"
  /\ WRITE_BYTE_PROG[2] = "WB" /\ WRITE_BYTE_PROG[4] = "VB"
  BY DEF WRITE_BIT0_PROG, WRITE_BIT1_PROG, WRITE_BYTE_PROG

LEMMA BitGoesOn ==
  ASSUME UnlostInv, Going, ~lost', ackManagerProg \in BitReaders
  PROVE  /\ BitFound(ip + 1, ackManagerProg, BitOf(memory[asked.cv], asked.value))
         /\ Program[ackManagerProg][ip + 1] # "FAIL"
  <1> DEFINE bit == BitOf(memory[asked.cv], asked.value)
  <1>1. /\ Running /\ ~lost /\ AckInv /\ DecoderTyped /\ NotMissed /\ FoundSoFar
        /\ ackReceived \in BOOLEAN
    BY GoesOn DEF UnlostInv, AckInv, Typed
  <1>2. /\ ackManagerCv = asked.cv /\ ackManagerBitNum = asked.value
        /\ asked.value \in 0..7
    BY <1>1 DEF AckInv, Registers, AsAsked, Typed, TypeOK, Bytes, BitReaders,
                ByteReaders, BitPrograms
  <1>3. bit \in {0, 1}
    <2>1. asked.cv \in DOMAIN memory /\ memory \in [DOMAIN memory -> Bytes]
      BY <1>1 DEF DecoderTyped, Holds, BitReaders
    <2> QED
      BY <1>2, <2>1, BitIsBit
  <1>4. PICK prog \in {VERIFY_BIT0_PROG, VERIFY_BIT1_PROG, READ_BIT_PROG} :
          /\ Program[ackManagerProg] = prog
          /\ ackManagerProg = "VERIFY_BIT0" => prog = VERIFY_BIT0_PROG
          /\ ackManagerProg # "VERIFY_BIT0" => prog \in {VERIFY_BIT1_PROG, READ_BIT_PROG}
    BY Programs DEF BitReaders
  <1>5. ip \in 1..8 /\ opcode = prog[ip]
    BY <1>1, <1>4, Place, BitTables DEF AckInv, opcode
  <1>6. /\ ip \in {4, 7} /\ prog[ip - 2] = "V0" => (ackReceived <=> bit = 0)
        /\ ip \in {4, 7} /\ prog[ip - 2] = "V1" => (ackReceived <=> bit = 1)
    <2>1. SUFFICES ASSUME ip \in {4, 7}
                   PROVE /\ prog[ip - 2] = "V0" => (ackReceived <=> bit = 0)
                         /\ prog[ip - 2] = "V1" => (ackReceived <=> bit = 1)
      OBVIOUS
    <2>2. ip > 2 /\ prog[ip - 1] = "WACK"
      BY <2>1, BitTables
    <2>3. ackReceived <=> Acknowledges(MessageOf(prog[ip - 2]), memory)
      BY <1>1, <1>4, <2>2, AnswerTells
    <2> QED
      BY <1>2, <2>3 DEF MessageOf, BitQuestion, Acknowledges
  <1>7. ip \in {4, 7} => ~ackReceived
    <2>1. ip \in {4, 7} => opcode \in {"ITC0", "ITC1"}
      BY <1>4, <1>5, BitTables
    <2> QED
      BY <2>1, GoesOn
  <1>8. BitFound(ip, ackManagerProg, bit)
    BY <1>1 DEF FoundSoFar
  <1>9. ip # 8
    BY <1>4, <1>5, BitTables, GoesOn
  <1>10. CASE ackManagerProg = "VERIFY_BIT0"
    <2>1. ip = 4 => bit = 1
      BY <1>3, <1>4, <1>6, <1>7, <1>10, BitTables
    <2>2. ip # 7
      BY <1>4, <1>6, <1>7, <1>8, <1>10, BitTables DEF BitFound
    <2>3. BitFound(ip + 1, ackManagerProg, bit)
      BY <1>5, <1>8, <1>10, <2>1 DEF BitFound
    <2> QED
      BY <1>4, <1>5, <1>9, <2>2, <2>3, BitTables
  <1>11. CASE ackManagerProg # "VERIFY_BIT0"
    <2>1. ip = 4 => bit = 0
      BY <1>3, <1>4, <1>6, <1>7, <1>11, BitTables
    <2>2. ip # 7
      BY <1>4, <1>6, <1>7, <1>8, <1>11, BitTables DEF BitFound, BitReaders
    <2>3. BitFound(ip + 1, ackManagerProg, bit)
      BY <1>5, <1>8, <1>11, <2>1 DEF BitFound
    <2> QED
      BY <1>4, <1>5, <1>9, <2>2, <2>3, BitTables
  <1> QED
    BY <1>10, <1>11

LEMMA WriteGoesOn ==
  ASSUME UnlostInv, Going, ~lost', ackManagerProg \in Writers
  PROVE  /\ ip + 1 \in 4..6 \/ (ip + 1 = 3 /\ heard') => Written'
         /\ Program[ackManagerProg][ip + 1] # "FAIL"
  <1>1. /\ Running /\ ~lost /\ AckInv /\ DecoderTyped /\ NotMissed /\ FoundSoFar
        /\ UNCHANGED <<ackManagerProg, asked, memory>>
    BY GoesOn DEF UnlostInv
  <1>2. /\ ackManagerCv = asked.cv /\ ackManagerBitNum = asked.value
        /\ ackManagerByte = asked.value
    BY <1>1 DEF AckInv, Registers, AsAsked, Writers, ByteReaders
  <1>3. PICK prog \in {WRITE_BIT0_PROG, WRITE_BIT1_PROG, WRITE_BYTE_PROG} :
          /\ Program[ackManagerProg] = prog
          /\ ackManagerProg = "WRITE_BIT0" => prog = WRITE_BIT0_PROG
          /\ ackManagerProg = "WRITE_BIT1" => prog = WRITE_BIT1_PROG
          /\ ackManagerProg = "WRITE_BYTE" => prog = WRITE_BYTE_PROG
    BY Programs DEF Writers
  <1>4. ip \in 1..7 /\ opcode = prog[ip]
    BY <1>1, <1>3, Place, WriteTables DEF AckInv, opcode
  <1>5. Written' <=> Written
    BY <1>1 DEF Written
  <1>6. ip = 2 => ~heard'
    <2>1. SUFFICES ASSUME ip = 2 PROVE ~heard'
      OBVIOUS
    <2>2. opcode \in {"W0", "W1", "WB"}
      BY <1>3, <1>4, <2>1, WriteTables DEF Writers
    <2> QED
      BY <2>2 DEF Going, Baseline, Send, Collect, Receive, Setting, StartMerge, Merge,
         SetBit, SetCv, StashLocoId, FallThrough, At, BitOperand, CvOperand
  <1>7. ip = 3 => Written
    <2>1. SUFFICES ASSUME ip = 3 PROVE Written
      OBVIOUS
    <2>2. opcode = "WACK" /\ ip > 1
      BY <1>3, <1>4, <2>1, WriteTables
    <2>3. PICK answer \in BOOLEAN : Collect(answer)
      BY <2>2 DEF Going, Baseline, Send, Setting, StartMerge, Merge,
         SetBit, SetCv, StashLocoId, FallThrough, At, BitOperand, CvOperand
    <2>4. Acknowledges(question, memory)
      <3>1. question = MessageOf(prog[2]) /\ prog[2] \in {"W0", "W1", "WB"}
        BY <1>1, <1>3, <2>1, <2>2, WriteTables DEF AckInv, Asking, Writers
      <3> QED
        BY <3>1 DEF MessageOf, BitQuestion, ByteQuestion, Acknowledges
    <2>5. answer
      <3>1. lost' = (lost \/ (~answer /\ Acknowledges(question, memory)))
        BY <2>3 DEF Collect, Receive
      <3> QED
        BY <2>4, <3>1, Zenon
    <2>6. heard
      BY <2>3, <2>5 DEF Collect
    <2> QED
      BY <1>1, <2>1, <2>6 DEF FoundSoFar
  <1>8. ip \in 4..6 => Written
    BY <1>1 DEF FoundSoFar
  <1>9. ip # 6
    <2>1. SUFFICES ASSUME ip = 6 PROVE FALSE
      OBVIOUS
    <2>2. ip > 2 /\ prog[ip - 1] = "WACK" /\ prog[ip - 2] = prog[4] /\ opcode = "ITC1"
      BY <1>3, <1>4, <2>1, WriteTables
    <2>3. ackReceived <=> Acknowledges(MessageOf(prog[4]), memory)
      BY <1>1, <1>3, <2>2, AnswerTells
    <2>4. Acknowledges(MessageOf(prog[4]), memory)
      <3>1. Written
        BY <1>8, <2>1
      <3> QED
        BY <1>2, <1>3, <3>1, WriteTables
        DEF Written, Writers, MessageOf, BitQuestion, ByteQuestion, Acknowledges
    <2> QED
      BY <2>2, <2>3, <2>4, GoesOn
  <1>10. ip # 7
    BY <1>3, <1>4, WriteTables, GoesOn
  <1>11. prog[ip + 1] # "FAIL"
    BY <1>4, <1>9, <1>10, WriteTables
  <1>12. ip + 1 \in 4..6 \/ (ip + 1 = 3 /\ heard') => Written
    BY <1>4, <1>6, <1>7, <1>8
  <1> QED
    BY <1>3, <1>5, <1>11, <1>12


\* What the decoder executes is what the program set out to write.
LEMMA HearKeepsFound ==
  ASSUME UnlostInv, Hear
  PROVE  FoundSoFar'
  <1>1. /\ UNCHANGED <<ackManagerProg, ip, ackManagerByte, ackReceived, asked, lost>>
        /\ question # NoQuestion
    BY DEF Hear, registers, callerVars
  <1>2. SUFFICES ASSUME Running, ~lost PROVE FoundSoFar'
    BY <1>1 DEF FoundSoFar, Running
  <1>3. /\ AckInv /\ DecoderTyped /\ FoundSoFar
        /\ ip \in 1..Len(Program[ackManagerProg]) /\ opcode' = opcode
    BY <1>1, <1>2, Place DEF UnlostInv, AckInv, opcode
  <1>4. CASE ip = 1
    BY <1>1, <1>2, <1>3, <1>4 DEF FoundSoFar, ByteFound, AddressFound, BitFound
  <1>5. CASE ip > 1 /\ ackManagerProg \notin Writers
    <2>1. UNCHANGED memory
      BY <1>2, <1>3, <1>5, MemoryKept DEF AckInv, Next
    <2> QED
      BY <1>1, <1>2, <1>3, <1>5, <2>1 DEF FoundSoFar
  <1>6. CASE ip > 1 /\ ackManagerProg \in Writers
    <2>1. SUFFICES ASSUME ip \in 3..6 PROVE Written'
      BY <1>1, <1>2, <1>3, <1>6
      DEF FoundSoFar, Writers, BitReaders
    <2>2. opcode = "WACK" /\ question = MessageOf(Program[ackManagerProg][ip - 1])
      BY <1>1, <1>2, <1>3, <1>6 DEF AckInv, Asking
    <2>3. PICK prog \in {WRITE_BIT0_PROG, WRITE_BIT1_PROG, WRITE_BYTE_PROG} :
            /\ Program[ackManagerProg] = prog
            /\ ackManagerProg = "WRITE_BIT0" => prog = WRITE_BIT0_PROG
            /\ ackManagerProg = "WRITE_BIT1" => prog = WRITE_BIT1_PROG
            /\ ackManagerProg = "WRITE_BYTE" => prog = WRITE_BYTE_PROG
      BY <1>6, Programs DEF Writers
    <2>4. ip \in {3, 5}
      <3>1. prog[ip] = "WACK" /\ ip \in 1..7
        BY <1>3, <2>1, <2>2, <2>3 DEF opcode
      <3> QED
        BY <2>3, <3>1, WriteTables
    <2>5. /\ ackManagerCv = asked.cv /\ ackManagerBitNum = asked.value
          /\ ackManagerByte = asked.value
          /\ ackManagerProg # "WRITE_BYTE" => asked.value \in 0..7
          /\ asked.cv \in DOMAIN memory /\ memory \in [DOMAIN memory -> Bytes]
      <3>1. /\ ackManagerCv = asked.cv /\ ackManagerBitNum = asked.value
            /\ ackManagerByte = asked.value
        BY <1>2, <1>3, <1>6 DEF AckInv, Registers, AsAsked, Writers, ByteReaders
      <3>2. ackManagerProg # "WRITE_BYTE" => asked.value < 8
        BY <1>2, <1>3, <1>6 DEF AckInv, Registers, Writers, BitPrograms
      <3>3. asked.value \in 0..255
        BY <1>3 DEF AckInv, Typed, Bytes
      <3>4. asked.cv \in DOMAIN memory /\ memory \in [DOMAIN memory -> Bytes]
        BY <1>2, <1>3, <1>6 DEF DecoderTyped, Holds, Writers
      <3> QED
        BY <3>1, <3>2, <3>3, <3>4
    <2>6. memory' = Executed(question, memory)
      BY DEF Hear
    <2>7. CASE ip = 3
      <3>1. question = MessageOf(prog[2])
        BY <2>2, <2>3, <2>7
      <3>2. CASE ackManagerProg = "WRITE_BYTE"
        <4>1. question.what = "WB" /\ question.cv = asked.cv /\ question.value = asked.value
          BY <2>3, <2>5, <3>1, <3>2, WriteTables DEF MessageOf, ByteQuestion
        <4> QED
          BY <1>1, <2>5, <2>6, <3>2, <4>1 DEF Executed, Written
      <3>3. ASSUME NEW bit \in {0, 1}, ackManagerProg # "WRITE_BYTE",
                   question = BitQuestion("W", bit)
            PROVE  BitOf(memory'[asked.cv], asked.value) = bit
        <4>1. memory'[asked.cv] = WithBit(memory[asked.cv], asked.value, bit)
          BY <2>5, <2>6, <3>3 DEF BitQuestion, Executed
        <4> QED
          BY <2>5, <3>3, <4>1, BitIsSet
      <3>4. CASE ackManagerProg = "WRITE_BIT0"
        <4>1. question = BitQuestion("W", 0)
          BY <2>3, <3>1, <3>4, WriteTables DEF MessageOf
        <4> QED
          BY <1>1, <3>3, <3>4, <4>1 DEF Written
      <3>5. CASE ackManagerProg = "WRITE_BIT1"
        <4>1. question = BitQuestion("W", 1)
          BY <2>3, <3>1, <3>5, WriteTables DEF MessageOf
        <4> QED
          BY <1>1, <3>3, <3>5, <4>1 DEF Written
      <3> QED
        BY <1>6, <3>2, <3>4, <3>5 DEF Writers
    <2>8. CASE ip = 5
      <3>1. question = MessageOf(prog[4])
        BY <2>2, <2>3, <2>8
      <3>2. question.what \in {"V", "VB"}
        BY <1>6, <2>3, <3>1, WriteTables DEF MessageOf, BitQuestion, ByteQuestion, Writers
      <3>3. UNCHANGED memory
        BY <2>6, <3>2 DEF Executed
      <3>4. Written
        BY <1>2, <1>3, <1>6, <2>8 DEF FoundSoFar
      <3> QED
        BY <1>1, <3>3, <3>4 DEF Written
    <2> QED
      BY <2>4, <2>7, <2>8
  <1> QED
    BY <1>3, <1>4, <1>5, <1>6

LEMMA FoundKept ==
  ASSUME UnlostInv, [Next]_ackVars
  PROVE  FoundSoFar'
  <1>1. CASE Call
    <2>1. PICK caller \in Callers, r \in Requests, block \in BOOLEAN :
            API(caller, r, block)
      BY <1>1 DEF Call
    <2>2. CASE ackManagerSetup(caller, r.cv, r.value, r.program, block)
      <3>1. ip' = 1 /\ ackManagerProg' = r.program /\ r.program \in DOMAIN Program
        BY <2>2 DEF ackManagerSetup, LegalCalls
      <3>2. opcode' = "BASELINE"
        BY <3>1, ProgramsObey DEF Obeys, opcode
      <3> QED
        BY <3>1, <3>2 DEF FoundSoFar, ByteFound, AddressFound, BitFound
    <2>3. CASE Reject(caller)
      BY <2>3 DEF Reject, registers, callerVars, decoderVars, UnlostInv, FoundSoFar, Running,
         opcode, Written
    <2> QED
      BY <2>1, <2>2, <2>3 DEF API
  <1>2. CASE Going
    <2>1. SUFFICES ASSUME ~lost' PROVE FoundSoFar'
      BY DEF FoundSoFar
    <2>2. /\ Running /\ ip' = ip + 1 /\ UNCHANGED <<ackManagerProg, asked, memory>>
          /\ ip \in Nat
      BY <1>2, GoesOn, Place DEF UnlostInv, AckInv
    <2>3. CASE ackManagerProg = "READ_CV"
      <3>1. ByteFound(ip + 1 - 1, ackManagerByte', memory[asked.cv], ackReceived')
            /\ Program[ackManagerProg][ip + 1] # "FAIL"
        BY <1>2, <2>1, <2>3, ReadGoesOn
      <3> QED
        BY <2>2, <2>3, <3>1 DEF FoundSoFar, opcode, BitReaders, Writers
    <2>4. CASE ackManagerProg = "VERIFY_BYTE"
      <3>1. ByteFound(ip + 1 - 4, ackManagerByte', memory[asked.cv], ackReceived')
            /\ Program[ackManagerProg][ip + 1] # "FAIL"
        BY <1>2, <2>1, <2>4, ReadGoesOn
      <3> QED
        BY <2>2, <2>4, <3>1 DEF FoundSoFar, opcode, BitReaders, Writers
    <2>5. CASE ackManagerProg = "LOCO_ID"
      <3>1. AddressFound(ip + 1, ackManagerByte', memory)
            /\ Program[ackManagerProg][ip + 1] # "FAIL"
        BY <1>2, <2>1, <2>5, AddressGoesOn
      <3> QED
        BY <2>2, <2>5, <3>1 DEF FoundSoFar, opcode, BitReaders, Writers
    <2>6. CASE ackManagerProg \in BitReaders
      <3>1. BitFound(ip + 1, ackManagerProg, BitOf(memory[asked.cv], asked.value))
            /\ Program[ackManagerProg][ip + 1] # "FAIL"
        BY <1>2, <2>1, <2>6, BitGoesOn
      <3> QED
        BY <2>2, <2>6, <3>1 DEF FoundSoFar, opcode, BitReaders, Writers
    <2>7. CASE ackManagerProg \in Writers
      <3>1. /\ ip + 1 \in 4..6 \/ (ip + 1 = 3 /\ heard') => Written'
            /\ Program[ackManagerProg][ip + 1] # "FAIL"
        BY <1>2, <2>1, <2>7, WriteGoesOn
      <3> QED
        BY <2>2, <2>7, <3>1 DEF FoundSoFar, opcode, BitReaders, Writers
    <2> QED
      BY <2>2, <2>3, <2>4, <2>5, <2>6, <2>7, Place, Programs
      DEF UnlostInv, AckInv, BitReaders, Writers, BitPrograms, ByteReaders
  <1>3. CASE Leaving
    BY <1>3, LeavingEnds DEF FoundSoFar
  <1>4. CASE Skip
    <2>1. /\ Running /\ AckInv /\ FoundSoFar
          /\ UNCHANGED <<ackManagerProg, registers, ackReceived, callerVars, decoderVars>>
      BY <1>4, SkipJumps DEF UnlostInv, AckInv
    <2>2. /\ ackManagerProg \in ByteReaders
          /\ ackManagerProg = "READ_CV" => ip = 6 /\ ip' = 13
          /\ ackManagerProg = "VERIFY_BYTE" => ip = 9 /\ ip' = 16
          /\ ackManagerProg = "LOCO_ID" => ip = 6 /\ ip' = 71
      BY <1>4, <2>1, SkipLands DEF AckInv
    <2>3. SUFFICES ASSUME ~lost PROVE FoundSoFar'
      BY <2>1 DEF FoundSoFar, decoderVars
    <2>4. opcode' # "FAIL"
      <3>1. CASE ackManagerProg = "READ_CV"
        <4>1. READ_CV_PROG[13] # "FAIL"
          BY ReadTables, ReadQuestions DEF ReadAsks
        <4> QED BY <2>1, <2>2, <3>1, <4>1, Programs DEF opcode
      <3>2. CASE ackManagerProg = "VERIFY_BYTE"
        <4>1. VERIFY_BYTE_PROG[16] # "FAIL"
          BY ReadTables, ReadQuestions DEF ReadAsks
        <4> QED BY <2>1, <2>2, <3>2, <4>1, Programs DEF opcode
      <3>3. CASE ackManagerProg = "LOCO_ID"
        <4>1. LOCO_ID_PROG[71] # "FAIL"
          BY AddressQuestions
        <4> QED BY <2>1, <2>2, <3>3, <4>1, Programs DEF opcode
      <3> QED BY <2>2, <3>1, <3>2, <3>3 DEF ByteReaders
    <2>5. ackManagerProg = "READ_CV" =>
            ByteFound(12, ackManagerByte, memory[asked.cv], ackReceived)
      BY <2>1, <2>2, <2>3 DEF FoundSoFar, ByteFound
    <2>6. ackManagerProg = "VERIFY_BYTE" =>
            ByteFound(12, ackManagerByte, memory[asked.cv], ackReceived)
      BY <2>1, <2>2, <2>3 DEF FoundSoFar, ByteFound
    <2>7. AddressFound(71, ackManagerByte, memory)
      BY DEF AddressFound
    <2> QED
      BY <2>1, <2>2, <2>4, <2>5, <2>6, <2>7
      DEF FoundSoFar, registers, callerVars, decoderVars, ByteReaders, BitReaders, Writers
  <1>5. CASE Hear
    BY <1>5, HearKeepsFound
  <1>6. CASE UNCHANGED ackVars
    BY <1>6 DEF ackVars, registers, callerVars, decoderVars, UnlostInv, FoundSoFar, Running,
       opcode, Written
  <1> QED
    BY <1>1, <1>2, <1>3, <1>4, <1>5, <1>6, Kinds DEF Going

LEMMA UnlostInvariant == Spec => []UnlostInv
  <1>1. Init => UnlostInv
    <2>1. SUFFICES ASSUME Init PROVE UnlostInv
      OBVIOUS
    <2>2. Holds(memory) /\ ~Running /\ question = NoQuestion
      BY <2>1, MemoryAssumption DEF Init, LegalMemories, Running
    <2> QED
      BY <2>1, <2>2, InitAckInv DEF UnlostInv, DecoderTyped, NotMissed, FoundSoFar
  <1>2. UnlostInv /\ [Next]_ackVars => UnlostInv'
    BY AckInvKept, DecoderKept, NotMissedKept, FoundKept DEF UnlostInv
  <1> QED
    BY <1>1, <1>2, PTL DEF Spec


-----------------------------------------------------------------------------
(* Why an operation fails.                                                 *)

LEMMA NakTables ==
  /\ \A k \in 1..37 : READ_CV_PROG[k] = "NAKFAIL" => k = 10
  /\ \A k \in 1..40 : VERIFY_BYTE_PROG[k] = "NAKFAIL" => k = 13
  /\ \A k \in 1..100 : LOCO_ID_PROG[k] = "NAKFAIL" => k \in {9, 38, 68}
  /\ \A prog \in {VERIFY_BIT0_PROG, VERIFY_BIT1_PROG, READ_BIT_PROG} :
       \A k \in 1..8 : prog[k] # "NAKFAIL"
  /\ \A prog \in {WRITE_BIT0_PROG, WRITE_BIT1_PROG, WRITE_BYTE_PROG} :
       \A k \in 1..7 : prog[k] # "NAKFAIL"
  <1>1. \A k \in 1..37 : READ_CV_PROG[k] = "NAKFAIL" => k = 10
    BY DEF READ_CV_PROG
  <1>2. \A k \in 1..40 : VERIFY_BYTE_PROG[k] = "NAKFAIL" => k = 13
    BY DEF VERIFY_BYTE_PROG
  <1>3. \A k \in 1..100 : LOCO_ID_PROG[k] = "NAKFAIL" => k \in {9, 38, 68}
    BY DEF LOCO_ID_PROG
  <1>4. \A prog \in {VERIFY_BIT0_PROG, VERIFY_BIT1_PROG, READ_BIT_PROG} :
          \A k \in 1..8 : prog[k] # "NAKFAIL"
    BY DEF VERIFY_BIT0_PROG, VERIFY_BIT1_PROG, READ_BIT_PROG
  <1>5. \A prog \in {WRITE_BIT0_PROG, WRITE_BIT1_PROG, WRITE_BYTE_PROG} :
          \A k \in 1..7 : prog[k] # "NAKFAIL"
    BY DEF WRITE_BIT0_PROG, WRITE_BIT1_PROG, WRITE_BYTE_PROG
  <1> QED
    BY <1>1, <1>2, <1>3, <1>4, <1>5

\* Reading a byte, bit 7 was found to be one before it is tested for one.
LEMMA NakAfterOne ==
  ASSUME UnlostInv, At({"NAKFAIL"}), ~lost, NEW start \in {1, 4}, ip = start + 9,
         ackManagerProg = IF start = 1 THEN "READ_CV" ELSE "VERIFY_BYTE"
  PROVE  ackReceived
  <1>1. /\ Running /\ AckInv /\ DecoderTyped /\ NotMissed /\ FoundSoFar
    BY DEF UnlostInv, At
  <1>2. Program[ackManagerProg][ip - 1] = "WACK" /\ Program[ackManagerProg][ip - 2] = "V1"
    <2>1. CASE start = 1
      BY <2>1, Programs, ReadQuestions DEF ReadAsks
    <2>2. CASE start = 4
      BY <2>2, Programs, ReadQuestions DEF ReadAsks
    <2> QED
      BY <2>1, <2>2
  <1>3. ackReceived <=> Acknowledges(MessageOf("V1"), memory)
    BY <1>1, <1>2, AnswerTells
  <1>4. ackManagerCv = asked.cv /\ ackManagerBitNum = 7
    <2>1. ReadBit(9, ackManagerBitNum) /\ ackManagerCv = asked.cv
      BY <1>1 DEF AckInv, Registers
    <2> QED
      BY <2>1 DEF ReadBit
  <1>5. memory[asked.cv] \in Bytes
    BY <1>1 DEF DecoderTyped, Holds
  <1>6. memory[asked.cv] \div 128 = 1
    <2>1. ByteFound(9, ackManagerByte, memory[asked.cv], ackReceived)
      BY <1>1 DEF FoundSoFar
    <2> QED
      BY <2>1 DEF ByteFound, Merged
  <1>7. BitOf(memory[asked.cv], 7) = 1
    BY <1>5, <1>6, Bits
  <1> QED
    BY <1>3, <1>4, <1>7 DEF MessageOf, BitQuestion, Acknowledges

LEMMA FailureIsLoss ==
  ASSUME UnlostInv, FailCallback
  PROVE  lost
  <1>1. SUFFICES ASSUME ~lost PROVE FALSE
    OBVIOUS
  <1>2. /\ Running /\ AckInv /\ DecoderTyped /\ NotMissed /\ FoundSoFar
        /\ ackManagerProg \in DOMAIN Program /\ ip \in 1..Len(Program[ackManagerProg])
        /\ opcode = Program[ackManagerProg][ip]
    BY Place DEF UnlostInv, AckInv, FailCallback, At, opcode
  <1>3. opcode = "NAKFAIL" /\ ~ackReceived /\ At({"NAKFAIL"})
    BY <1>1, <1>2 DEF FailCallback, At, FoundSoFar
  <1>4. CASE ackManagerProg = "READ_CV"
    <2>1. ip = 10
      BY <1>2, <1>3, <1>4, Programs, ReadTables, NakTables
    <2> QED
      BY <1>1, <1>3, <1>4, <2>1, NakAfterOne
  <1>5. CASE ackManagerProg = "VERIFY_BYTE"
    <2>1. ip = 13
      BY <1>2, <1>3, <1>5, Programs, ReadTables, NakTables
    <2> QED
      BY <1>1, <1>3, <1>5, <2>1, NakAfterOne
  <1>6. CASE ackManagerProg = "LOCO_ID"
    <2>1. ip \in {9, 38, 68}
      <3>1. ip \in 1..100 /\ LOCO_ID_PROG[ip] = "NAKFAIL"
        BY <1>2, <1>3, <1>6, Programs, AddressTable
      <3> QED
        BY <3>1, NakTables
    <2>2. /\ AddressFound(ip, ackManagerByte, memory) /\ AddressBit(ip, ackManagerBitNum)
          /\ ip = 9 => ackManagerCv = 29
          /\ ip = 38 => ackManagerCv = 17
          /\ ip = 68 => ackManagerCv = 18
      BY <1>1, <1>2, <1>6, <2>1 DEF FoundSoFar, AckInv, Registers, AddressSoFar
    <2>3. CASE ip = 9
      <3>1. ip > 2 /\ LOCO_ID_PROG[ip - 1] = "WACK" /\ LOCO_ID_PROG[ip - 2] = "V1"
        BY <2>3, LocoIdTable
      <3>2. ackReceived <=> Acknowledges(MessageOf("V1"), memory)
        BY <1>1, <1>2, <1>6, <3>1, Programs, AnswerTells
      <3>3. BitOf(memory[29], 5) = 1 /\ ackManagerBitNum = 5
        BY <2>2, <2>3 DEF AddressFound, AddressBit
      <3> QED
        BY <1>3, <2>2, <2>3, <3>2, <3>3 DEF MessageOf, BitQuestion, Acknowledges
    <2>4. CASE ip \in {38, 68}
      <3>1. ip > 2 /\ LOCO_ID_PROG[ip - 1] = "WACK" /\ LOCO_ID_PROG[ip - 2] = "VB"
        BY <2>4, LocoIdTable
      <3>2. ackReceived <=> Acknowledges(MessageOf("VB"), memory)
        BY <1>1, <1>2, <1>6, <3>1, Programs, AnswerTells
      <3>3. ackManagerByte = memory[ackManagerCv]
        BY <2>2, <2>4 DEF AddressFound, Merged
      <3> QED
        BY <1>3, <3>2, <3>3 DEF MessageOf, ByteQuestion, Acknowledges
    <2> QED
      BY <2>1, <2>3, <2>4
  <1>7. CASE ackManagerProg \in BitReaders
    <2>1. PICK prog \in {VERIFY_BIT0_PROG, VERIFY_BIT1_PROG, READ_BIT_PROG} :
            Program[ackManagerProg] = prog
      BY <1>7, Programs DEF BitReaders
    <2> QED
      <3>1. ip \in 1..8 /\ prog[ip] = "NAKFAIL"
        BY <1>2, <1>3, <2>1, BitTables
      <3> QED
        BY <2>1, <3>1, NakTables
  <1>8. CASE ackManagerProg \in Writers
    <2>1. PICK prog \in {WRITE_BIT0_PROG, WRITE_BIT1_PROG, WRITE_BYTE_PROG} :
            Program[ackManagerProg] = prog
      BY <1>8, Programs DEF Writers
    <2> QED
      <3>1. ip \in 1..7 /\ prog[ip] = "NAKFAIL"
        BY <1>2, <1>3, <2>1, WriteTables
      <3> QED
        BY <2>1, <3>1, NakTables
  <1> QED
    BY <1>2, <1>4, <1>5, <1>6, <1>7, <1>8, Programs
    DEF BitReaders, Writers, BitPrograms, ByteReaders

LEMMA CompletesOrLost ==
  ASSUME UnlostInv, [Next]_ackVars, Completes, called'.value = -1
  PROVE  lost \/ Truth = -1
  <1>1. AckInv
    BY DEF UnlostInv
  <1>2. Leaving
    BY <1>1, CompletesByCallback
  <1>3. CASE IfTrueCallback
    <2>1. ackManagerByte \in 0..255
      BY <1>1 DEF AckInv, Typed, TypeOK, Bytes
    <2>2. called'.value \in {0, 1, ackManagerByte}
      BY <1>3 DEF IfTrueCallback, Callback, At
    <2> QED
      BY <2>1, <2>2
  <1>4. CASE FailCallback
    BY <1>4, FailureIsLoss
  <1>5. CASE CombineCallback
    BY <1>1, <1>5, AddressRead DEF CombineCallback, Callback
  <1> QED
    BY <1>2, <1>3, <1>4, <1>5 DEF Leaving


-----------------------------------------------------------------------------
(* The theorems.                                                           *)

THEOREM AckInvariant == Spec => []AckInv
  BY InitAckInv, AckInvKept, PTL DEF Spec

\* Whatever is asked, of whatever decoder, and whatever answers are lost: the
\* registers keep their eight bits, ip stays inside the running program, and
\* every question put into a packet is one (only bit numbers are sent as such).
THEOREM RegistersTyped == Spec => []TypeOK
  <1>1. AckInv => TypeOK
    BY DEF AckInv, Typed
  <1> QED
    BY <1>1, AckInvariant, PTL

\* Whoever is to be called back waits for it: no operation calls back a caller
\* that another operation's callback has already served.
THEOREM AwaitedCallback == Spec => []CallbackIsAwaited
  <1>1. Init => CallbackIsAwaited
    BY DEF Init, CallbackIsAwaited, Running
  <1>2. ASSUME CallbackIsAwaited, AckInv, [Next]_ackVars PROVE CallbackIsAwaited'
    <2> USE DEF CallbackIsAwaited, registers, callerVars, decoderVars
    <2>1. CASE Call
      BY <1>2, <2>1 DEF Call, API, ackManagerSetup, Reject, Running
    <2>2. CASE Leaving
      BY <2>2, LeavingEnds
    <2>3. CASE Setting \/ FallThrough
      BY <1>2, <2>3, SettingSteps DEF Running
    <2>4. CASE Baseline \/ Send \/ (\E answer \in BOOLEAN : Collect(answer)) \/ Skip \/ Hear
               \/ UNCHANGED ackVars
      BY <1>2, <2>4
      DEF Baseline, Send, Collect, Receive, Step, Skip, Hear, ackVars, Running
    <2> QED
      BY <1>2, <2>1, <2>2, <2>3, <2>4, Kinds
  <1> QED
    BY <1>1, <1>2, AckInvariant, PTL DEF Spec

\* The point of the ack manager: an operation calls back with what the decoder
\* holds, having written what it was to write, or with -1; no lost answer, and
\* no operation that took another's place, makes it report anything else.
THEOREM ResultsAreTrue == Spec => ResultIsTrueOrFailure
  <1>1. AckInv /\ [Next]_ackVars =>
          [Completes => called'.value = -1 \/ (called'.value = Truth /\ Written)]_ackVars
    BY CompletesTruly
  <1> QED
    BY <1>1, AckInvariant, PTL DEF Spec, ResultIsTrueOrFailure

\* An operation fails only if an answer was lost: of a decoder whose answers
\* all come through, every program reads what is there and verifies what it has
\* written, and reports -1 only where -1 is the address.
THEOREM FailuresAreLosses == Spec => FailureNeedsALostAnswer
  <1>1. UnlostInv /\ [Next]_ackVars =>
          [Completes /\ called'.value = -1 => lost \/ Truth = -1]_ackVars
    BY CompletesOrLost
  <1> QED
    BY <1>1, UnlostInvariant, PTL DEF Spec, FailureNeedsALostAnswer
=============================================================================
